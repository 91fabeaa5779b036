----------------------------- MODULE CloudSync ------------------------------
(* sync-worker copies a collection of the cloud into the local database,     *)
(* page by page, whenever it is asked to: an await before every page and     *)
(* before every write.  Ten collections are copied in the same way; only     *)
(* users refer to documents, the sites, that are written before them.  In    *)
(* the cloud the rows change while they are copied.                          *)
EXTENDS Integers, FiniteSets

CONSTANTS Syncs,      \* slots for calls of one sync endpoint
          Rows,       \* documents of the collection
          PageOf,     \* the page a row is on, the same one for every sync
          LastPage,
          SitesOf,    \* sites a version of a row refers to (none but for users)
          MaxVersion  \* BOUND: versions of a row

ASSUME SyncAssumption ==
    /\ LastPage \in Nat \ {0} /\ PageOf \in [Rows -> 1..LastPage]
    /\ MaxVersion \in Nat \ {0}

VARIABLES cloud,     \* the version of every row in the cloud; 0: there is none
          local,     \* the version in the local database
          sites,     \* ids of the sites in the local database
          sync,      \* the calls under way
          since,     \* history: the cloud when a call started
          crossed    \* history: two calls were under way at once

syncVars == <<cloud, local, sites, sync, since, crossed>>

Versions == 0..MaxVersion
Absent == [r \in Rows |-> 0]
AllSites == UNION {SitesOf[r][v] : r \in Rows, v \in 1..MaxVersion}

\* The page is the one that is copied, or that the call ended on; empty, a history, if it
\* was an answer without rows that ended it.
Sync == [pc : {"idle", "fetch", "sites", "rows", "true", "false"},
         page : 1..LastPage, list : [Rows -> Versions], empty : BOOLEAN]
NoSync == [pc |-> "idle", page |-> 1, list |-> Absent, empty |-> FALSE]

SyncInit ==
    /\ cloud \in [Rows -> {0, 1}] /\ local = Absent /\ sites = {}
    /\ sync = [s \in Syncs |-> NoSync]
    /\ since = [s \in Syncs |-> Absent] /\ crossed = FALSE

Running == {s \in Syncs : sync[s].pc \in {"fetch", "sites", "rows"}}
OnPage(p) == {r \in Rows : PageOf[r] = p /\ cloud[r] > 0}
Listed(s) == {r \in Rows : sync[s].list[r] > 0}

\* A row is added or changed in the cloud.
CloudChanges(r) ==
    /\ cloud[r] < MaxVersion
    /\ cloud' = [cloud EXCEPT ![r] = @ + 1]
    /\ UNCHANGED <<local, sites, sync, since, crossed>>

\* GET sync/<collection>.
SyncStart(s) ==
    /\ s \notin Running
    /\ sync' = [sync EXCEPT ![s] = [NoSync EXCEPT !.pc = "fetch"]]
    /\ since' = [since EXCEPT ![s] = cloud]
    /\ crossed' = (crossed \/ Running # {})
    /\ UNCHANGED <<cloud, local, sites>>

\* What the call answers: isSuccess.
SyncEnds(s, how) ==
    sync' = [sync EXCEPT ![s] = [NoSync EXCEPT !.pc = how, !.page = sync[s].page]]

\* An answer without rows ends the loop as if the last page had been copied.
EndOfList(s) ==
    sync' = [sync EXCEPT ![s] = [NoSync EXCEPT !.pc = "true", !.page = sync[s].page,
                                               !.empty = TRUE]]

\* The rows of a page as the cloud has them at this moment.
PageOfCloud(p) == [r \in Rows |-> IF r \in OnPage(p) THEN cloud[r] ELSE 0]

\* fetchFromCloud: the page that was asked for.
FetchPage(s) ==
    /\ sync[s].pc = "fetch"
    /\ IF OnPage(sync[s].page) = {} THEN EndOfList(s)
       ELSE sync' = [sync EXCEPT ![s].pc = "sites",
                                 ![s].list = PageOfCloud(sync[s].page)]
    /\ UNCHANGED <<cloud, local, sites, since, crossed>>

\* An empty body, whatever its status, on any page.
FetchNothing(s) ==
    /\ sync[s].pc = "fetch"
    /\ EndOfList(s)
    /\ UNCHANGED <<cloud, local, sites, since, crossed>>

\* An error, an answer that is no page, or a user without siteIds: it throws.
FetchFails(s) ==
    /\ sync[s].pc = "fetch"
    /\ SyncEnds(s, "false")
    /\ UNCHANGED <<cloud, local, sites, since, crossed>>

\* Variant: users that are there already are thought to have their sites.
SitesOfNew(s) == UNION {SitesOf[r][sync[s].list[r]] : r \in {q \in Listed(s) : local[q] = 0}}

\* syncUsers: the sites of the page come first, by their ids alone.
SitesIn(s) == UNION {SitesOf[r][sync[s].list[r]] : r \in Listed(s)}

UpsertSites(s) ==
    /\ sync[s].pc = "sites"
    /\ sites' = sites \cup SitesIn(s)
    /\ sync' = [sync EXCEPT ![s].pc = "rows"]
    /\ UNCHANGED <<cloud, local, since, crossed>>

\* Variant: the loop ends one page too early.
NextPageBut(s) ==
    IF sync[s].page + 1 < LastPage
    THEN sync' = [sync EXCEPT ![s] = [NoSync EXCEPT !.pc = "fetch", !.page = sync[s].page + 1]]
    ELSE SyncEnds(s, "true")

\* The page that follows; after the last one there is no next.
NextPage(s) ==
    IF sync[s].page < LastPage
    THEN sync' = [sync EXCEPT ![s] = [NoSync EXCEPT !.pc = "fetch", !.page = sync[s].page + 1]]
    ELSE SyncEnds(s, "true")

\* The rows of a page are stored over what there is, nothing is deleted.
Upserted(s, rows) == [r \in Rows |-> IF r \in rows THEN sync[s].list[r] ELSE local[r]]

UpsertRows(s) ==
    /\ sync[s].pc = "rows"
    /\ local' = Upserted(s, Listed(s))
    /\ NextPage(s)
    /\ UNCHANGED <<cloud, sites, since, crossed>>

\* The database refuses a write: some of a page may have been written.
UpsertFails(s) ==
    /\ sync[s].pc \in {"sites", "rows"}
    /\ IF sync[s].pc = "sites"
       THEN /\ \E part \in SUBSET SitesIn(s) : sites' = sites \cup part
            /\ UNCHANGED local
       ELSE /\ \E part \in SUBSET Listed(s) : local' = Upserted(s, part)
            /\ UNCHANGED sites
    /\ SyncEnds(s, "false")
    /\ UNCHANGED <<cloud, since, crossed>>

SyncNext ==
    \/ \E r \in Rows : CloudChanges(r)
    \/ \E s \in Syncs : \/ SyncStart(s) \/ FetchPage(s) \/ FetchNothing(s) \/ FetchFails(s)
                        \/ UpsertSites(s) \/ UpsertRows(s) \/ UpsertFails(s)

SyncSpec == SyncInit /\ [][SyncNext]_syncVars

-----------------------------------------------------------------------------
(* Types of the databases and of the calls.                                  *)
SyncTypeOK ==
    /\ {cloud, local} \subseteq [Rows -> Versions] /\ sites \subseteq AllSites
    /\ sync \in [Syncs -> Sync] /\ since \in [Syncs -> [Rows -> Versions]]
    /\ crossed \in BOOLEAN

(* A sync that answers true has copied every row the cloud had when it was   *)
(* asked to, in that version or a later one, and no other sync takes it      *)
(* back, unless calls for one collection overlapped.  A sync that an answer  *)
(* without rows ended answers true as well: of it this holds for the pages   *)
(* before that answer, and what follows is missing without a word.           *)
SyncedIsComplete ==
    ~crossed => \A s \in Syncs : sync[s].pc = "true" =>
        \A r \in Rows : (sync[s].empty => PageOf[r] < sync[s].page) => local[r] >= since[s][r]

(* A user in the local database always refers to sites that are there, also  *)
(* while a page is being stored, after a failure, and with calls that        *)
(* overlap.                                                                  *)
UsersHaveSites == \A r \in Rows : local[r] > 0 => SitesOf[r][local[r]] \subseteq sites
=============================================================================
