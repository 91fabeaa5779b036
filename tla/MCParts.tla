------------------------------ MODULE MCParts ------------------------------
(***************************************************************************)
(* The parts of the system that keep their own state, beside each other:   *)
(* they share no variable.  part says which of them runs in a behaviour;   *)
(* the others stay as they started, in one of their initial states.        *)
(***************************************************************************)
EXTENDS SerialConnection, LoadcellBus, LoadcellHealth, LoadcellRegistry, IssueHistory,
        CloudSync, Snowflake, CardReader, ScannerProcess, CardLogin

VARIABLE part

partsVars == <<serialVars, busVars, healthVars, registryVars, historyVars, syncVars, flakeVars,
               readerVars, scannerVars, loginVars, part>>

Parts == {"serial", "bus", "health", "registry", "history", "sync", "ids", "reader", "scanner",
          "login"}

\* One of the states a part may start in.
SerialRests == options = CHOOSE o \in Options : TRUE
BusRests == comId = 0 /\ connectedPorts = {}
RegistryRests == Cardinality(DOMAIN cells) = Cardinality(Items) /\ cells[1].item = "i1"
HistoryRests == work = (CHOOSE w \in Worklists : TRUE) /\ locations = CHOOSE l \in Loans : TRUE
SyncRests == cloud = Absent
FlakeRests == now = 0
ReaderRests == ~attached
LoginRests == registered = {}

PartsInit ==
    /\ part \in Parts
    /\ SerialInit /\ (part # "serial" => SerialRests)
    /\ BusInit /\ (part # "bus" => BusRests)
    /\ HealthInit
    /\ RegistryInit /\ (part # "registry" => RegistryRests)
    /\ HistoryInit /\ (part # "history" => HistoryRests)
    /\ SyncInit /\ (part # "sync" => SyncRests)
    /\ FlakeInit /\ (part # "ids" => FlakeRests)
    /\ ReaderInit /\ (part # "reader" => ReaderRests)
    /\ ScannerInit
    /\ LoginInit /\ (part # "login" => LoginRests)

PartsNext ==
    \/ /\ part = "serial" /\ SerialNext
       /\ UNCHANGED <<busVars, healthVars, registryVars, historyVars, syncVars, flakeVars,
                      readerVars, scannerVars, loginVars, part>>
    \/ /\ part = "bus" /\ BusNext
       /\ UNCHANGED <<serialVars, healthVars, registryVars, historyVars, syncVars, flakeVars,
                      readerVars, scannerVars, loginVars, part>>
    \/ /\ part = "health" /\ HealthNext
       /\ UNCHANGED <<serialVars, busVars, registryVars, historyVars, syncVars, flakeVars,
                      readerVars, scannerVars, loginVars, part>>
    \/ /\ part = "registry" /\ RegistryNext
       /\ UNCHANGED <<serialVars, busVars, healthVars, historyVars, syncVars, flakeVars,
                      readerVars, scannerVars, loginVars, part>>
    \/ /\ part = "history" /\ HistoryNext
       /\ UNCHANGED <<serialVars, busVars, healthVars, registryVars, syncVars, flakeVars,
                      readerVars, scannerVars, loginVars, part>>
    \/ /\ part = "sync" /\ SyncNext
       /\ UNCHANGED <<serialVars, busVars, healthVars, registryVars, historyVars, flakeVars,
                      readerVars, scannerVars, loginVars, part>>
    \/ /\ part = "ids" /\ FlakeNext
       /\ UNCHANGED <<serialVars, busVars, healthVars, registryVars, historyVars, syncVars,
                      readerVars, scannerVars, loginVars, part>>
    \/ /\ part = "reader" /\ ReaderNext
       /\ UNCHANGED <<serialVars, busVars, healthVars, registryVars, historyVars, syncVars,
                      flakeVars, scannerVars, loginVars, part>>
    \/ /\ part = "scanner" /\ ScannerNext
       /\ UNCHANGED <<serialVars, busVars, healthVars, registryVars, historyVars, syncVars,
                      flakeVars, readerVars, loginVars, part>>
    \/ /\ part = "login" /\ LoginNext
       /\ UNCHANGED <<serialVars, busVars, healthVars, registryVars, historyVars, syncVars,
                      flakeVars, readerVars, scannerVars, part>>

PartsSpec == PartsInit /\ [][PartsNext]_partsVars

-----------------------------------------------------------------------------
\* A path that opens with retries, or again and again, with a way of buffering:
\* 'combined' is 'size' and 'time' in one.
SomeBuffers == {[reconnect |-> "retry", buffer |-> "none"],
                [reconnect |-> "interval", buffer |-> "delimiter"],
                [reconnect |-> "retry", buffer |-> "combined"]}

\* Two load cells, both on the port p1.
BothOnOne == [p \in Ports |-> IF p = "p1" THEN {1, 2} ELSE {}]

\* The metadata gives one item a maximum.
OneWithMax == [i \in Items |-> IF i = "i1" THEN 2 ELSE 0]

\* Each row on a page of its own; the second always has a site.
OnePerPage == [r \in Rows |-> IF r = "row1" THEN 1 ELSE 2]
SomeSites == [r \in Rows |-> <<IF r = "row1" THEN {"s1"} ELSE {}, {"s2"}>>]

\* One tablet to a cluster, and a user of every cluster.
OneToEach == [t \in Tablets |-> IF t = "t1" THEN "c1" ELSE "c2"]
EveryCluster == [u \in Users |-> Clusters]

\* Three load cells, two of them with the same item.
TwoOfOne == [p \in Places |-> IF p = "p3" THEN "i2" ELSE "i1"]

\* Something of each item is on loan, or nothing of the second.
SmallLoans == {[p \in Places |-> IF p = "p1" THEN 2 ELSE 0], [p \in Places |-> 1]}

\* An issue, or a return of one item, whose first place gets nothing, and of another; and two
\* returns of one or both.  What is returned may be damaged.
Put(p, q) == [at |-> p, quantity |-> q]
Steps(type, lists, hurt) ==
    {w \in [type : {type}, events : lists, damaged : hurt] :
        \A p \in w.damaged : \E i \in DOMAIN w.events : w.events[i].at = p}

SmallWorklists ==
    {<<a, b, c>> :
        a \in Steps("ISSUE", {<<Put("p1", 1)>>, <<Put("p2", 0)>>}, {{}})
              \cup Steps("RETURN", {<<Put("p2", 0), Put("p1", 1)>>, <<Put("p3", 0)>>}, {{}, {"p1"}}),
        b \in Steps("RETURN", {<<Put("p3", 1), Put("p1", 1)>>}, {{}, {"p1", "p3"}}),
        c \in Steps("RETURN", {<<Put("p1", 1)>>, <<Put("p3", 0)>>}, {{}, {"p1"}, {"p3"}})}

(* The types of the part that runs; the others are as they started.          *)
PartsTypeOK ==
    CASE part = "serial" -> SerialTypeOK
      [] part = "bus" -> BusTypeOK
      [] part = "health" -> HealthTypeOK
      [] part = "registry" -> RegistryTypeOK
      [] part = "history" -> HistoryTypeOK
      [] part = "sync" -> SyncTypeOK
      [] part = "ids" -> FlakeTypeOK
      [] part = "reader" -> ReaderTypeOK
      [] part = "scanner" -> ScannerTypeOK
      [] part = "login" -> LoginTypeOK
=============================================================================
