---------------------------- MODULE PartsProofs ----------------------------
(***************************************************************************)
(* The parts with a state of their own beside each other, as the runs have *)
(* them: what is proved of a part alone holds of it among the others,      *)
(* because a behaviour of all parts is, seen from one of them, one of its  *)
(* own behaviours.  For any size of every part.                            *)
(***************************************************************************)
EXTENDS HardwareProofs, BooksProofs, InventoryProofs, MCParts

-----------------------------------------------------------------------------
(* Seen from a part, the others only stutter.                                *)

LEMMA BridgeParts ==
    ASSUME [PartsNext]_partsVars
    PROVE  /\ [SerialNext]_serialVars /\ [BusNext]_busVars /\ [HealthNext]_healthVars
           /\ [ReaderNext]_readerVars /\ [ScannerNext]_scannerVars
BY DEF PartsNext, partsVars

LEMMA DatabaseParts ==
    ASSUME [PartsNext]_partsVars
    PROVE  /\ [RegistryNext]_registryVars /\ [HistoryNext]_historyVars /\ [SyncNext]_syncVars
           /\ [FlakeNext]_flakeVars /\ [LoginNext]_loginVars
BY DEF PartsNext, partsVars

LEMMA BridgePartsRun ==
    PartsSpec => SerialSpec /\ BusSpec /\ HealthSpec /\ ReaderSpec /\ ScannerSpec
<1>1. PartsInit => SerialInit /\ BusInit /\ HealthInit /\ ReaderInit /\ ScannerInit
  BY DEF PartsInit
<1>2. [PartsNext]_partsVars =>
        /\ [SerialNext]_serialVars /\ [BusNext]_busVars /\ [HealthNext]_healthVars
        /\ [ReaderNext]_readerVars /\ [ScannerNext]_scannerVars
  BY BridgeParts
<1> QED
  BY <1>1, <1>2, PTL DEF PartsSpec, SerialSpec, BusSpec, HealthSpec, ReaderSpec, ScannerSpec

LEMMA DatabasePartsRun ==
    PartsSpec => RegistrySpec /\ HistorySpec /\ SyncSpec /\ FlakeSpec /\ LoginSpec
<1>1. PartsInit => RegistryInit /\ HistoryInit /\ SyncInit /\ FlakeInit /\ LoginInit
  BY DEF PartsInit
<1>2. [PartsNext]_partsVars =>
        /\ [RegistryNext]_registryVars /\ [HistoryNext]_historyVars /\ [SyncNext]_syncVars
        /\ [FlakeNext]_flakeVars /\ [LoginNext]_loginVars
  BY DatabaseParts
<1> QED
  BY <1>1, <1>2, PTL DEF PartsSpec, RegistrySpec, HistorySpec, SyncSpec, FlakeSpec, LoginSpec

-----------------------------------------------------------------------------
\* The variables of whichever part runs keep their types, for any size of it.
THEOREM PartsTypeCorrect == PartsSpec => []PartsTypeOK
<1>1. /\ SerialTypeOK /\ BusTypeOK /\ HealthTypeOK /\ ReaderTypeOK /\ ScannerTypeOK
      /\ RegistryTypeOK /\ HistoryTypeOK /\ SyncTypeOK /\ FlakeTypeOK /\ LoginTypeOK
      /\ part \in Parts
      => PartsTypeOK
  BY DEF PartsTypeOK, Parts
<1>2. PartsSpec => [](part \in Parts)
  <2>1. PartsInit => part \in Parts
    BY DEF PartsInit
  <2>2. part \in Parts /\ [PartsNext]_partsVars => (part \in Parts)'
    BY DEF PartsNext, partsVars, Parts
  <2> QED  BY <2>1, <2>2, PTL DEF PartsSpec
<1> QED
  BY <1>1, <1>2, BridgePartsRun, DatabasePartsRun, SerialTypeCorrect, BusTypeCorrect,
     HealthTypeCorrect, ReaderTypeCorrect, ScannerTypeCorrect, RegistryTypeCorrect,
     HistoryTypeCorrect, SyncTypeCorrect, FlakeTypeCorrect, LoginTypeCorrect, PTL

\* Beside each other, each part keeps its promise: what the models of the parts leave out is
\* nothing that one of the others does to it.
THEOREM PartsKeepTheirPromises ==
    PartsSpec =>
      /\ [](RequestsServed /\ PortsInOrder /\ PollingFollowsRooms /\ HealthIsTold)
      /\ [](ScansHeard /\ ScannerKept)
      /\ [](RegistrySound /\ TotalsAreCredited /\ DamageIsCounted)
      /\ [](SyncedIsComplete /\ UsersHaveSites /\ UniqueIds /\ LoginsDecided)
BY BridgePartsRun, DatabasePartsRun, RequestsAreServed, PortsStayInOrder, PollingIsWatched,
   SilenceIsHeard, ScansAreHeard, ScannerIsKept, RegistryIsSound, TotalsCredited,
   DamageIsReported, SyncIsComplete, SitesBeforeUsers, IdsAreUnique,
   LoginsAreDecided, PTL
=============================================================================
