--------------------------- MODULE MCLocksAndPorts ---------------------------
(***************************************************************************)
(* The locks and the discovery of ports beside each other, as one          *)
(* specification: they share no variable, part says which of them runs in  *)
(* a behaviour, and the other stays as it started.                         *)
(***************************************************************************)
EXTENDS LockBoard, PortDiscovery

VARIABLE part

locksAndPortsVars == <<lockVars, discVars, part>>

OneLayout == CHOOSE l \in Layouts : TRUE

LocksAndPortsInit ==
    /\ part \in {"locks", "ports"}
    /\ LockInit /\ DiscInit
    /\ part = "locks" => plugged = {}
    /\ part = "ports" => boardOf = OneLayout /\ lockPort = "cu"

LocksRun == part = "locks" /\ LockNext /\ UNCHANGED <<discVars, part>>
PortsRun == part = "ports" /\ DiscNext /\ UNCHANGED <<lockVars, part>>

\* Each part is scheduled as its module says; locks that nobody opens ask for
\* nothing, but ports are scanned from the start.
LocksAndPortsSpec ==
    /\ LocksAndPortsInit /\ [][LocksRun \/ PortsRun]_locksAndPortsVars
    /\ LockFairness
    /\ WF_discVars(part = "ports" /\ ScanStarts) /\ WF_discVars(ScanEnds)
    /\ \A p \in Paths : /\ WF_discVars(ConnectStarts(p))
                        /\ WF_discVars(ConnectSucceeds(p) \/ ConnectFails(p))
                        /\ WF_discVars(CloseEnds(p))

\* Two bins on one board, or each on its own.
SmallLayouts == {[b \in Bins |-> "k1"], [b \in Bins |-> IF b = "b1" THEN "k1" ELSE "k2"]}

\* The last locks of a board, where ids are cut off.
EdgeLocks == [b \in Bins |-> IF b = "b1" THEN 47 ELSE 48]
Numbers == [k \in Boards |-> IF k = "k1" THEN 1 ELSE 2]

\* Two devices to open, and a port of the system.
Makers == [p \in Paths |-> "m1"]

\* The first port that opens is a board, or it is not.
SmallScans == {<<[opens |-> FALSE, hardware |-> "cu"], [opens |-> TRUE, hardware |-> "cu"]>>,
               <<[opens |-> TRUE, hardware |-> "loadcell"], [opens |-> TRUE, hardware |-> "cu"]>>}

(* The types of the two parts.                                              *)
LocksAndPortsTypeOK == LockTypeOK /\ DiscTypeOK
=============================================================================
