-------------------------- MODULE LoadcellRegistry --------------------------
(* The documents of the loadcells: the hardware that announced itself by a   *)
(* weight, and the blocks of data about items that came from the cloud.      *)
(* Administrators join the two (calibrate) and part them again (unassign)    *)
(* while weights arrive; each operation reads, awaits, and writes document   *)
(* by document, without a database transaction.                              *)
EXTENDS Integers, Sequences, FiniteSets

CONSTANTS Hardware,  \* hardware ids of loadcells
          Items,     \* items
          MaxOf,     \* metadata.max of the block of every item
          Admins,    \* slots for requests of administrators under way
          Weighers,  \* slots for weights under way
          NoItem,    \* a document without an item
          MaxRequests \* BOUND: requests of administrators

NoHardware == 0
ASSUME RegistryAssumption ==
    /\ Hardware \subseteq Nat \ {NoHardware} /\ NoItem \notin Items
    /\ IsFiniteSet(Items) /\ MaxOf \in [Items -> Nat] /\ MaxRequests \in Nat

VARIABLES cells,      \* loadcells: the documents, in the order they were written
          request,    \* the requests of administrators, across their awaits
          provision,  \* weights of hardware that has no document, likewise
          requests,   \* how many requests were made
          lockedBins, \* items whose bin has state.isLocked
          announced,  \* history: hardware that got a document
          sacrificed, \* history: items whose block was chosen as a target
          rivals,     \* history: a request or weight read what another would write
          cutShort    \* history: the process died in the middle of a flush

registryVars == <<cells, request, provision, requests, lockedBins, announced,
                  sacrificed, rivals, cutShort>>

CellDoc == [live : BOOLEAN, hardwareId : Hardware \cup {NoHardware}, item : Items \cup {NoItem},
            isCalibrated : BOOLEAN, quantity : Nat]
RawCell(h) == [live |-> TRUE, hardwareId |-> h, item |-> NoItem, isCalibrated |-> FALSE,
               quantity |-> 0]
ItemBlock(i) == [RawCell(NoHardware) EXCEPT !.item = i]

\* The fields an update may change; isCalibrated stands for the state it is embedded in,
\* which is written as a whole.
Fields == {"hardwareId", "isCalibrated", "quantity"}
Changed(was, now) == {f \in Fields : was[f] # now[f]}

\* What a flush still has to write: an insert, an update, a deletion, in this order.
Request == [pc : {"idle", "loaded", "flush"}, insert : Seq(CellDoc), update : Nat, with : CellDoc,
            changes : SUBSET Fields, delete : Nat, lock : SUBSET Items]
NoRequest == [pc |-> "idle", insert |-> <<>>, update |-> 0, with |-> RawCell(NoHardware),
              changes |-> {}, delete |-> 0, lock |-> {}]

RegistryInit ==
    /\ \E blocks \in [1..Cardinality(Items) -> Items] :
           /\ \A i \in Items : \E d \in DOMAIN blocks : blocks[d] = i
           /\ cells = [d \in DOMAIN blocks |-> ItemBlock(blocks[d])]
    /\ request = [a \in Admins |-> NoRequest] /\ provision = [w \in Weighers |-> NoHardware]
    /\ requests = 0 /\ lockedBins = {}
    /\ announced = {} /\ sacrificed = {} /\ rivals = FALSE /\ cutShort = FALSE

Known == {d \in DOMAIN cells : cells[d].live}
With(h) == {d \in Known : cells[d].hardwareId = h}

\* The quantity is the net weight by the unit weight, and the unit weight is the
\* net weight by metadata.max: floating point may lose one on the way.
Calculated(net, max) == IF net <= 0 \/ max = 0 THEN {0} ELSE {max, max - 1}

-----------------------------------------------------------------------------
(* _provisionOrGetLoadcell: a weight of hardware without a document.         *)
WeightOfUnknown(w, h) ==
    /\ provision[w] = NoHardware /\ With(h) = {}
    /\ rivals' = (rivals \/ \E v \in Weighers : provision[v] = h)
    /\ provision' = [provision EXCEPT ![w] = h]
    /\ UNCHANGED <<cells, request, requests, lockedBins, announced, sacrificed, cutShort>>

Provisioned(w) ==
    /\ provision[w] # NoHardware
    /\ cells' = Append(cells, RawCell(provision[w]))
    /\ announced' = announced \cup {provision[w]}
    /\ provision' = [provision EXCEPT ![w] = NoHardware]
    /\ UNCHANGED <<request, requests, lockedBins, sacrificed, rivals, cutShort>>

-----------------------------------------------------------------------------
(* unassign and calibrate: what they read, and what they leave to flush().   *)

\* A request arrives while another may be under way.
Arrives(a) ==
    /\ request[a].pc = "idle" /\ requests < MaxRequests
    /\ requests' = requests + 1
    /\ rivals' = (rivals \/ \E b \in Admins \ {a} : request[b].pc # "idle")

\* Variant: the block keeps the hardware it gives up.
ResetKeeping(c) == [c EXCEPT !.isCalibrated = FALSE, !.quantity = 0]

\* A calibrated loadcell goes back to a block of data, its hardware to a document
\* of its own.  A request for another pair does nothing; without hardware it fails.
ResetCell(c) == [c EXCEPT !.hardwareId = NoHardware, !.isCalibrated = FALSE, !.quantity = 0]

Unassign(a, d) ==
    /\ Arrives(a) /\ d \in Known
    /\ cells[d].isCalibrated /\ cells[d].item # NoItem /\ cells[d].hardwareId # NoHardware
    /\ request' = [request EXCEPT ![a] =
           [NoRequest EXCEPT !.pc = "flush", !.insert = <<RawCell(cells[d].hardwareId)>>,
                             !.update = d, !.with = ResetCell(cells[d]),
                             !.changes = Changed(cells[d], ResetCell(cells[d]))]]
    /\ UNCHANGED <<cells, provision, lockedBins, announced, sacrificed, cutShort>>

\* A calibrated loadcell is calibrated again for the item it has.  The state is written
\* as well if state.isUpdatedWeight was not set already.
Recalibrate(a, d, net) ==
    /\ Arrives(a) /\ d \in Known
    /\ cells[d].isCalibrated /\ cells[d].item # NoItem
    /\ \E q \in Calculated(net, MaxOf[cells[d].item]), flag \in {{}, {"isCalibrated"}} :
           LET now == [cells[d] EXCEPT !.quantity = q]
           IN  request' = [request EXCEPT ![a] =
                   [NoRequest EXCEPT !.pc = "flush", !.update = d, !.with = now,
                                     !.changes = flag \cup Changed(cells[d], now)]]
    /\ UNCHANGED <<cells, provision, lockedBins, announced, sacrificed, cutShort>>

\* The target is read first, the block of the item after an await.
LoadTarget(a, d) ==
    /\ Arrives(a) /\ d \in Known /\ ~cells[d].isCalibrated
    /\ request' = [request EXCEPT ![a] =
           [NoRequest EXCEPT !.pc = "loaded", !.delete = d, !.with = cells[d]]]
    /\ UNCHANGED <<cells, provision, lockedBins, announced, sacrificed, cutShort>>

\* The block takes over the hardware of the target, whatever the target is.
Merged(c, target, q) ==
    [c EXCEPT !.hardwareId = target.hardwareId, !.isCalibrated = TRUE, !.quantity = q]

\* Variant: a block that is calibrated already is taken as well.
AnyBlocks(i) == {d \in Known : cells[d].item = i}

\* The blocks of the item that are not calibrated, one of which is found.
Blocks(i) == {d \in Known : cells[d].item = i /\ ~cells[d].isCalibrated}

\* Refused: no block, one without a bin (bins are not modelled), or the target itself.
LoadSource(a, i, net) ==
    /\ request[a].pc = "loaded"
    /\ \E binned \in BOOLEAN :
           \/ /\ Blocks(i) = {} \/ ~binned \/ request[a].delete \in Blocks(i)
              /\ request' = [request EXCEPT ![a] = NoRequest]
              /\ UNCHANGED sacrificed
           \/ /\ binned
              /\ \E d \in Blocks(i) \ {request[a].delete}, q \in Calculated(net, MaxOf[i]) :
                     LET now == Merged(cells[d], request[a].with, q)
                     IN  request' = [request EXCEPT ![a] =
                             [@ EXCEPT !.pc = "flush", !.update = d, !.lock = {i}, !.with = now,
                                       !.changes = Changed(cells[d], now)]]
              /\ sacrificed' = sacrificed \cup ({request[a].with.item} \ {NoItem})
    /\ UNCHANGED <<cells, provision, requests, lockedBins, announced, rivals, cutShort>>

-----------------------------------------------------------------------------
(* flush(): inserts, then updates, then deletions, one write at a time.      *)

Remaining(b) ==
    CASE b.insert # <<>> -> [b EXCEPT !.insert = <<>>]
      [] b.insert = <<>> /\ b.update # 0 -> [b EXCEPT !.update = 0]
      [] OTHER -> [b EXCEPT !.delete = 0]

\* An update sets what was changed since the document was read, and nothing else.
Updated(c, b) ==
    [c EXCEPT
        !.hardwareId = IF "hardwareId" \in b.changes THEN b.with.hardwareId ELSE c.hardwareId,
        !.isCalibrated = IF "isCalibrated" \in b.changes THEN b.with.isCalibrated
                         ELSE c.isCalibrated,
        !.quantity = IF "quantity" \in b.changes THEN b.with.quantity ELSE c.quantity]

\* It is nothing if the document is gone.
Stored(b) ==
    CASE b.insert # <<>> -> cells \o b.insert
      [] b.insert = <<>> /\ b.update # 0 ->
             IF cells[b.update].live
             THEN [cells EXCEPT ![b.update] = Updated(cells[b.update], b)] ELSE cells
      [] OTHER -> IF b.delete # 0 THEN [cells EXCEPT ![b.delete].live = FALSE] ELSE cells

Write(a) ==
    /\ request[a].pc = "flush"
    /\ cells' = Stored(request[a])
    /\ LET rest == Remaining(request[a])
       IN  /\ request' = [request EXCEPT ![a] =
                  IF rest.update = 0 /\ rest.delete = 0 THEN NoRequest ELSE rest]
           /\ lockedBins' = IF request[a].insert = <<>> THEN lockedBins \cup request[a].lock
                            ELSE lockedBins
    /\ UNCHANGED <<provision, requests, announced, sacrificed, rivals, cutShort>>

\* The process dies, or the database refuses a write: the rest is not written.
DiesInFlush(a) ==
    /\ request[a].pc = "flush" /\ ~cutShort
    /\ cutShort' = TRUE
    /\ request' = [b \in Admins |-> NoRequest]
    /\ UNCHANGED <<cells, provision, requests, lockedBins, announced, sacrificed, rivals>>

RegistryNext ==
    \/ \E w \in Weighers : \/ \E h \in Hardware : WeightOfUnknown(w, h)
                           \/ Provisioned(w)
    \/ \E a \in Admins :
           \/ \E d \in Known : \/ Unassign(a, d) \/ LoadTarget(a, d)
                               \/ \E net \in {0, 1} : Recalibrate(a, d, net)
           \/ \E i \in Items, net \in {0, 1} : LoadSource(a, i, net)
           \/ Write(a) \/ DiesInFlush(a)

RegistrySpec == RegistryInit /\ [][RegistryNext]_registryVars

-----------------------------------------------------------------------------
(* Types of the documents and of the requests under way.                     *)
RegistryTypeOK ==
    /\ cells \in Seq(CellDoc) /\ requests \in 0..MaxRequests
    /\ request \in [Admins -> Request] /\ provision \in [Weighers -> Hardware \cup {NoHardware}]
    /\ lockedBins \cup sacrificed \subseteq Items /\ announced \subseteq Hardware
    /\ {rivals, cutShort} \subseteq BOOLEAN

\* Hardware that announced itself stays in some document, at every moment of a merge
\* or a parting and after a crash in the middle of one: its weights always find a
\* document, so that it is not provisioned a second time.
HardwareKept == ~rivals => \A h \in announced : With(h) # {}

\* Between requests a loadcell is one document, if no two of them overlapped and none
\* died halfway: a weight cannot go to a document that is outdated.
HardwareOnce ==
    ~rivals /\ ~cutShort /\ (\A a \in Admins : request[a].pc = "idle") =>
        \A h \in announced : Cardinality(With(h)) = 1

(* A weight finds the document of its loadcell, and no other: through merges *)
(* and partings that write document by document, crashes in the middle of    *)
(* one, and weights that arrive meanwhile.                                   *)
HardwareTracked == HardwareKept /\ HardwareOnce

\* The data of an item is never lost, even if the process dies halfway or requests
\* overlap, unless its block was itself picked as the loadcell to calibrate.
ItemKept == \A i \in Items \ sacrificed : \E d \in Known : cells[d].item = i

\* What counts as calibrated has an item.  It has hardware too, unless a block was picked
\* as the hardware or a recalibration wrote back the state that a parting had reset.
CalibratedIsReal ==
    \A d \in Known : cells[d].isCalibrated =>
        /\ cells[d].item # NoItem
        /\ ~rivals /\ sacrificed = {} => cells[d].hardwareId # NoHardware

(* An item keeps its data through calibrations and partings, and what counts *)
(* as calibrated is a loadcell with an item, whatever order the writes of    *)
(* several requests come in, unless a block was picked as the loadcell.      *)
ItemDataKept == ItemKept /\ CalibratedIsReal

(* What the registry promises: weights go where they belong, and no item     *)
(* loses its data.                                                           *)
RegistrySound == HardwareTracked /\ ItemDataKept
=============================================================================
