---------------------------- MODULE IssueHistory ----------------------------
(* What process-worker does to issue_histories, loadcells and bins when a    *)
(* step succeeds: the part of handleStepSuccess that reads the events of the *)
(* step.  An event comes back without bin and loadcell: quantity-checking    *)
(* writes neither of the columns they are read from (binId, loadcellId).  So *)
(* both history functions throw at the first event that counts, an issue     *)
(* before anything is changed and a return in the middle; a return goes on,  *)
(* and its half-made change is written by whichever flush of the same        *)
(* EntityManager comes next.  One user and items that are no consumables;    *)
(* the histories are what the database held before.                          *)
EXTENDS Integers, Sequences, FiniteSets, FiniteSetsExt

CONSTANTS Jobs,      \* steps that succeed: calls of handleStepSuccess
          Places,    \* loadcells, each in a bin of its own
          ItemAt,    \* the item on a loadcell
          Worklists, \* what the steps did: functions from Jobs to Work
          Loans      \* what the histories say: quantities at the loadcells

Kinds == {ItemAt[p] : p \in Places}
Work == [type : {"ISSUE", "RETURN"}, events : Seq([at : Places, quantity : Nat]) \ {<<>>},
         damaged : SUBSET Places]

ASSUME HistoryAssumption ==
    /\ IsFiniteSet(Jobs) /\ IsFiniteSet(Places) /\ Loans \subseteq [Places -> Nat]
    /\ Worklists \subseteq [Jobs -> Work]
    /\ \A w \in Worklists : \A j \in Jobs : \A p \in w[j].damaged :
           \E i \in DOMAIN w[j].events : w[j].events[i].at = p

VARIABLES work,        \* the steps, as the transaction events tell
          locations,   \* issue_histories: what is where, by loadcell
          total,       \* issue_histories: totalIssuedQuantity, by item
          job,         \* where a job is, and the history it has changed
          report,      \* where the damage part of a job is
          damage,      \* damageQuantity of every loadcell
          damagedBins, \* bins with state.isDamaged
          credited,    \* history: what the totals are to be lessened by
          broken,      \* history: how much came back damaged, by loadcell
          raced,       \* history: a job read what another was about to write
          cut          \* history: the process died in the middle of a job

historyVars == <<work, locations, total, job, report, damage, damagedBins, credited,
                 broken, raced, cut>>

\* An entity that was changed is dirty until a flush writes it.
Job == [pc : {"idle", "read", "settled", "done"}, event : Nat, dirty : BOOLEAN, entity : Int]
Report == [pc : {"idle", "find", "mark", "flush", "done"}, found : [Places -> Nat],
           dirty : SUBSET Places]
Nothing == [p \in Places |-> 0]
NoReport == [pc |-> "idle", found |-> Nothing, dirty |-> {}]

At(item) == {p \in Places : ItemAt[p] = item}
OnLoan(loan, item) == MapThenSumSet(LAMBDA p : loan[p], At(item))
Issued(item) == OnLoan(locations, item)
Event(j) == work[j].events[job[j].event]
Taken(j) == ItemAt[Event(j).at]

\* The events that add to, or are taken off, a history that there is.
Counting(j) == {i \in DOMAIN work[j].events :
                   work[j].events[i].quantity > 0 /\ Issued(ItemAt[work[j].events[i].at]) > 0}
EventsOf(j, item) == {i \in DOMAIN work[j].events : ItemAt[work[j].events[i].at] = item}
Brought(j, these) == MapThenSumSet(LAMBDA i : work[j].events[i].quantity, these)

\* What a return takes off the total of an item: its first event that counts.
Credit(j, item) ==
    IF work[j].type = "RETURN" /\ Counting(j) # {} /\ Min(Counting(j)) \in EventsOf(j, item)
    THEN work[j].events[Min(Counting(j))].quantity ELSE 0

HistoryInit ==
    /\ work \in Worklists /\ locations \in Loans
    /\ total = [item \in Kinds |-> Issued(item)]
    /\ job = [j \in Jobs |-> [pc |-> "idle", event |-> 1, dirty |-> FALSE, entity |-> 0]]
    /\ report = [j \in Jobs |-> NoReport]
    /\ damage = Nothing /\ damagedBins = {}
    /\ credited = [item \in Kinds |-> 0]
    /\ broken = Nothing /\ raced = FALSE /\ cut = FALSE

\* A step succeeds.  Of an item no more is brought back than a plan allows, which goes by
\* the locations of its history.
StepSucceeds(j) ==
    /\ job[j].pc = "idle"
    /\ work[j].type = "RETURN" =>
           \A item \in Kinds : Brought(j, EventsOf(j, item)) <= Issued(item)
    /\ credited' = [item \in Kinds |-> credited[item] + Credit(j, item)]
    /\ broken' = [p \in Places |->
           IF work[j].type = "RETURN" /\ p \in work[j].damaged
           THEN broken[p] + Brought(j, {i \in DOMAIN work[j].events : work[j].events[i].at = p})
           ELSE broken[p]]
    /\ job' = [job EXCEPT ![j].pc = "read"]
    /\ report' = [report EXCEPT ![j].pc = IF work[j].type = "RETURN" /\ work[j].damaged # {}
                                          THEN "find" ELSE "done"]
    /\ UNCHANGED <<work, locations, total, damage, damagedBins, raced, cut>>

-----------------------------------------------------------------------------
(* flush(): what the job has changed is written, the rest is left alone.     *)

\* What came back there is read off the first event of the item.
DamageIn(j, p) == work[j].events[Min(EventsOf(j, ItemAt[p]))].quantity

\* Variant: the quantity of a loadcell is replaced.
DamagedOnlyNow(j, p) == DamageIn(j, p)

\* The damageQuantity a job sets.
DamagedThen(j, p) == report[j].found[p] + DamageIn(j, p)

\* Variant: only the entities of the damage part are written.
FlushOwn(j) ==
    /\ damage' = [p \in Places |-> IF p \in report[j].dirty THEN DamagedThen(j, p) ELSE damage[p]]
    /\ UNCHANGED total

EmFlush(j) ==
    /\ damage' = [p \in Places |-> IF p \in report[j].dirty THEN DamagedThen(j, p) ELSE damage[p]]
    /\ total' = IF job[j].dirty THEN [total EXCEPT ![Taken(j)] = job[j].entity] ELSE total

-----------------------------------------------------------------------------
(* _processIssueHistoryOnIssueSuccess                                        *)

\* The first event that took a tracked item is asked for its bin, and the job is over
\* before anything is looked up; with no such event the flush has nothing to write.
RecordIssue(j) ==
    /\ work[j].type = "ISSUE" /\ job[j].pc = "read"
    /\ job' = [job EXCEPT ![j].pc = IF \E i \in DOMAIN work[j].events : work[j].events[i].quantity > 0
                                    THEN "done" ELSE "settled"]
    /\ UNCHANGED <<work, locations, total, report, damage, damagedBins, credited, broken,
                   raced, cut>>

(* _processIssueHistoryOnReturnSuccess                                       *)

\* findOne, then the total is lessened and the locations are searched for the bin of the
\* event: that throws, and the other events are not read.
ReadEvent(j) ==
    /\ work[j].type = "RETURN" /\ job[j].pc = "read" /\ job[j].event \in Counting(j)
    /\ job' = [job EXCEPT ![j].pc = "settled", ![j].dirty = TRUE,
                          ![j].entity = total[Taken(j)] - Event(j).quantity]
    /\ raced' = (raced \/ \E k \in Jobs \ {j} : job[k].dirty /\ Taken(k) = Taken(j))
    /\ UNCHANGED <<work, locations, total, report, damage, damagedBins, credited, broken,
                   cut>>

\* A return of nothing is skipped, one without a history only logged.
SkipEvent(j) ==
    /\ work[j].type = "RETURN" /\ job[j].pc = "read" /\ job[j].event \notin Counting(j)
    /\ job[j].event < Len(work[j].events)
    /\ job' = [job EXCEPT ![j].event = @ + 1]
    /\ UNCHANGED <<work, locations, total, report, damage, damagedBins, credited, broken,
                   raced, cut>>

\* The last event is skipped: the function ends with a flush.
SkipLastEvent(j) ==
    /\ work[j].type = "RETURN" /\ job[j].pc = "read" /\ job[j].event \notin Counting(j)
    /\ job[j].event = Len(work[j].events)
    /\ EmFlush(j)
    /\ job' = [job EXCEPT ![j].pc = "settled", ![j].dirty = FALSE]
    /\ report' = [report EXCEPT ![j].dirty = {}]
    /\ UNCHANGED <<work, locations, damagedBins, credited, broken, raced, cut>>

-----------------------------------------------------------------------------
(* _processDamageItemsOnReturnSuccess, at the same time.                     *)

Hurt(j) == {p \in work[j].damaged : DamageIn(j, p) > 0}

\* Every loadcell that gets back an item in condition DAMAGE is loaded and changed.
FindDamage(j) ==
    /\ report[j].pc = "find"
    /\ report' = [report EXCEPT ![j] = [pc |-> IF Hurt(j) = {} THEN "flush" ELSE "mark",
                                        found |-> damage, dirty |-> Hurt(j)]]
    /\ raced' = (raced \/ \E k \in Jobs \ {j} : report[k].dirty \cap Hurt(j) # {})
    /\ UNCHANGED <<work, locations, total, job, damage, damagedBins, credited, broken, cut>>

\* nativeUpdate
MarkBins(j) ==
    /\ report[j].pc = "mark"
    /\ damagedBins' = damagedBins \cup Hurt(j)
    /\ report' = [report EXCEPT ![j].pc = "flush"]
    /\ UNCHANGED <<work, locations, total, job, damage, credited, broken, raced, cut>>

FlushDamage(j) ==
    /\ report[j].pc = "flush"
    /\ EmFlush(j)
    /\ job' = [job EXCEPT ![j].dirty = FALSE]
    /\ report' = [report EXCEPT ![j].pc = "done", ![j].dirty = {}]
    /\ UNCHANGED <<work, locations, damagedBins, credited, broken, raced, cut>>

-----------------------------------------------------------------------------
\* Promise.allSettled, and the flush of _advanceToNextStep or _completeTransaction.
Advance(j) ==
    /\ job[j].pc = "settled" /\ report[j].pc = "done"
    /\ EmFlush(j)
    /\ job' = [job EXCEPT ![j].pc = "done", ![j].dirty = FALSE]
    /\ report' = [report EXCEPT ![j].dirty = {}]
    /\ UNCHANGED <<work, locations, damagedBins, credited, broken, raced, cut>>

\* The process dies: the jobs under way end where they are.
WorkerDies ==
    /\ ~cut /\ cut' = TRUE
    /\ job' = [j \in Jobs |-> IF job[j].pc = "idle" THEN job[j]
                              ELSE [job[j] EXCEPT !.pc = "done", !.dirty = FALSE]]
    /\ report' = [j \in Jobs |-> IF report[j].pc = "idle" THEN report[j]
                                 ELSE [report[j] EXCEPT !.pc = "done", !.dirty = {}]]
    /\ UNCHANGED <<work, locations, total, damage, damagedBins, credited, broken, raced>>

HistoryNext ==
    \/ \E j \in Jobs : \/ StepSucceeds(j) \/ RecordIssue(j) \/ ReadEvent(j) \/ SkipEvent(j)
                       \/ SkipLastEvent(j) \/ FindDamage(j) \/ MarkBins(j) \/ FlushDamage(j)
                       \/ Advance(j)
    \/ WorkerDies

HistorySpec == HistoryInit /\ [][HistoryNext]_historyVars

-----------------------------------------------------------------------------
(* Types.                                                                    *)
HistoryTypeOK ==
    /\ work \in Worklists /\ locations \in Loans /\ total \in [Kinds -> Int]
    /\ job \in [Jobs -> Job] /\ report \in [Jobs -> Report]
    /\ damage \in [Places -> Nat] /\ damagedBins \subseteq Places
    /\ credited \in [Kinds -> Nat] /\ broken \in [Places -> Nat]
    /\ {raced, cut} \subseteq BOOLEAN

AtRest == \A j \in Jobs : job[j].pc \in {"idle", "done"} /\ report[j].pc \in {"idle", "done"}

(* A return is taken off the total of its history once, although the         *)
(* function that does it throws before it writes and another flush of the    *)
(* job, that of the damage or that of the next step, has to: once no job is  *)
(* under way a total is what was issued less the first counting event of     *)
(* each return.  Jobs may overlap as long as none reads between the read and *)
(* the write of another, and none may be cut short.                          *)
TotalsAreCredited ==
    AtRest /\ ~raced /\ ~cut => \A item \in Kinds : total[item] = Issued(item) - credited[item]

(* What came back damaged is counted where it came back, and its bins are    *)
(* marked, once its jobs are over, as long as every step brought each item   *)
(* back to one place only, whichever part of a job writes it.                *)
OnePlaceEach(j) == \A m, n \in DOMAIN work[j].events :
                       ItemAt[work[j].events[m].at] = ItemAt[work[j].events[n].at] => m = n
DamageIsCounted ==
    AtRest /\ ~raced /\ ~cut /\ (\A j \in Jobs : job[j].pc = "done" => OnePlaceEach(j)) =>
        /\ damage = broken
        /\ damagedBins = {p \in Places : broken[p] > 0}
=============================================================================
