--------------------------- MODULE ScannerProcess ---------------------------
(* FingerprintProcessService (libs/fingerprint-scanner): the external        *)
(* scanner program, its output as an observable, and the restarts.           *)
(* spawnObservableWithProcess hands out the child before anyone subscribed,  *)
(* that is undefined: every start spawns a child, then fails over its pid,   *)
(* so that the process is never RUNNING and no stop kills a child.           *)
EXTENDS Naturals, FiniteSets

CONSTANTS MaxChildren,  \* BOUND: programs spawned
          MaxScannerCalls      \* BOUND: startProcess and verify from outside

ASSUME ScannerAssumption == {MaxChildren, MaxScannerCalls} \subseteq Nat \ {0}

VARIABLES processState,  \* state of _processStatus$
          children,      \* children by number: "none", "runs", "killed" or "gone"
          stream,        \* the child that _processObservable$ reads, 0 for none
          intentional,   \* _isStoppingIntentionally
          failing,       \* starts that await the hooks of 'process_start'
          errors,        \* _handleProcessError that await their hooks
          completions,   \* _handleProcessComplete that await theirs
          restartTimers, \* restarts that are due after a delay
          sleeping,      \* restartProcess between its stop and its start
          down,          \* onModuleDestroy has run
          scannerCalls,
          unnoticed      \* history: the last child ended as if it had been stopped

scannerVars == <<processState, children, stream, intentional, failing, errors, completions,
                 restartTimers, sleeping, down, scannerCalls, unnoticed>>

ChildIds == 1..MaxChildren
ProcessState == {"IDLE", "STARTING", "STOPPED", "ERROR"}
RunningChildren == {c \in ChildIds : children[c] = "runs"}
SpawnedChildren == {c \in ChildIds : children[c] # "none"}

ScannerInit ==
    /\ processState = "IDLE" /\ children = [c \in ChildIds |-> "none"] /\ stream = 0
    /\ intentional = FALSE /\ unnoticed = FALSE /\ down = FALSE
    /\ failing = 0 /\ errors = 0 /\ completions = 0 /\ restartTimers = 0 /\ sleeping = 0
    /\ scannerCalls = 0

\* _handleProcessComplete up to its first await: a stop that was meant takes the flag
\* back, any other end goes on after the hooks.
Completed ==
    /\ intentional' = FALSE
    /\ completions' = IF intentional THEN completions ELSE completions + 1

\* Variant: a start leaves the child of the one before alone.
EndsNobody == {}

\* _destroy$.next(): the child whose output is still read gets SIGTERM.
EndedByDestroy == RunningChildren \cap {stream}

\* startProcess: the old stream ends, and is handled as complete; a child is spawned;
\* the failure over its pid is told to the hooks.
StartProcess ==
    /\ processState # "STARTING" /\ Cardinality(SpawnedChildren) < MaxChildren
    /\ stream' = Cardinality(SpawnedChildren) + 1
    /\ children' = [c \in ChildIds |-> IF c = stream' THEN "runs"
                        ELSE IF c \in EndedByDestroy THEN "killed" ELSE children[c]]
    /\ failing' = failing + 1
    /\ unnoticed' = FALSE
    /\ IF EndedByDestroy # {} THEN processState' = "STOPPED" /\ Completed
       ELSE processState' = "STARTING" /\ UNCHANGED <<intentional, completions>>
    /\ UNCHANGED <<errors, restartTimers, down>>

\* The start of one that starts already.
StartRefused ==
    /\ processState = "STARTING"
    /\ UNCHANGED <<processState, children, stream, intentional, failing, errors, completions,
                   restartTimers, down, unnoticed>>

\* The hooks of 'process_start' are done.
StartFails ==
    /\ failing > 0 /\ failing' = failing - 1 /\ processState' = "ERROR"
    /\ UNCHANGED <<children, stream, intentional, errors, completions, restartTimers, sleeping,
                   down, scannerCalls, unnoticed>>

\* stopProcess: there is no child it knows of.
StopProcess ==
    IF processState = "IDLE" THEN UNCHANGED <<processState, intentional>>
    ELSE processState' = "STOPPED" /\ intentional' = TRUE

\* restartProcess: the stop, and a second later the start.
RestartBegins ==
    /\ StopProcess /\ sleeping' = sleeping + 1
    /\ UNCHANGED <<children, stream, failing, errors, completions, down, unnoticed>>

RestartGoesOn ==
    /\ sleeping > 0 /\ sleeping' = sleeping - 1
    /\ (StartProcess \/ StartRefused)
    /\ UNCHANGED scannerCalls

RestartTimer ==
    /\ restartTimers > 0 /\ restartTimers' = restartTimers - 1
    /\ RestartBegins
    /\ UNCHANGED scannerCalls

ScannerCall == ~down /\ scannerCalls < MaxScannerCalls /\ scannerCalls' = scannerCalls + 1

StartCalled == ScannerCall /\ (StartProcess \/ StartRefused) /\ UNCHANGED sleeping

\* verify: a restart that nobody awaits, and a command that is refused, for the process
\* is not RUNNING.
Verify == ScannerCall /\ RestartBegins /\ UNCHANGED restartTimers

-----------------------------------------------------------------------------
(* The program ends.                                                         *)

\* With code 0 the observable completes.
ChildEnds(c) ==
    /\ c \in RunningChildren \cap {stream}
    /\ children' = [children EXCEPT ![c] = "gone"]
    /\ processState' = "STOPPED" /\ Completed
    /\ unnoticed' = intentional
    /\ UNCHANGED <<stream, failing, errors, restartTimers, sleeping, down, scannerCalls>>

\* With another code, or when it could not be spawned: _handleProcessError up to its
\* await, then the completion of the stream that replaces the error.
ChildFails(c) ==
    /\ c \in RunningChildren \cap {stream}
    /\ children' = [children EXCEPT ![c] = "gone"]
    /\ errors' = errors + 1
    /\ processState' = "STOPPED" /\ Completed
    /\ UNCHANGED <<stream, failing, restartTimers, sleeping, down, scannerCalls, unnoticed>>

\* The hooks of 'process_error' are done: a restart, unless a stop came meanwhile.
ErrorHandled ==
    /\ errors > 0 /\ errors' = errors - 1
    /\ restartTimers' = IF intentional THEN restartTimers ELSE restartTimers + 1
    /\ UNCHANGED <<processState, children, stream, intentional, failing, completions, sleeping,
                   down, scannerCalls, unnoticed>>

\* The hooks of 'process_complete' are done: a restart, and the flag is taken back.
CompletionHandled ==
    /\ completions > 0 /\ completions' = completions - 1
    /\ restartTimers' = restartTimers + 1 /\ intentional' = FALSE
    /\ UNCHANGED <<processState, children, stream, failing, errors, sleeping, down,
                   scannerCalls, unnoticed>>

\* onModuleDestroy.  A child that still ran ended before the stop, so that its end counts
\* as unexpected; timers go on.
ScannerDestroyed ==
    /\ ~down /\ down' = TRUE /\ processState # "IDLE"
    /\ children' = [c \in ChildIds |-> IF c \in EndedByDestroy THEN "killed" ELSE children[c]]
    /\ completions' = IF EndedByDestroy = {} \/ intentional THEN completions
                      ELSE completions + 1
    /\ processState' = "STOPPED" /\ intentional' = TRUE
    /\ UNCHANGED <<stream, failing, errors, restartTimers, sleeping, scannerCalls, unnoticed>>

-----------------------------------------------------------------------------
ScannerNext ==
    \/ StartCalled \/ Verify \/ StartFails \/ RestartGoesOn \/ RestartTimer
    \/ ErrorHandled \/ CompletionHandled \/ ScannerDestroyed
    \/ \E c \in ChildIds : ChildEnds(c) \/ ChildFails(c)

ScannerSpec == ScannerInit /\ [][ScannerNext]_scannerVars

-----------------------------------------------------------------------------
(* Types of the books.                                                       *)
ScannerTypeOK ==
    /\ processState \in ProcessState /\ stream \in 0..MaxChildren
    /\ children \in [ChildIds -> {"none", "runs", "killed", "gone"}]
    /\ {intentional, down, unnoticed} \subseteq BOOLEAN
    /\ {failing, errors, completions, restartTimers, sleeping, scannerCalls} \subseteq Nat

\* However many restarts overlap, one program at most holds the scanner and has not been
\* told to end.
OneScanner == Cardinality(RunningChildren) <= 1

\* A program that ended is replaced: a restart is due or under way, or the end came
\* under a flag that an earlier restart had left set.
DeadIsRestarted ==
    SpawnedChildren # {} /\ RunningChildren = {} /\ ~down /\ ~unnoticed =>
        errors + completions + restartTimers + sleeping > 0

(* The fingerprint program has one instance, and one that ends comes back,   *)
(* whatever order its ends, the awaits of their hooks and the restarts they  *)
(* cause come in.                                                            *)
ScannerKept == OneScanner /\ DeadIsRestarted
=============================================================================
