----------------------------- MODULE CardReader -----------------------------
(* The card reader: HidService (libs/hid) finds and opens it, the keyboard   *)
(* streams turn its reports into lines, and CardScanService of the hardware  *)
(* bridge listens to them once it heard that the reader is connected.        *)
EXTENDS Naturals, Sequences, SequencesExt

CONSTANTS Digits,     \* keys of the reader but Enter
          Enter,      \* the key that ends a card
          MaxTimers,  \* BOUND: reconnect timers under way
          MaxKeys,    \* BOUND: keys pressed
          Hitches     \* BOUND: failed openings, failed publishes, unpluggings

ASSUME ReaderAssumption ==
    /\ Enter \notin Digits
    /\ {MaxTimers, MaxKeys, Hitches} \subseteq Nat /\ MaxTimers >= 2

VARIABLES attached,   \* the reader is plugged in
          opened,     \* _hidDevice: "none", "live" or "dead" (it had an error)
          isConnected,
          scanning,   \* _scanSubscription
          reconnects, \* reconnect timers under way
          watching,   \* CardScanService listens to reconnectStatus$
          notices,    \* 'connected' events whose publishing it awaits
          listeners,  \* its subscriptions to data$
          held,       \* keys of the last report, in order
          card,       \* history: digits pressed since the last Enter
          text,       \* the line that split() has not seen the end of
          scanned,    \* values the last report handed to CardScanService
          presses, hitches,
          typed,      \* history: the card it ended, typed key by key while somebody
                      \* listened
          smeared,    \* history: two reports of the card shared a key, or it
                      \* began before it listened
          excused     \* history: connected unheard, or a publish failed

readerVars == <<attached, opened, isConnected, scanning, reconnects, watching, notices, listeners,
                held, card, text, scanned, presses, hitches, typed, smeared, excused>>

linkVars == <<attached, opened, isConnected, scanning, reconnects, watching, notices, listeners,
              excused>>
keyVars == <<held, card, text, scanned, presses, typed, smeared>>

Keys == Digits \cup {Enter}

ReaderInit ==
    /\ attached \in BOOLEAN /\ opened = "none" /\ isConnected = FALSE /\ scanning = FALSE
    /\ reconnects = 0 /\ watching = FALSE /\ notices = 0 /\ listeners = 0
    /\ held = <<>> /\ card = <<>> /\ text = <<>> /\ scanned = <<>> /\ presses = 0 /\ hitches = 0
    /\ typed = <<>> /\ smeared = TRUE /\ excused = FALSE

Hitch == hitches < Hitches /\ hitches' = hitches + 1

-----------------------------------------------------------------------------
(* Finding and opening the reader.                                           *)

\* _findMatchingDevice, and _connectToDevice of a reader that is not open.
MayConnect == attached /\ ~isConnected

\* setConfig scans, connect() scans again, and only then the service subscribes: what
\* happened before it does not hear.
StartScanning ==
    /\ ~watching /\ watching' = TRUE /\ scanning' = TRUE
    /\ \E failures \in 0..2 :
          /\ hitches + failures <= Hitches /\ (~attached => failures = 0)
          /\ hitches' = hitches + failures /\ reconnects' = failures
          /\ isConnected' = (attached /\ failures < 2)
    /\ opened' = IF isConnected' THEN "live" ELSE "none"
    /\ excused' = isConnected'
    /\ UNCHANGED <<attached, notices, listeners, keyVars>>

\* The reader opens, and the service is told.
Connects ==
    /\ MayConnect
    /\ opened' = "live" /\ isConnected' = TRUE
    /\ notices' = notices + 1 /\ listeners' = 0
    /\ UNCHANGED hitches

\* The scan every 3 s; one that fails to open the reader starts timers of its own
\* beside those that run.
PeriodicScan ==
    /\ scanning
    /\ \/ Connects /\ UNCHANGED reconnects
       \/ /\ MayConnect /\ Hitch /\ reconnects < MaxTimers /\ reconnects' = reconnects + 1
          /\ UNCHANGED <<opened, isConnected, notices, listeners>>
    /\ UNCHANGED <<attached, scanning, watching, excused, keyVars>>

\* A reconnect timer fires.
ReconnectTimer ==
    /\ reconnects > 0
    /\ \/ Connects /\ reconnects' = reconnects - 1
       \/ /\ MayConnect /\ Hitch
          /\ UNCHANGED <<opened, isConnected, notices, listeners, reconnects>>
       \/ /\ ~MayConnect /\ reconnects' = reconnects - 1
          /\ UNCHANGED <<opened, isConnected, notices, listeners, hitches>>
    /\ UNCHANGED <<attached, scanning, watching, excused, keyVars>>

\* The event that the reader is connected is published; then the service listens.
Listen ==
    /\ notices > 0 /\ notices' = notices - 1
    /\ \/ /\ listeners' = IF opened = "none" THEN listeners ELSE listeners + 1
          /\ UNCHANGED <<excused, hitches>>
       \/ Hitch /\ excused' = TRUE /\ UNCHANGED listeners
    /\ UNCHANGED <<attached, opened, isConnected, scanning, reconnects, watching, keyVars>>

PlugIn == ~attached /\ attached' = TRUE
          /\ UNCHANGED <<opened, isConnected, scanning, reconnects, watching, notices, listeners,
                         excused, hitches, keyVars>>

\* The device has an error: it arrives as a value of error$, which nobody treats as one,
\* the streams pass nothing on any more, and isConnected stays.
Unplug ==
    /\ Hitch /\ attached /\ attached' = FALSE
    /\ opened' = IF opened = "live" THEN "dead" ELSE opened
    /\ UNCHANGED <<isConnected, scanning, reconnects, watching, notices, listeners, excused, keyVars>>

\* onModuleDestroy: close, and the timers end with _destroy$.
CloseReader ==
    /\ watching /\ Hitch
    /\ opened' = "none" /\ isConnected' = FALSE /\ scanning' = FALSE /\ reconnects' = 0
    /\ excused' = TRUE
    /\ UNCHANGED <<attached, watching, notices, listeners, keyVars>>

-----------------------------------------------------------------------------
(* Cards.                                                                    *)

\* Variant: the first key of a report is taken for a reserved byte.
CharCodesFrom(keys) == IF keys = <<>> THEN <<>> ELSE Tail(keys)

\* parseCharCodes: a report gives a character for every key that is down.
CharCodes(keys) == keys

\* What split() makes of text: the last line stays.
Splits(s) == \E i \in DOMAIN s : s[i] = Enter
Line(s) == SubSeq(s, 1, (CHOOSE i \in DOMAIN s : s[i] = Enter /\ \A j \in 1..(i - 1) : s[j] # Enter) - 1)
Rest(s) == SubSeq(s, Len(Line(s)) + 2, Len(s))

KeyReport(keys) ==
    /\ held' = keys
    /\ LET s == text \o CharCodes(keys)
       IN  IF opened = "live"
           THEN IF Splits(s)
                THEN text' = Rest(s) /\ scanned' = [i \in 1..listeners |-> Line(s)]
                ELSE text' = s /\ scanned' = <<>>
           ELSE UNCHANGED text /\ scanned' = <<>>

Heard == opened = "live" /\ listeners > 0

\* A key goes down, beside those that are not up yet.
Press(k) ==
    /\ presses < MaxKeys /\ presses' = presses + 1
    /\ attached /\ k \notin Range(held) /\ Len(held) < 2
    /\ KeyReport(Append(held, k))
    /\ LET spoilt == smeared \/ held # <<>> \/ ~Heard
       IN  /\ smeared' = IF k = Enter THEN ~(Heard /\ held = <<>>) ELSE spoilt
           /\ typed' = IF k = Enter /\ ~spoilt THEN <<card>> ELSE <<>>
    /\ card' = IF k = Enter THEN <<>> ELSE Append(card, k)
    /\ UNCHANGED <<linkVars, hitches>>

Release(k) ==
    /\ attached /\ \E i \in DOMAIN held : held[i] = k /\ KeyReport(RemoveAt(held, i))
    /\ smeared' = (smeared \/ Len(held) > 1)
    /\ typed' = <<>>
    /\ UNCHANGED <<linkVars, hitches, presses, card>>

-----------------------------------------------------------------------------
ReaderNext ==
    \/ StartScanning \/ PeriodicScan \/ ReconnectTimer \/ Listen
    \/ PlugIn \/ Unplug \/ CloseReader
    \/ \E k \in Keys : Press(k) \/ Release(k)

ReaderSpec == ReaderInit /\ [][ReaderNext]_readerVars

-----------------------------------------------------------------------------
(* Types; a value that was scanned is a line without its Enter.              *)
ReaderTypeOK ==
    /\ {attached, isConnected, scanning, watching, smeared, excused} \subseteq BOOLEAN
    /\ opened \in {"none", "live", "dead"} /\ reconnects \in 0..MaxTimers
    /\ {notices, listeners, presses, hitches} \subseteq Nat
    /\ {held, text} \subseteq Seq(Keys) /\ card \in Seq(Digits)
    /\ {scanned, typed} \subseteq Seq(Seq(Digits))

\* A reader is looked for until it is found, however its openings fail, and then heard
\* by one listener.
ReaderFound ==
    ~excused /\ watching => IF isConnected THEN listeners + notices = 1 ELSE scanning

\* A card typed key by key while somebody listened is handed over as it was typed.
CardsRead == typed # <<>> => scanned = typed

(* A card reader that comes after the start is found and heard once, and it  *)
(* hands over every card as it was typed: scans, timers and the publishing   *)
(* of the news in any order.  Not so for a reader that is there at the start *)
(* (nobody hears of it), after an error (it stays connected in the books),   *)
(* and for keys that overlap (each report repeats the keys that are down).   *)
ScansHeard == ReaderFound /\ CardsRead
=============================================================================
