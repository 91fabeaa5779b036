----------------------------- MODULE CardLogin ------------------------------
(* AuthService of the inventory: a card that was scanned logs its user in,   *)
(* or, in clusters whose tablet asks for a PIN, makes a signature that lives *)
(* ten seconds and that a login by PIN uses up.  The answers of one scan go  *)
(* out together, after an await for every cluster of the user.               *)
EXTENDS Integers, FiniteSets

CONSTANTS Users,       \* cards that belong to a user
          NoUser,
          Clusters,
          ClustersOf,  \* clusters of the sites of a user
          Tablets,
          ClusterOf,   \* where a tablet is
          ScanSlots,   \* slots for scans under way
          PinSlots,    \* slots for logins by PIN under way
          MaxSignatures,  \* BOUND: signatures made
          MaxUpsets       \* BOUND: registrations, failed queries, restarts

ASSUME LoginAssumption ==
    /\ NoUser \notin Users /\ ClustersOf \in [Users -> SUBSET Clusters]
    /\ ClusterOf \in [Tablets -> Clusters]
    /\ {MaxSignatures, MaxUpsets} \subseteq Nat

VARIABLES registered,  \* tablets that are registered
          mfa,         \* those whose isMfaEnabled is set
          signatures,  \* _signatureMap: whose each signature is, NoUser if it is not there
          signed,      \* signatures made so far
          scan,        \* the scans under way
          shown,       \* signatures the rooms of clusters have been sent
          pin,         \* the logins by PIN under way
          granted,     \* history: logins by each signature
          refused,     \* history: and those that it was in vain for
          crossing,    \* history: signatures that two requests had at once
          lenient,     \* history: clusters that need not ask for a PIN, since the scan
          upsets

tabletVars == <<registered, mfa>>
histories == <<granted, refused, crossing, lenient>>
loginVars == <<tabletVars, signatures, signed, scan, shown, pin, histories, upsets>>

Signatures == 1..MaxSignatures
Scan == [pc : {"idle", "asks", "token"}, user : Users \cup {NoUser}, left : SUBSET Clusters,
         results : SUBSET (Clusters \X Signatures)]
NoScan == [pc |-> "idle", user |-> NoUser, left |-> {}, results |-> {}]
Pin == [pc : {"idle", "user", "pin"}, signature : 0..MaxSignatures,
        tablet : SUBSET Tablets, right : BOOLEAN]
NoPin == [pc |-> "idle", signature |-> 0, tablet |-> {}, right |-> FALSE]

LoginInit ==
    /\ registered \in SUBSET Tablets /\ mfa \in SUBSET registered
    /\ signatures = [k \in Signatures |-> NoUser] /\ signed = 0
    /\ scan = [s \in ScanSlots |-> NoScan] /\ shown = {}
    /\ pin = [p \in PinSlots |-> NoPin]
    /\ granted = [k \in Signatures |-> 0] /\ refused = granted /\ crossing = {}
    /\ lenient = [s \in ScanSlots |-> {}] /\ upsets = 0

Upset == upsets < MaxUpsets /\ upsets' = upsets + 1

TabletsOf(c) == {t \in registered : ClusterOf[t] = c}

\* _is2FaEnable finds one of the tablets of a cluster, or none and throws.
AsksForPin(c) == \E t \in TabletsOf(c) : t \in mfa
LetsIn(c) == TabletsOf(c) \subseteq mfa => TabletsOf(c) = {}

-----------------------------------------------------------------------------
(* loginByCard.                                                              *)

\* The user is found; a card of nobody only tells the screens.
CardScanned(s, u) ==
    /\ scan[s].pc = "idle"
    /\ scan' = [scan EXCEPT ![s] = [NoScan EXCEPT !.user = u, !.left = ClustersOf[u],
                                        !.pc = IF ClustersOf[u] = {} THEN "token" ELSE "asks"]]
    /\ lenient' = [lenient EXCEPT ![s] = {c \in ClustersOf[u] : LetsIn(c)}]
    /\ UNCHANGED <<tabletVars, signatures, signed, shown, pin, granted, refused, crossing, upsets>>

\* After the last cluster the signatures go out, each to the room of its cluster; without
\* any, the user gets a token.
AskedOf(s, c, results) ==
    LET left == scan[s].left \ {c}
    IN  IF left = {} /\ results # {}
        THEN scan' = [scan EXCEPT ![s] = NoScan] /\ shown' = shown \cup results
        ELSE /\ scan' = [scan EXCEPT ![s].left = left, ![s].results = results,
                                     ![s].pc = IF left = {} THEN "token" ELSE "asks"]
             /\ UNCHANGED shown

\* _addSignature: the signature is in the map, and its ten seconds run, although the
\* clusters that are left have not been asked.
AskCluster(s, c) ==
    /\ scan[s].pc = "asks" /\ c \in scan[s].left
    /\ \/ /\ AsksForPin(c) /\ signed < MaxSignatures
          /\ signed' = signed + 1 /\ signatures' = [signatures EXCEPT ![signed + 1] = scan[s].user]
          /\ AskedOf(s, c, scan[s].results \cup {<<c, signed + 1>>})
          /\ UNCHANGED <<lenient, upsets>>
       \/ /\ LetsIn(c) /\ AskedOf(s, c, scan[s].results)
          /\ UNCHANGED <<signatures, signed, lenient, upsets>>
       \* A query that fails is skipped like a cluster without a tablet.
       \/ /\ Upset /\ AskedOf(s, c, scan[s].results)
          /\ lenient' = [lenient EXCEPT ![s] = @ \cup {c}]
          /\ UNCHANGED <<signatures, signed>>
    /\ UNCHANGED <<tabletVars, pin, granted, refused, crossing>>

\* The token goes to every screen.
ScanToken(s) ==
    /\ scan[s].pc = "token"
    /\ scan' = [scan EXCEPT ![s] = NoScan]
    /\ UNCHANGED <<tabletVars, signatures, signed, shown, pin, histories, upsets>>

-----------------------------------------------------------------------------
(* loginByPin.                                                               *)

\* The signature is read, and the user looked up.  Nobody asks whether the tablet is the
\* one that the signature was sent to.
PinEntered(p, t, k) ==
    /\ pin[p].pc = "idle" /\ signatures[k] # NoUser
    /\ \E c \in Clusters : <<c, k>> \in shown
    /\ \E right \in BOOLEAN :
          pin' = [pin EXCEPT ![p] = [pc |-> "user", signature |-> k, tablet |-> {t},
                                     right |-> right]]
    /\ crossing' = IF \E q \in PinSlots : pin[q].signature = k THEN crossing \cup {k} ELSE crossing
    /\ UNCHANGED <<tabletVars, signatures, signed, scan, shown, granted, refused, lenient, upsets>>

\* Variant: the signature stays until a PIN was right.
UserFoundOnly(p) ==
    /\ pin[p].pc = "user"
    /\ pin' = [pin EXCEPT ![p].pc = "pin"]
    /\ UNCHANGED <<tabletVars, signatures, signed, scan, shown, histories, upsets>>

\* The signature is used up, whatever the PIN will be.  (Nothing deletes users.)
UserFound(p) ==
    /\ pin[p].pc = "user"
    /\ signatures' = [signatures EXCEPT ![pin[p].signature] = NoUser]
    /\ pin' = [pin EXCEPT ![p].pc = "pin"]
    /\ UNCHANGED <<tabletVars, signed, scan, shown, histories, upsets>>

\* _isValidPinCode asks whether the tablet wants a PIN, and throws for one that is not
\* registered.
PinChecked(p) ==
    LET k == pin[p].signature
    IN  /\ pin[p].pc = "pin"
        /\ IF pin[p].tablet \subseteq registered /\ (pin[p].right \/ pin[p].tablet \cap mfa = {})
           THEN granted' = [granted EXCEPT ![k] = @ + 1] /\ UNCHANGED refused
           ELSE refused' = [refused EXCEPT ![k] = @ + 1] /\ UNCHANGED granted
        /\ pin' = [pin EXCEPT ![p] = NoPin]
        /\ UNCHANGED <<tabletVars, signatures, signed, scan, shown, crossing, lenient, upsets>>

\* A query fails: before the signature was used up it stays.
PinFails(p) ==
    /\ pin[p].pc # "idle" /\ Upset
    /\ pin' = [pin EXCEPT ![p] = NoPin]
    /\ refused' = [k \in Signatures |->
          refused[k] + IF pin[p].pc = "pin" /\ pin[p].signature = k THEN 1 ELSE 0]
    /\ UNCHANGED <<tabletVars, signatures, signed, scan, shown, granted, crossing, lenient>>

-----------------------------------------------------------------------------
\* The timer of ten seconds, whether or not the signature has been sent.
SignatureExpires(k) ==
    /\ signatures[k] # NoUser
    /\ signatures' = [signatures EXCEPT ![k] = NoUser]
    /\ UNCHANGED <<tabletVars, signed, scan, shown, pin, histories, upsets>>

\* TabletService.register, of a new tablet or one that is known.
Register(t) ==
    /\ Upset
    /\ registered' = registered \cup {t}
    /\ \E wants \in SUBSET {t} : mfa' = (mfa \ {t}) \cup wants
    /\ lenient' = [s \in ScanSlots |-> lenient[s] \cup {c \in scan[s].left : LetsIn(c)'}]
    /\ UNCHANGED <<signatures, signed, scan, shown, pin, granted, refused, crossing>>

\* The inventory starts again.
LoginRestarts ==
    /\ Upset
    /\ signatures' = [k \in Signatures |-> NoUser]
    /\ scan' = [s \in ScanSlots |-> NoScan] /\ pin' = [p \in PinSlots |-> NoPin]
    /\ UNCHANGED <<tabletVars, signed, shown, histories>>

LoginNext ==
    \/ \E s \in ScanSlots : \/ \E u \in Users : CardScanned(s, u)
                            \/ \E c \in Clusters : AskCluster(s, c)
                            \/ ScanToken(s)
    \/ \E p \in PinSlots : \/ \E t \in Tablets, k \in Signatures : PinEntered(p, t, k)
                           \/ UserFound(p) \/ PinChecked(p) \/ PinFails(p)
    \/ \E k \in Signatures : SignatureExpires(k)
    \/ \E t \in Tablets : Register(t)
    \/ LoginRestarts

LoginSpec == LoginInit /\ [][LoginNext]_loginVars

-----------------------------------------------------------------------------
(* Types of the map and of the requests.                                     *)
LoginTypeOK ==
    /\ registered \subseteq Tablets /\ mfa \subseteq registered
    /\ signatures \in [Signatures -> Users \cup {NoUser}]
    /\ signed \in 0..MaxSignatures /\ scan \in [ScanSlots -> Scan]
    /\ shown \subseteq Clusters \X Signatures /\ pin \in [PinSlots -> Pin]
    /\ {granted, refused} \subseteq [Signatures -> Nat] /\ crossing \subseteq Signatures
    /\ lenient \in [ScanSlots -> SUBSET Clusters] /\ upsets \in 0..MaxUpsets

\* A signature decides one login, with a PIN that is right or wrong, unless a second
\* request came while the first looked for the user.
DecidesOnce ==
    \A k \in Signatures \ crossing :
        granted[k] + refused[k]
            + Cardinality({p \in PinSlots : pin[p].signature = k}) <= 1

\* A user is let in without a PIN only when none of the user's clusters asked for one:
\* each had a tablet that did not, or none, since the scan, or could not be asked.
AskedEverywhere ==
    \A s \in ScanSlots : scan[s].pc = "token" => ClustersOf[scan[s].user] \subseteq lenient[s]

\* A signature that is alive is on the way to a tablet, or has arrived.
AliveIsKnown ==
    \A k \in Signatures : signatures[k] # NoUser =>
        \E c \in Clusters : \/ <<c, k>> \in shown
                            \/ \E s \in ScanSlots : <<c, k>> \in scan[s].results

(* A scan and the login by PIN that it starts: one login for a signature,    *)
(* no login without one where a cluster asks for a PIN, and no signature     *)
(* that nobody hears of, with logins that overlap, tablets that register,    *)
(* failures and restarts.                                                    *)
LoginsDecided == DecidesOnce /\ AskedEverywhere /\ AliveIsKnown
=============================================================================
