---------------------------- MODULE NameService ----------------------------
(***************************************************************************)
(* What internal DNS gets from copilot, without maps, index or locks.  The *)
(* only state is the list of calls that have been made since the last bulk *)
(* sync.  A question goes to the route that the name was given to last,    *)
(* and is answered, at any later moment, with the VIP that route has then, *)
(* or with a miss if it has been withdrawn.  RoutesRepo implements this.   *)
(***************************************************************************)
EXTENDS CallLog

CONSTANTS
    Routes,     \* the routes that may be told
    Lists,      \* the lists of routes that a bulk sync may bring
    Names,      \* the names that may be asked for
    NoString,   \* the GUID of an unknown name, the VIP of a miss
    Resolvers   \* questions that may be open at the same time

VARIABLES
    log,        \* the calls since the last bulk sync
    ask         \* per resolver: the question, whom it goes to, and the answer

vars == <<log, ask>>

State(open, name, guid, ok, vip) ==
    [open |-> open, name |-> name, guid |-> guid, ok |-> ok, vip |-> vip]

Init ==
    /\ log = <<>>
    /\ ask = [r \in Resolvers |-> State(FALSE, NoString, NoString, FALSE, NoString)]

Told(route) == log' = Append(log, Tells(route)) /\ UNCHANGED ask
Withdrawn(guid) == log' = Append(log, Withdraws(guid)) /\ UNCHANGED ask
Replaced(routes) == log' = Retells(routes) /\ UNCHANGED ask

\* An unknown name goes to the route without a GUID.
Addressees(name) ==
    IF LastNamed(log, name) = {} THEN {NoString} ELSE LastNamed(log, name)

Question(r, name) ==
    /\ ~ask[r].open
    /\ \E guid \in Addressees(name) :
          ask' = [ask EXCEPT ![r] = State(TRUE, name, guid, FALSE, NoString)]
    /\ UNCHANGED log

Answer(r, ok, vip) ==
    /\ ask[r].open
    /\ ask' = [ask EXCEPT ![r] = State(FALSE, ask[r].name, ask[r].guid, ok, vip)]
    /\ UNCHANGED log

Hit(r) == \E route \in Current(log, ask[r].guid) : Answer(r, TRUE, route.VIP)

Miss(r) == Current(log, ask[r].guid) = {} /\ Answer(r, FALSE, NoString)

Next ==
    \/ \E route \in Routes : Told(route) \/ Withdrawn(route.GUID)
    \/ \E routes \in Lists : Replaced(routes)
    \/ \E r \in Resolvers : Hit(r) \/ Miss(r) \/ \E name \in Names : Question(r, name)

Spec == Init /\ [][Next]_vars
=============================================================================
