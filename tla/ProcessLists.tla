---------------------------- MODULE ProcessLists ----------------------------
(***************************************************************************)
(* Services that keep a list in the memory of the process, beside rows that*)
(* nobody waits for: TrackingEventService and LocationService (tracking),  *)
(* NotificationService, DocumentStorageService and QueueService.           *)
(*                                                                         *)
(* The insert of a tracking event has a handler that drops its error.  The *)
(* inserts of notifications and documents have none: as in EscrowLedger, a *)
(* client that starts queries when they are awaited never sends them, and  *)
(* one that starts them at once lets an error end the process.             *)
(***************************************************************************)
EXTENDS Naturals

CONSTANTS
    Drivers,    \* drivers that check in
    MaxItems    \* bound: items ever listed

ASSUME MaxItemsAssumption == MaxItems \in Nat

VARIABLES
    sendsUnawaited, \* whether the client sends a query nobody waits for; it never changes
    accepted,       \* history: number of items listed in every run of the process
    listed,         \* the items in the lists
    location,       \* the Map of LocationService: the number of the last check-in
    sent,           \* inserts on their way
    stored          \* rows of tracking_events, notifications and documents

listVars == <<sendsUnawaited, accepted, listed, location, sent, stored>>

Lists == {"tracking", "notifications", "documents", "jobs"}
Item == [list: Lists, number: 1 .. MaxItems]

ListsTypeOK ==
    /\ sendsUnawaited \in BOOLEAN
    /\ accepted \in 0 .. MaxItems
    /\ listed \subseteq Item
    /\ location \in [Drivers -> 0 .. MaxItems]
    /\ sent \subseteq Item
    /\ stored \subseteq Item

ListsInit ==
    /\ sendsUnawaited \in BOOLEAN
    /\ accepted = 0
    /\ listed = {}
    /\ location = [d \in Drivers |-> 0]
    /\ sent = {}
    /\ stored = {}

-----------------------------------------------------------------------------
(* The operations.                                                         *)

\* The mock queue has no table.
Sends(list) == list = "tracking" \/ (list \in {"notifications", "documents"} /\ sendsUnawaited)

NextItem(list) == [list |-> list, number |-> accepted + 1]

Accept ==
    /\ accepted < MaxItems
    /\ accepted' = accepted + 1
    /\ UNCHANGED <<sendsUnawaited, stored>>

\* append, enqueue, createReference and enqueue of the four services; a document
\* whose key is a path of the file system is refused before.
List(list) ==
    /\ Accept
    /\ listed' = listed \cup {NextItem(list)}
    /\ sent' = IF Sends(list) THEN sent \cup {NextItem(list)} ELSE sent

AddItem(list) == List(list) /\ UNCHANGED location

\* checkIn: the Map, and an event for the timeline of the shipment if one is named.
CheckIn(d, namesShipment) ==
    /\ location' = [location EXCEPT ![d] = accepted + 1]
    /\ IF namesShipment THEN List("tracking") ELSE Accept /\ UNCHANGED <<listed, sent>>

-----------------------------------------------------------------------------
(* The database and the process.                                           *)

Settle(item) ==
    /\ item \in sent
    /\ sent' = sent \ {item}

InsertItem(item) ==
    /\ Settle(item)
    /\ stored' = stored \cup {item}
    /\ UNCHANGED <<sendsUnawaited, accepted, listed, location>>

\* Nobody is there to be hurt by an error: it has a handler, or its process is gone.
Handled(item) == item.list = "tracking" \/ item \notin listed

RejectHandled(item) ==
    /\ Settle(item)
    /\ Handled(item)
    /\ UNCHANGED <<sendsUnawaited, accepted, listed, location, stored>>

\* The lists are not read back from the database.
ForgetLists ==
    /\ listed' = {}
    /\ location' = [d \in Drivers |-> 0]
    /\ UNCHANGED <<sendsUnawaited, accepted, stored>>

=============================================================================
