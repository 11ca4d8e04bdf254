---------------------------- MODULE LiveDevices ----------------------------
(***************************************************************************)
(* The live device registry (internal/infrastructure/mqtt/service.go) and  *)
(* GET /v1/mqtt/devices, over a catalogue that anybody may be changing.    *)
(*                                                                         *)
(* A message is handled in two steps, the catalogue lookup and, under the  *)
(* lock, the store; paho hands the messages over one at a time.  A listing *)
(* takes three: the environments of the user, the rows in them, and, under *)
(* the lock, the registry.  Everything else may happen in between.         *)
(*                                                                         *)
(* Topics are left out (module MqttTopic has them): with the default       *)
(* pattern {prefix}/+/heartbeat a message is known by the device_id in its *)
(* topic.  Time is left out too: an entry is fresh until its TTL is over.  *)
(***************************************************************************)
EXTENDS Catalog

CONSTANTS
    Viewer,    \* listings that can be in progress at the same time
    ApiKey,    \* the principal of a request with an X-API-Key
    Presence,  \* what the payloads of this instance say, within AllPresence
    Faults     \* what may go wrong: "lookup", "restart"

AllPresence == {"ttl", "up", "down"}

ASSUME LiveConstants ==
    /\ ApiKey \notin User \cup {None}
    /\ None \notin Viewer /\ \A rows \in SUBSET Row : rows # None
    /\ Presence \subseteq AllPresence
    /\ Faults \subseteq {"lookup", "restart"}

VARIABLES
    registry,   \* device_id -> entry, for the ids heard of since the start
    msg,        \* the message being handled, or None
    list,       \* the local variables of each listing
    seen        \* observation: what a listing may, and what it must, show

liveVars == <<registry, msg, list>>
vars == <<catVars, liveVars, seen>>

-----------------------------------------------------------------------------
Entry == [row : Row \cup {None}, presence : AllPresence, fresh : BOOLEAN]

\* entryConnected: an explicit signal stands for ever, a heartbeat for a TTL.
Connected(entry) ==
    \/ entry.presence = "up"
    \/ entry.presence = "ttl" /\ entry.fresh

Message == [label : Label, presence : AllPresence, fresh : BOOLEAN,
            row : Row \cup {None}, at : {"lookup", "store"}]

Listing == [at : {"idle", "envs", "rows", "registry", "done"},
            user : User \cup {ApiKey, None}, offline : BOOLEAN,
            envIDs : SUBSET Env, allowed : (SUBSET Row) \cup {None},
            shown : SUBSET (Label \X (Row \cup {None}))]

NotListing == [at |-> "idle", user |-> None, offline |-> FALSE, envIDs |-> {},
               allowed |-> None, shown |-> {}]

-----------------------------------------------------------------------------
(* Ingest: messageHandler. *)

\* The broker delivers a message: new, retained or a duplicate.
Receive(l, p) ==
    /\ msg = None
    /\ msg' = [label |-> l, presence |-> p, fresh |-> TRUE, row |-> None, at |-> "lookup"]
    /\ UNCHANGED <<catVars, registry, list>>

\* Faulty variant: of several rows with the device_id the first is taken.
LookupFirst ==
    /\ msg # None /\ msg.at = "lookup"
    /\ \/ /\ RowsLabelled(msg.label) = {}
          /\ msg' = [msg EXCEPT !.at = "store"]
       \/ \E r \in RowsLabelled(msg.label) :
             msg' = [msg EXCEPT !.at = "store", !.row = r]
    /\ UNCHANGED <<catVars, registry, list>>

\* The row is attached if exactly one has the device_id, in any environment.
Lookup ==
    /\ msg # None /\ msg.at = "lookup"
    /\ \/ \E r \in RowsLabelled(msg.label) :
             /\ RowsLabelled(msg.label) = {r}
             /\ msg' = [msg EXCEPT !.at = "store", !.row = r]
       \/ /\ \/ \A r \in Row : RowsLabelled(msg.label) # {r}
             \/ "lookup" \in Faults
          /\ msg' = [msg EXCEPT !.at = "store"]
    /\ UNCHANGED <<catVars, registry, list>>

\* Faulty variant: an entry that had a row keeps it.
StoreKeepingRow ==
    /\ msg # None /\ msg.at = "store"
    /\ LET old == IF msg.label \in DOMAIN registry THEN registry[msg.label].row ELSE None
       IN  registry' = Put(registry, msg.label,
               [row |-> IF old # None THEN old ELSE msg.row,
                presence |-> msg.presence, fresh |-> msg.fresh])
    /\ msg' = None
    /\ UNCHANGED <<catVars, list>>

\* Faulty variant: a known device is registered under its row id.
StoreUnderRow ==
    /\ msg # None /\ msg.at = "store"
    /\ registry' = Put(registry, IF msg.row # None THEN msg.row ELSE msg.label,
           [row |-> msg.row, presence |-> msg.presence, fresh |-> msg.fresh])
    /\ msg' = None
    /\ UNCHANGED <<catVars, list>>

\* A whole new entry replaces the old one.
Store ==
    /\ msg # None /\ msg.at = "store"
    /\ registry' = Put(registry, msg.label,
           [row |-> msg.row, presence |-> msg.presence, fresh |-> msg.fresh])
    /\ msg' = None
    /\ UNCHANGED <<catVars, list>>

\* The TTL runs out, counted from when the message arrived.
Age ==
    /\ \/ \E l \in DOMAIN registry :
             /\ registry[l].fresh /\ registry[l].presence = "ttl"
             /\ registry' = [registry EXCEPT ![l].fresh = FALSE]
             /\ UNCHANGED msg
       \/ /\ msg # None /\ msg.fresh /\ msg.presence = "ttl"
          /\ msg' = [msg EXCEPT !.fresh = FALSE]
          /\ UNCHANGED registry
    /\ UNCHANGED <<catVars, list>>

\* The process starts again with nothing; requests in progress are lost.
Restart ==
    /\ "restart" \in Faults
    /\ registry' = [l \in {} |-> None]
    /\ msg' = None
    /\ list' = [v \in Viewer |-> NotListing]
    /\ UNCHANGED catVars

-----------------------------------------------------------------------------
(* Listing: getMqttDevices, ListForUser, ListRowIDsForEnvironments and      *)
(* ListLiveDevices.                                                         *)

ListBegin(v) ==
    /\ list[v].at = "idle"
    /\ \E u \in users \cup {ApiKey}, offline \in BOOLEAN :
         list' = [list EXCEPT ![v] = [NotListing EXCEPT
             !.at = IF u = ApiKey THEN "registry" ELSE "envs",
             !.user = u, !.offline = offline]]
    /\ UNCHANGED <<catVars, registry, msg>>

ListForUser(v) ==
    /\ list[v].at = "envs"
    /\ list' = [list EXCEPT ![v].at = "rows",
                            ![v].envIDs = {e \in envs : GetMembership(e, list[v].user) # None}]
    /\ UNCHANGED <<catVars, registry, msg>>

\* No environment or no row gives a nil slice, not an empty one.
ListRowIDs(v) ==
    /\ list[v].at = "rows"
    /\ LET ids == {r \in DOMAIN dev : dev[r].env \in list[v].envIDs}
       IN  list' = [list EXCEPT ![v].at = "registry",
                                ![v].allowed = IF ids = {} THEN None ELSE ids]
    /\ UNCHANGED <<catVars, registry, msg>>

\* Faulty variant: an entry without a row passes the filter.
PassesUnlessForeign(l, allowed) ==
    allowed # None /\ registry[l].row # None => registry[l].row \in allowed

\* Faulty variant: a nil filter lets nothing pass.
PassesUnlessNil(l, allowed) == allowed # None /\ registry[l].row \in allowed

\* A nil filter lets every entry pass.
Passes(l, allowed) ==
    allowed # None => registry[l].row # None /\ registry[l].row \in allowed

\* The registry entries, as the API shows them, that pred lets through.
ListLiveDevices(v) ==
    /\ list[v].at = "registry"
    /\ list' = [list EXCEPT ![v].at = "done",
           ![v].shown = {<<l, registry[l].row>> : l \in
               {k \in DOMAIN registry :
                   /\ list[v].offline \/ Connected(registry[k])
                   /\ Passes(k, list[v].allowed)}}]
    /\ UNCHANGED <<catVars, registry, msg>>

\* Answered; or a query failed, and the answer is 500.
ListEnd(v) ==
    /\ list[v].at \in {"envs", "rows", "done"}
    /\ list' = [list EXCEPT ![v] = NotListing]
    /\ UNCHANGED <<catVars, registry, msg>>

-----------------------------------------------------------------------------
(* Observation: no action reads seen.  While a listing runs, own collects   *)
(* the environments its user is a member of at some moment; rows, the rows *)
(* that are in one while the user is a member of it; late, the rows that   *)
(* come into one when the user no longer is.  must keeps the entries the   *)
(* user was entitled to all along, and duplicate the device_ids that had   *)
(* several rows all along.                                                 *)

Visible(t) ==
    {<<l, registry[l].row>> : l \in
        {k \in DOMAIN registry :
            /\ t.offline \/ Connected(registry[k])
            /\ \/ t.user = ApiKey
               \/ /\ registry[k].row \in DOMAIN dev
                  /\ GetMembership(dev[registry[k].row].env, t.user) # None}}

Duplicates == {l \in Label : \E r, s \in RowsLabelled(l) : r # s}

\* What there is to be seen now by listing t.
Sight(t) ==
    LET own == {e \in envs : GetMembership(e, t.user) # None}
    IN  [own |-> own,
         rows |-> {r \in DOMAIN dev : dev[r].env \in own},
         must |-> Visible(t),
         duplicate |-> Duplicates]

NothingSeen == [own |-> {}, rows |-> {}, late |-> {}, must |-> {}, duplicate |-> {}]

\* s, and then now; first if the listing has just begun.
Extended(s, now, first) ==
    [own |-> s.own \cup now.own,
     rows |-> s.rows \cup now.rows,
     late |-> s.late \cup {r \in DOMAIN dev' \ DOMAIN dev : dev'[r].env \in s.own \ now.own},
     must |-> IF first THEN now.must ELSE s.must \cap now.must,
     duplicate |-> IF first THEN now.duplicate ELSE s.duplicate \cap now.duplicate]

Running(t) == t.at \in {"envs", "rows", "registry"}

Watch ==
    seen' = [v \in Viewer |->
        IF Running(list'[v])
          THEN Extended(seen[v], Sight(list[v])', list[v].at = "idle")
          ELSE NothingSeen]

-----------------------------------------------------------------------------
Init ==
    /\ CatalogInit
    /\ registry = [l \in {} |-> None]
    /\ msg = None
    /\ list = [v \in Viewer |-> NotListing]
    /\ seen = [v \in Viewer |-> NothingSeen]

Ingest == Lookup \/ Store

Listings == \E v \in Viewer :
    ListBegin(v) \/ ListForUser(v) \/ ListRowIDs(v) \/ ListLiveDevices(v) \/ ListEnd(v)

Next ==
    /\ \/ CatalogNext /\ UNCHANGED liveVars
       \/ \E l \in Label, p \in Presence : Receive(l, p)
       \/ Ingest \/ Age \/ Restart \/ Listings
    /\ Watch

Spec == Init /\ [][Next]_vars

\* The handler runs to its end, and every device keeps sending.
Fairness ==
    /\ WF_vars(Ingest /\ Watch)
    /\ \A l \in Label : SF_vars(\E p \in Presence : Receive(l, p) /\ Watch)

LiveSpec == Spec /\ Fairness

-----------------------------------------------------------------------------
TypeOK ==
    /\ CatalogTypeOK
    /\ DOMAIN registry \subseteq Label
    /\ registry \in [DOMAIN registry -> Entry]
    /\ msg \in Message \cup {None}
    /\ list \in [Viewer -> Listing]
    /\ seen \in [Viewer -> [own : SUBSET Env, rows : SUBSET Row, late : SUBSET Row,
                            must : SUBSET (Label \X (Row \cup {None})),
                            duplicate : SUBSET Label]]

Answering(v) == list[v].at = "registry" /\ list'[v].at = "done"

\* The rows listing v may show.
MayShow(v) == seen[v].rows \cup seen[v].late

\* hive_routes.go:341 and ListLiveDevices with a filter: whatever happened to
\* the memberships, the devices and the registry between the three reads of a
\* listing, it shows only rows that at some moment since it began were in an
\* environment its user was a member of just then; and, as the rows are found
\* by environment ids read earlier, rows that came into such an environment
\* while the listing ran but after its user had left it.
ListingConfined ==
    [][\A v \in Viewer : Answering(v) /\ list[v].allowed # None =>
          \A entry \in list'[v].shown : entry[2] \in MayShow(v)]_vars

\* ... and none is missing that was registered, connected (unless the caller
\* wants them all) and open to the caller all along.
ListingComplete ==
    [][\A v \in Viewer : Answering(v) => seen[v].must \subseteq list'[v].shown]_vars

\* messageHandler: once a device_id belongs to one row for good, its entry
\* comes to name that row and stays so, whatever it named before.
IdentityCatchesUp ==
    \A l \in Label, r \in Row :
        <>[](RowsLabelled(l) = {r}) => <>[](l \in DOMAIN registry /\ registry[l].row = r)

\* README.md:86: JWT users see devices in their environments.  Not so for a
\* user without any: the nil filter is that of an API key.
JwtSeesOwn ==
    [][\A v \in Viewer : Answering(v) /\ list[v].user \in User =>
          \A entry \in list'[v].shown : entry[2] \in MayShow(v)]_vars

\* README.md:75: a device_id that several rows have is omitted.  An entry
\* keeps the row it was given before the second one came.
DuplicateOmitted ==
    [][\A v \in Viewer : Answering(v) /\ list[v].allowed # None =>
          \A entry \in list'[v].shown : entry[1] \notin seen[v].duplicate]_vars

=============================================================================
