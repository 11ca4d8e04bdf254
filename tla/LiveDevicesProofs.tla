------------------------- MODULE LiveDevicesProofs -------------------------
(***************************************************************************)
(* The live device registry and its listings, for any numbers of devices,  *)
(* environments and listings in progress.                                  *)
(***************************************************************************)
EXTENDS LiveIdentity, CatalogProofs

\* The types, with the flags in B (the SMT backend keeps formulas apart from
\* values, so what is to be proved of a flag is proved for any set B).
EntryWith(B) == [row : Row \cup {None}, presence : AllPresence, fresh : B]

MessageWith(B) ==
    [label : Label, presence : AllPresence, fresh : B,
     row : Row \cup {None}, at : {"lookup", "store"}]

Moment == {"idle", "envs", "rows", "registry", "done"}

ListingWith(B) ==
    [at : Moment, user : User \cup {ApiKey, None}, offline : B,
     envIDs : SUBSET Env, allowed : (SUBSET Row) \cup {None},
     shown : SUBSET (Label \X (Row \cup {None}))]

RegistryOK ==
    /\ DOMAIN registry \subseteq Label
    /\ registry \in [DOMAIN registry -> Entry]

SeenOK ==
    seen \in [Viewer -> [own : SUBSET Env, rows : SUBSET Row, late : SUBSET Row,
                         must : SUBSET (Label \X (Row \cup {None})),
                         duplicate : SUBSET Label]]

\* A row does not move to another environment.
RowsStay == \A r \in DOMAIN dev \cap DOMAIN dev' : dev'[r].env = dev[r].env

-----------------------------------------------------------------------------
(* Catalogue, ingest and time. *)

LEMMA RowsStayStep ==
    CatalogTypeOK /\ CatalogIntegrity /\ [CatalogNext]_catVars => RowsStay
  <1> SUFFICES ASSUME CatalogTypeOK, CatalogIntegrity, [CatalogNext]_catVars PROVE RowsStay
    OBVIOUS
  <1>1. CASE dev' = dev
    BY <1>1 DEF RowsStay
  <1>2. ASSUME NEW S, dev' = Drop(dev, S) PROVE RowsStay
    BY <1>2 DEF RowsStay, Drop, Restrict
  <1>3. ASSUME NEW r \in Row, NEW d, InsertDevice(r, d) PROVE RowsStay
    <2>1. r \notin DOMAIN dev
      BY <1>3 DEF InsertDevice, CatalogIntegrity, IdsMinted
    <2> QED BY <1>3, <2>1 DEF InsertDevice, RowsStay, Put
  <1>4. ASSUME NEW r \in Row, NEW l \in Label, NEW p \in Parents, UpdateDevice(r, l, p)
        PROVE  RowsStay
    <2>1. [dev[r] EXCEPT !.label = l, !.parent = p].env = dev[r].env
      BY <1>4 DEF UpdateDevice, CatalogTypeOK, Device
    <2>2. /\ dev'[r] = [dev[r] EXCEPT !.label = l, !.parent = p]
          /\ \A s \in DOMAIN dev : s # r => dev'[s] = dev[s]
      BY <1>4 DEF UpdateDevice, Put
    <2> QED BY <2>1, <2>2 DEF RowsStay
  <1> QED
    BY <1>1, <1>2, <1>3, <1>4 DEF CatalogNext, catVars, UpsertFromMe, CreateEnvironment,
       DeleteEnvironment, UpsertMember, RemoveMember, DeleteDevice

LEMMA StoreType ==
    ASSUME NEW B, DOMAIN registry \subseteq Label, registry \in [DOMAIN registry -> EntryWith(B)],
           msg \in MessageWith(B), Store
    PROVE  DOMAIN registry' \subseteq Label /\ registry' \in [DOMAIN registry' -> EntryWith(B)]
  <1> DEFINE n == [row |-> msg.row, presence |-> msg.presence, fresh |-> msg.fresh]
  <1>1. n \in EntryWith(B) /\ msg.label \in Label
    BY DEF EntryWith, MessageWith
  <1>2. registry' = Put(registry, msg.label, n)
    BY DEF Store
  <1> HIDE DEF n
  <1> QED BY <1>1, <1>2 DEF Put

LEMMA AgeType ==
    ASSUME NEW B, FALSE \in B, DOMAIN registry \subseteq Label,
           registry \in [DOMAIN registry -> EntryWith(B)],
           msg \in MessageWith(B) \cup {None}, Age
    PROVE  /\ DOMAIN registry' \subseteq Label /\ registry' \in [DOMAIN registry' -> EntryWith(B)]
           /\ msg' \in MessageWith(B) \cup {None}
  <1>1. ASSUME NEW l \in DOMAIN registry, registry' = [registry EXCEPT ![l].fresh = FALSE],
               UNCHANGED msg
        PROVE  /\ DOMAIN registry' \subseteq Label
               /\ registry' \in [DOMAIN registry' -> EntryWith(B)]
               /\ msg' \in MessageWith(B) \cup {None}
    <2> DEFINE n == [registry[l] EXCEPT !.fresh = FALSE]
    <2>1. n \in EntryWith(B)
      BY DEF EntryWith
    <2>2. registry' = [registry EXCEPT ![l] = n]
      BY <1>1
    <2> HIDE DEF n
    <2> QED BY <1>1, <2>1, <2>2
  <1>2. ASSUME msg # None, msg' = [msg EXCEPT !.fresh = FALSE], UNCHANGED registry
        PROVE  /\ DOMAIN registry' \subseteq Label
               /\ registry' \in [DOMAIN registry' -> EntryWith(B)]
               /\ msg' \in MessageWith(B) \cup {None}
    BY <1>2 DEF MessageWith
  <1> QED BY <1>1, <1>2 DEF Age

LEMMA LookupType ==
    ASSUME CatalogTypeOK, NEW B, msg \in MessageWith(B) \cup {None}, Lookup
    PROVE  msg' \in MessageWith(B)
  <1>1. msg \in MessageWith(B)
    BY DEF Lookup
  <1>2. ASSUME NEW r \in Row, msg' = [msg EXCEPT !.at = "store", !.row = r]
        PROVE  msg' \in MessageWith(B)
    BY <1>1, <1>2 DEF MessageWith
  <1>3. ASSUME msg' = [msg EXCEPT !.at = "store"]
        PROVE  msg' \in MessageWith(B)
    BY <1>1, <1>3 DEF MessageWith
  <1>4. CASE \E r \in Row : msg' = [msg EXCEPT !.at = "store", !.row = r]
    BY <1>2, <1>4
  <1>5. CASE msg' = [msg EXCEPT !.at = "store"]
    BY <1>3, <1>5
  <1>6. RowsLabelled(msg.label) \subseteq Row
    BY DEF RowsLabelled, CatalogTypeOK
  <1> QED BY <1>4, <1>5, <1>6 DEF Lookup

-----------------------------------------------------------------------------
(* Listings: what becomes of the one that takes a step. *)

LEMMA ListUpdate ==
    ASSUME NEW B, list \in [Viewer -> ListingWith(B)], NEW v \in Viewer,
           NEW n \in ListingWith(B), list' = [list EXCEPT ![v] = n]
    PROVE  /\ list' \in [Viewer -> ListingWith(B)]
           /\ list'[v] = n
           /\ \A w \in Viewer : w # v => list'[w] = list[w]
  OBVIOUS

LEMMA NotListingIs ==
    ASSUME NEW B, FALSE \in B
    PROVE  NotListing \in ListingWith(B) /\ NotListing.at = "idle"
  BY DEF NotListing, ListingWith, Moment

LEMMA ListBeginIs ==
    ASSUME NEW B, BOOLEAN \subseteq B, CatalogTypeOK, list \in [Viewer -> ListingWith(B)],
           NEW v \in Viewer, ListBegin(v)
    PROVE  /\ list' \in [Viewer -> ListingWith(B)]
           /\ \A w \in Viewer : w # v => list'[w] = list[w]
           /\ list'[v].at \in {"envs", "registry"}
           /\ list'[v].at = "envs" <=> list'[v].user # ApiKey
           /\ list'[v].allowed = None
  <1>1. PICK u \in users \cup {ApiKey}, offline \in BOOLEAN :
           list' = [list EXCEPT ![v] = [NotListing EXCEPT
             !.at = IF u = ApiKey THEN "registry" ELSE "envs",
             !.user = u, !.offline = offline]]
    BY DEF ListBegin
  <1> DEFINE at == IF u = ApiKey THEN "registry" ELSE "envs"
             n == [NotListing EXCEPT !.at = at, !.user = u, !.offline = offline]
  <1>2. at \in {"envs", "registry"} /\ (at = "envs" <=> u # ApiKey) /\ u \in User \cup {ApiKey}
        /\ offline \in B
    BY DEF CatalogTypeOK
  <1>3. list' = [list EXCEPT ![v] = n]
    BY <1>1
  <1> HIDE DEF at
  <1>4. /\ n.at = at /\ n.user = u /\ n.allowed = None
        /\ n \in ListingWith(B)
    BY <1>2 DEF NotListing, ListingWith, Moment
  <1> HIDE DEF n
  <1> QED BY <1>2, <1>3, <1>4, ListUpdate

LEMMA ListForUserIs ==
    ASSUME NEW B, CatalogTypeOK, list \in [Viewer -> ListingWith(B)],
           NEW v \in Viewer, ListForUser(v)
    PROVE  /\ list' \in [Viewer -> ListingWith(B)]
           /\ \A w \in Viewer : w # v => list'[w] = list[w]
           /\ list'[v].at = "rows" /\ list'[v].user = list[v].user
           /\ list'[v].envIDs = {e \in envs : GetMembership(e, list[v].user) # None}
  <1> DEFINE ids == {e \in envs : GetMembership(e, list[v].user) # None}
             n == [list[v] EXCEPT !.at = "rows", !.envIDs = ids]
  <1>1. list' = [list EXCEPT ![v] = n]
    BY DEF ListForUser
  <1>2. ids \subseteq Env
    BY DEF CatalogTypeOK
  <1> HIDE DEF ids
  <1>3. n \in ListingWith(B) /\ n.at = "rows" /\ n.user = list[v].user /\ n.envIDs = ids
    BY <1>2 DEF ListingWith, Moment
  <1> HIDE DEF n
  <1>4. list'[v].envIDs = ids
    BY <1>1, <1>3, ListUpdate
  <1> QED BY <1>1, <1>3, <1>4, ListUpdate DEF ids

LEMMA ListRowIDsIs ==
    ASSUME NEW B, CatalogTypeOK, list \in [Viewer -> ListingWith(B)],
           NEW v \in Viewer, ListRowIDs(v)
    PROVE  /\ list' \in [Viewer -> ListingWith(B)]
           /\ \A w \in Viewer : w # v => list'[w] = list[w]
           /\ list'[v].at = "registry" /\ list'[v].user = list[v].user
           /\ LET ids == {r \in DOMAIN dev : dev[r].env \in list[v].envIDs}
              IN  list'[v].allowed = IF ids = {} THEN None ELSE ids
  <1> DEFINE ids == {r \in DOMAIN dev : dev[r].env \in list[v].envIDs}
             allowed == IF ids = {} THEN None ELSE ids
             n == [list[v] EXCEPT !.at = "registry", !.allowed = allowed]
  <1>1. list' = [list EXCEPT ![v] = n]
    BY DEF ListRowIDs
  <1>2. allowed \in (SUBSET Row) \cup {None}
    BY DEF CatalogTypeOK
  <1> HIDE DEF allowed
  <1>3. n \in ListingWith(B) /\ n.at = "registry" /\ n.user = list[v].user /\ n.allowed = allowed
    BY <1>2 DEF ListingWith, Moment
  <1> HIDE DEF n
  <1>4. /\ list' \in [Viewer -> ListingWith(B)] /\ list'[v] = n
        /\ \A w \in Viewer : w # v => list'[w] = list[w]
    BY <1>1, <1>3, ListUpdate
  <1> QED BY <1>3, <1>4 DEF allowed

\* The entries that listing v lets through.
Through(v) ==
    {<<l, registry[l].row>> : l \in
        {k \in DOMAIN registry :
            /\ list[v].offline \/ Connected(registry[k])
            /\ Passes(k, list[v].allowed)}}

LEMMA ListLiveDevicesIs ==
    ASSUME NEW B, RegistryOK, list \in [Viewer -> ListingWith(B)],
           NEW v \in Viewer, ListLiveDevices(v)
    PROVE  /\ list' \in [Viewer -> ListingWith(B)]
           /\ \A w \in Viewer : w # v => list'[w] = list[w]
           /\ list'[v].at = "done" /\ list'[v].shown = Through(v)
  <1> DEFINE shown == Through(v)
             n == [list[v] EXCEPT !.at = "done", !.shown = shown]
  <1>1. list' = [list EXCEPT ![v] = n]
    BY DEF ListLiveDevices, Through
  <1>2. shown \subseteq Label \X (Row \cup {None})
    BY DEF Through, RegistryOK, Entry
  <1> HIDE DEF shown
  <1>3. n \in ListingWith(B) /\ n.at = "done" /\ n.shown = shown
    BY <1>2 DEF ListingWith, Moment
  <1> HIDE DEF n
  <1>4. list'[v].shown = shown
    BY <1>1, <1>3, ListUpdate
  <1> QED BY <1>1, <1>3, <1>4, ListUpdate DEF shown

LEMMA ListEndIs ==
    ASSUME NEW B, FALSE \in B, list \in [Viewer -> ListingWith(B)], NEW v \in Viewer, ListEnd(v)
    PROVE  /\ list' \in [Viewer -> ListingWith(B)]
           /\ \A w \in Viewer : w # v => list'[w] = list[w]
           /\ list'[v].at = "idle"
  BY NotListingIs, ListUpdate DEF ListEnd

-----------------------------------------------------------------------------
(* The invariant. *)

\* What listing v has read is within what it may show, and leaves out nothing
\* of what its user was entitled to all along.
ListingSound(v) ==
    /\ \A r \in DOMAIN dev : dev[r].env \in seen[v].own => r \in MayShow(v)
    /\ list[v].at \in {"envs", "rows"} => list[v].user # ApiKey
    /\ list[v].at = "registry" /\ list[v].user = ApiKey => list[v].allowed = None
    /\ list[v].at = "rows" => list[v].envIDs \subseteq seen[v].own
    /\ list[v].at = "registry" /\ list[v].allowed # None =>
          list[v].allowed \subseteq MayShow(v)
    /\ Running(list[v]) => seen[v].must \subseteq Visible(list[v])
    /\ list[v].at = "rows" =>
          \A entry \in seen[v].must : dev[entry[2]].env \in list[v].envIDs
    /\ list[v].at = "registry" /\ list[v].allowed # None =>
          \A entry \in seen[v].must : entry[2] \in list[v].allowed
    /\ list[v].at = "registry" /\ list[v].user # ApiKey /\ seen[v].must # {} =>
          list[v].allowed # None

Typed ==
    /\ CatalogTypeOK /\ RegistryOK /\ SeenOK
    /\ msg \in Message \cup {None}
    /\ list \in [Viewer -> Listing]

Inv == Typed /\ CatalogIntegrity /\ \A v \in Viewer : ListingSound(v)

\* What is seen of a listing only grows, and what it must show only shrinks.
LEMMA WatchIs ==
    ASSUME SeenOK, Watch, NEW v \in Viewer, Running(list'[v])
    PROVE  /\ seen[v].own \subseteq seen'[v].own
           /\ {e \in envs : GetMembership(e, list[v].user) # None}' \subseteq seen'[v].own
           /\ seen[v].rows \subseteq seen'[v].rows /\ seen[v].late \subseteq seen'[v].late
           /\ seen'[v].must \subseteq Visible(list[v])'
           /\ list[v].at # "idle" => seen'[v].must \subseteq seen[v].must
           /\ \A r \in DOMAIN dev' : dev'[r].env \in seen'[v].own \ seen[v].own =>
                  r \in seen'[v].rows
           /\ \A r \in DOMAIN dev' \ DOMAIN dev : dev'[r].env \in seen'[v].own =>
                  r \in seen'[v].rows \cup seen'[v].late
  <1>1. seen'[v] = Extended(seen[v], Sight(list[v])', list[v].at = "idle")
    BY DEF Watch
  <1> DEFINE now == Sight(list[v])'
             own == seen[v].own \cup now.own
             late == {r \in DOMAIN dev' \ DOMAIN dev : dev'[r].env \in seen[v].own \ now.own}
             must == IF list[v].at = "idle" THEN now.must ELSE seen[v].must \cap now.must
  <1>2. /\ now.own = {e \in envs : GetMembership(e, list[v].user) # None}'
        /\ now.rows = {r \in DOMAIN dev' : dev'[r].env \in now.own}
        /\ now.must = Visible(list[v])'
    BY DEF Sight
  <1>3. /\ seen'[v].own = own
        /\ seen'[v].rows = seen[v].rows \cup now.rows
        /\ seen'[v].late = seen[v].late \cup late
        /\ seen'[v].must = must
    BY <1>1 DEF Extended
  <1> QED BY <1>2, <1>3

\* A row in an environment its user was seen to be a member of was there at
\* that moment, or came later; it has not moved.
LEMMA MayShowGrows ==
    ASSUME Inv, Watch, RowsStay, NEW v \in Viewer
    PROVE  /\ \A r \in DOMAIN dev' : dev'[r].env \in seen'[v].own => r \in MayShow(v)'
           /\ Running(list'[v]) => MayShow(v) \subseteq MayShow(v)'
  <1>1. CASE ~Running(list'[v])
    <2>1. seen'[v].own = {}
      BY <1>1 DEF Watch, NothingSeen
    <2> QED BY <1>1, <2>1
  <1>2. CASE Running(list'[v])
    <2>1. SeenOK /\ ListingSound(v)
      BY DEF Inv, Typed
    <2>2. MayShow(v) \subseteq MayShow(v)'
      BY <1>2, <2>1, WatchIs DEF MayShow
    <2>3. ASSUME NEW r \in DOMAIN dev', dev'[r].env \in seen'[v].own
          PROVE  r \in MayShow(v)'
      <3>1. CASE r \notin DOMAIN dev \/ dev'[r].env \notin seen[v].own
        BY <1>2, <2>1, <2>3, <3>1, WatchIs DEF MayShow
      <3>2. CASE r \in DOMAIN dev /\ dev'[r].env \in seen[v].own
        BY <2>1, <2>2, <3>2 DEF RowsStay, ListingSound
      <3> QED BY <3>1, <3>2
    <2> QED BY <2>2, <2>3
  <1> QED BY <1>1, <1>2

LEMMA VisibleIs ==
    ASSUME NEW v \in Viewer, NEW entry \in Visible(list[v])
    PROVE  /\ entry[1] \in DOMAIN registry /\ entry = <<entry[1], registry[entry[1]].row>>
           /\ list[v].offline \/ Connected(registry[entry[1]])
           /\ list[v].user # ApiKey =>
                 /\ entry[2] \in DOMAIN dev
                 /\ GetMembership(dev[entry[2]].env, list[v].user) # None
  BY DEF Visible

LEMMA SeenType ==
    ASSUME SeenOK, Watch, CatalogTypeOK', RegistryOK'
    PROVE  SeenOK'
  <1> DEFINE Sights == [own : SUBSET Env, rows : SUBSET Row, late : SUBSET Row,
                        must : SUBSET (Label \X (Row \cup {None})), duplicate : SUBSET Label]
  <1>1. NothingSeen \in Sights
    BY DEF NothingSeen
  <1>2. ASSUME NEW v \in Viewer
        PROVE  Extended(seen[v], Sight(list[v])', list[v].at = "idle") \in Sights
    <2> DEFINE now == Sight(list[v])'
               own == seen[v].own \cup now.own
               rows == seen[v].rows \cup now.rows
               late == seen[v].late \cup {r \in DOMAIN dev' \ DOMAIN dev :
                                             dev'[r].env \in seen[v].own \ now.own}
               must == IF list[v].at = "idle" THEN now.must ELSE seen[v].must \cap now.must
               duplicate == IF list[v].at = "idle" THEN now.duplicate
                            ELSE seen[v].duplicate \cap now.duplicate
    <2>1. /\ now.own = {e \in envs : GetMembership(e, list[v].user) # None}'
          /\ now.rows = {r \in DOMAIN dev' : dev'[r].env \in now.own}
          /\ now.must = Visible(list[v])' /\ now.duplicate = Duplicates'
      BY DEF Sight
    <2>2. now.own \subseteq Env /\ now.rows \subseteq Row /\ now.duplicate \subseteq Label
      BY <2>1 DEF CatalogTypeOK, Duplicates
    <2>3. now.must \subseteq Label \X (Row \cup {None})
      BY <2>1 DEF Visible, RegistryOK, Entry
    <2>4. seen[v] \in Sights
      BY DEF SeenOK
    <2> HIDE DEF now
    <2>5. own \subseteq Env /\ rows \subseteq Row /\ late \subseteq Row
      BY <2>2, <2>4 DEF CatalogTypeOK
    <2>6. must \subseteq Label \X (Row \cup {None}) /\ duplicate \subseteq Label
      BY <2>2, <2>3, <2>4
    <2>7. Extended(seen[v], now, list[v].at = "idle")
            = [own |-> own, rows |-> rows, late |-> late, must |-> must, duplicate |-> duplicate]
      BY DEF Extended
    <2> HIDE DEF own, rows, late, must, duplicate
    <2>8. Extended(seen[v], now, list[v].at = "idle") \in Sights
      BY <2>5, <2>6, <2>7
    <2> QED BY <2>8 DEF now
  <1> QED BY <1>1, <1>2 DEF Watch, SeenOK

\* A listing that does not take a step stays sound, whatever happens.
LEMMA ListingStays ==
    ASSUME Inv, Watch, RowsStay, NEW v \in Viewer, list'[v] = list[v]
    PROVE  ListingSound(v)'
  <1> USE MayShowGrows
  <1>1. CASE ~Running(list[v])
    BY <1>1 DEF Inv, ListingSound, Running
  <1>2. CASE Running(list[v])
    <2>1. ListingSound(v) /\ SeenOK
      BY DEF Inv, Typed
    <2>2. /\ seen[v].own \subseteq seen'[v].own
          /\ seen'[v].must \subseteq Visible(list[v])'
          /\ seen'[v].must \subseteq seen[v].must
      BY <1>2, <2>1, WatchIs DEF Running
    <2>3. ASSUME list[v].at = "rows", NEW entry \in seen'[v].must
          PROVE  dev'[entry[2]].env \in list[v].envIDs
      <3>1. entry \in Visible(list[v]) /\ entry \in Visible(list[v])' /\ list[v].user # ApiKey
        BY <1>2, <2>1, <2>2, <2>3 DEF ListingSound
      <3>2. entry[2] \in DOMAIN dev
        BY <3>1, VisibleIs
      <3>3. entry[2] \in DOMAIN dev'
        BY <3>1 DEF Visible
      <3> QED BY <2>1, <2>2, <2>3, <3>2, <3>3 DEF ListingSound, RowsStay
    <2> QED BY <1>2, <2>1, <2>2, <2>3 DEF ListingSound
  <1> QED BY <1>1, <1>2

LEMMA ListingRests ==
    ASSUME Inv, Watch, RowsStay, NEW v \in Viewer, list'[v].at \in {"idle", "done"}
    PROVE  ListingSound(v)'
  BY MayShowGrows DEF ListingSound, Running

LEMMA ListBeginSound ==
    ASSUME Inv, Watch, RowsStay, NEW v \in Viewer, ListBegin(v)
    PROVE  ListingSound(v)'
  <1>1. /\ list'[v].at \in {"envs", "registry"}
        /\ list'[v].at = "envs" <=> list'[v].user # ApiKey
        /\ list'[v].allowed = None
    <2>1. list \in [Viewer -> ListingWith(BOOLEAN)]
      BY DEF Inv, Typed, Listing, ListingWith, Moment
    <2> QED BY <2>1, ListBeginIs DEF Inv, Typed
  <1>2. Running(list'[v]) /\ SeenOK
    BY <1>1 DEF Running, Inv, Typed
  <1>3. seen'[v].must \subseteq Visible(list[v])'
    BY <1>2, WatchIs
  <1> QED BY <1>1, <1>3, MayShowGrows DEF ListingSound

LEMMA ListForUserSound ==
    ASSUME Inv, Watch, RowsStay, NEW v \in Viewer, ListForUser(v)
    PROVE  ListingSound(v)'
  <1>1. /\ list'[v].at = "rows" /\ list'[v].user = list[v].user
        /\ list'[v].envIDs = {e \in envs : GetMembership(e, list[v].user) # None}
    <2>1. list \in [Viewer -> ListingWith(BOOLEAN)]
      BY DEF Inv, Typed, Listing, ListingWith, Moment
    <2> QED BY <2>1, ListForUserIs DEF Inv, Typed
  <1>2. Running(list'[v]) /\ SeenOK
    BY <1>1 DEF Running, Inv, Typed
  <1>3. /\ {e \in envs : GetMembership(e, list[v].user) # None}' \subseteq seen'[v].own
        /\ seen'[v].must \subseteq Visible(list[v])'
    BY <1>2, WatchIs
  <1>4. list[v].user # ApiKey /\ UNCHANGED <<envs, member, dev>>
    BY DEF ListForUser, Inv, ListingSound, catVars
  <1>5. list'[v].envIDs \subseteq seen'[v].own
    BY <1>1, <1>3, <1>4 DEF GetMembership
  <1>6. ASSUME NEW entry \in seen'[v].must
        PROVE  dev'[entry[2]].env \in list'[v].envIDs
    <2>1. /\ entry[2] \in DOMAIN dev'
          /\ GetMembership(dev[entry[2]].env, list[v].user)' # None
      BY <1>1, <1>3, <1>4 DEF Visible
    <2>2. GetMembership(dev[entry[2]].env, list[v].user) # None
      BY <1>1, <1>4, <2>1 DEF GetMembership
    <2>3. dev[entry[2]].env \in envs
      BY <1>4, <2>1 DEF Inv, CatalogIntegrity, NothingOutlivesItsEnvironment
    <2> QED BY <1>1, <1>4, <2>2, <2>3
  <1> QED BY <1>1, <1>3, <1>4, <1>5, <1>6, MayShowGrows DEF ListingSound

LEMMA ListRowIDsSound ==
    ASSUME Inv, Watch, RowsStay, NEW v \in Viewer, ListRowIDs(v)
    PROVE  ListingSound(v)'
  <1> DEFINE ids == {r \in DOMAIN dev : dev[r].env \in list[v].envIDs}
  <1>1. /\ list'[v].at = "registry" /\ list'[v].user = list[v].user
        /\ list'[v].allowed = IF ids = {} THEN None ELSE ids
    <2>1. list \in [Viewer -> ListingWith(BOOLEAN)]
      BY DEF Inv, Typed, Listing, ListingWith, Moment
    <2> QED BY <2>1, ListRowIDsIs DEF Inv, Typed
  <1>2. Running(list'[v]) /\ SeenOK
    BY <1>1 DEF Running, Inv, Typed
  <1>3. /\ list[v].at = "rows" /\ list[v].user # ApiKey /\ list[v].envIDs \subseteq seen[v].own
        /\ seen[v].must \subseteq Visible(list[v])
        /\ \A entry \in seen[v].must : dev[entry[2]].env \in list[v].envIDs
        /\ UNCHANGED dev
    BY DEF ListRowIDs, Inv, ListingSound, Running, catVars
  <1>4. /\ seen[v].own \subseteq seen'[v].own
        /\ seen'[v].must \subseteq Visible(list[v])'
        /\ seen'[v].must \subseteq seen[v].must
    BY <1>2, <1>3, WatchIs
  <1>5. ids \subseteq MayShow(v)'
    BY <1>3, <1>4, MayShowGrows
  <1>6. \A entry \in seen'[v].must : entry[2] \in ids
    BY <1>3, <1>4, VisibleIs
  <1>7. list'[v].allowed # None => list'[v].allowed = ids
    BY <1>1
  <1>8. seen'[v].must # {} => list'[v].allowed # None
    <2>1. seen'[v].must # {} => ids # {}
      BY <1>6
    <2>2. ids # {} => ids # None
      <3>1. ids \subseteq Row
        BY DEF Inv, Typed, CatalogTypeOK
      <3> QED BY <3>1, LiveConstants
    <2> QED BY <1>1, <2>1, <2>2
  <1> HIDE DEF ids
  <1> QED BY <1>1, <1>3, <1>4, <1>5, <1>6, <1>7, <1>8, MayShowGrows DEF ListingSound

-----------------------------------------------------------------------------
LEMMA InvInit == Init => Inv
  <1> SUFFICES ASSUME Init PROVE Inv
    OBVIOUS
  <1>1. CatalogTypeOK /\ CatalogIntegrity
    BY CatalogTypeInit, IntegrityInit DEF Init
  <1>2. NotListing \in ListingWith(BOOLEAN)
    BY NotListingIs
  <1>3. list \in [Viewer -> Listing] /\ \A v \in Viewer : list[v].at = "idle"
    BY <1>2 DEF Init, Listing, ListingWith, Moment, NotListing
  <1>4. RegistryOK /\ SeenOK /\ msg = None
    BY DEF Init, RegistryOK, SeenOK, NothingSeen
  <1>5. \A v \in Viewer : ListingSound(v)
    BY <1>3 DEF ListingSound, Running, Init, NothingSeen
  <1> QED BY <1>1, <1>3, <1>4, <1>5 DEF Inv, Typed

\* The registry and the message keep their types; only Ingest, Age and
\* Restart touch the one, and Receive the other.
LEMMA IngestTyped ==
    ASSUME Typed, \/ \E l \in Label, p \in Presence : Receive(l, p)
                  \/ Ingest \/ Age \/ Restart
    PROVE  RegistryOK' /\ msg' \in Message \cup {None}
  <1>1. /\ DOMAIN registry \subseteq Label /\ registry \in [DOMAIN registry -> EntryWith(BOOLEAN)]
        /\ msg \in MessageWith(BOOLEAN) \cup {None} /\ FALSE \in BOOLEAN
    BY DEF Typed, RegistryOK, Entry, EntryWith, Message, MessageWith
  <1>2. Entry = EntryWith(BOOLEAN) /\ Message = MessageWith(BOOLEAN)
    BY DEF Entry, EntryWith, Message, MessageWith
  <1>3. CASE \E l \in Label, p \in Presence : Receive(l, p)
    BY <1>3, LiveConstants DEF Receive, Typed, RegistryOK, Message
  <1>4. CASE Lookup
    BY <1>1, <1>2, <1>4, LookupType DEF Lookup, Typed, RegistryOK
  <1>5. CASE Store
    <2>1. msg \in MessageWith(BOOLEAN) /\ msg' = None
      BY <1>1, <1>5 DEF Store
    <2> QED BY <1>1, <1>2, <1>5, <2>1, StoreType DEF RegistryOK
  <1>6. CASE Age
    BY <1>1, <1>2, <1>6, AgeType DEF RegistryOK
  <1>7. CASE Restart
    BY <1>7 DEF Restart, RegistryOK
  <1> QED BY <1>3, <1>4, <1>5, <1>6, <1>7 DEF Ingest

LEMMA InvStep == Inv /\ [Next]_vars => Inv'
  <1> SUFFICES ASSUME Inv, [Next]_vars PROVE Inv'
    OBVIOUS
  <1>1. CASE UNCHANGED vars
    <2>1. CatalogTypeOK' /\ CatalogIntegrity'
      BY <1>1, CatalogTypeStep, IntegrityStep DEF vars, Inv, Typed
    <2>2. Typed'
      BY <1>1, <2>1 DEF vars, liveVars, Inv, Typed, RegistryOK, SeenOK
    <2>3. \A v \in Viewer : ListingSound(v)'
      BY <1>1 DEF vars, liveVars, catVars, Inv, ListingSound, MayShow, Visible, GetMembership
    <2> QED BY <2>1, <2>2, <2>3 DEF Inv
  <1>2. ASSUME Watch, [CatalogNext]_catVars, RegistryOK', msg' \in Message \cup {None},
               list' \in [Viewer -> Listing],
               \A v \in Viewer : list'[v] = list[v] \/ ListingSound(v)'
        PROVE  Inv'
    <2>1. CatalogTypeOK' /\ CatalogIntegrity' /\ RowsStay
      BY <1>2, CatalogTypeStep, IntegrityStep, RowsStayStep DEF Inv, Typed
    <2>2. SeenOK'
      BY <1>2, <2>1, SeenType DEF Inv, Typed
    <2>3. \A v \in Viewer : ListingSound(v)'
      BY <1>2, <2>1, ListingStays
    <2> QED BY <1>2, <2>1, <2>2, <2>3 DEF Inv, Typed
  <1>3. CASE CatalogNext /\ UNCHANGED liveVars /\ Watch
    BY <1>2, <1>3 DEF liveVars, Inv, Typed, RegistryOK
  <1>4. CASE Watch /\ \/ \E l \in Label, p \in Presence : Receive(l, p)
                      \/ Ingest \/ Age
    <2>1. UNCHANGED <<catVars, list>>
      BY <1>4 DEF Receive, Ingest, Lookup, Store, Age
    <2>2. RegistryOK' /\ msg' \in Message \cup {None}
      BY <1>4, IngestTyped DEF Inv
    <2> QED BY <1>2, <1>4, <2>1, <2>2 DEF Inv, Typed
  <1>5. CASE Restart /\ Watch
    <2>1. RegistryOK' /\ msg' \in Message \cup {None} /\ UNCHANGED catVars
      BY <1>5, IngestTyped DEF Inv, Restart
    <2>2. NotListing \in ListingWith(BOOLEAN)
      BY NotListingIs
    <2>3. list' \in [Viewer -> Listing] /\ \A v \in Viewer : list'[v].at = "idle"
      BY <1>5, <2>2 DEF Restart, Listing, ListingWith, Moment, NotListing
    <2>4. RowsStay
      BY <2>1 DEF RowsStay, catVars
    <2> QED BY <1>2, <1>5, <2>1, <2>3, <2>4, ListingRests
  <1>6. ASSUME NEW v \in Viewer, Watch,
               \/ ListBegin(v) \/ ListForUser(v) \/ ListRowIDs(v)
               \/ ListLiveDevices(v) \/ ListEnd(v)
        PROVE  Inv'
    <2>1. list \in [Viewer -> ListingWith(BOOLEAN)] /\ FALSE \in BOOLEAN
      BY DEF Inv, Typed, Listing, ListingWith, Moment
    <2>2. UNCHANGED <<catVars, registry, msg>>
      BY <1>6 DEF ListBegin, ListForUser, ListRowIDs, ListLiveDevices, ListEnd
    <2>3. /\ list' \in [Viewer -> ListingWith(BOOLEAN)]
          /\ \A w \in Viewer : w # v => list'[w] = list[w]
      BY <1>6, <2>1, ListBeginIs, ListForUserIs, ListRowIDsIs, ListLiveDevicesIs, ListEndIs
         DEF Inv, Typed
    <2>4. ListingSound(v)'
      <3>0. RowsStay
        BY <2>2 DEF RowsStay, catVars
      <3>1. CASE ListLiveDevices(v) \/ ListEnd(v)
        <4>1. list'[v].at \in {"idle", "done"}
          BY <2>1, <3>1, ListLiveDevicesIs, ListEndIs DEF Inv, Typed
        <4> QED BY <1>6, <3>0, <4>1, ListingRests
      <3> QED BY <1>6, <3>0, <3>1, ListBeginSound, ListForUserSound, ListRowIDsSound
    <2>5. list' \in [Viewer -> Listing] /\ RegistryOK' /\ msg' \in Message \cup {None}
      BY <2>2, <2>3 DEF Listing, ListingWith, Moment, Inv, Typed, RegistryOK
    <2> QED BY <1>2, <1>6, <2>2, <2>3, <2>4, <2>5
  <1> QED BY <1>1, <1>3, <1>4, <1>5, <1>6 DEF Next, Listings

LEMMA Invariant == Spec => []Inv
  BY InvInit, InvStep, PTL DEF Spec

\* Only the listing that takes a step is answered.
LEMMA AnsweringIs ==
    ASSUME Inv, [Next]_vars, NEW v \in Viewer, Answering(v)
    PROVE  list'[v].shown = Through(v) /\ ListingSound(v)
  <1>1. list \in [Viewer -> ListingWith(BOOLEAN)] /\ FALSE \in BOOLEAN
    BY DEF Inv, Typed, Listing, ListingWith, Moment
  <1>2. list'[v] # list[v] /\ list[v].at = "registry" /\ list'[v].at = "done"
    BY DEF Answering
  <1>3. ~UNCHANGED list
    BY <1>2
  <1>4. ~Restart
    BY <1>2 DEF Restart, NotListing
  <1>5. Listings
    BY <1>3, <1>4 DEF Next, vars, liveVars, Receive, Ingest, Lookup, Store, Age
  <1>6. PICK w \in Viewer : \/ ListBegin(w) \/ ListForUser(w) \/ ListRowIDs(w)
                            \/ ListLiveDevices(w) \/ ListEnd(w)
    BY <1>5 DEF Listings
  <1>7. w = v
    <2>1. \A u \in Viewer : u # w => list'[u] = list[u]
      BY <1>1, <1>6, ListBeginIs, ListForUserIs, ListRowIDsIs, ListLiveDevicesIs, ListEndIs
         DEF Inv, Typed
    <2> QED BY <1>2, <2>1
  <1>8. ListLiveDevices(v)
    BY <1>2, <1>6, <1>7 DEF ListBegin, ListForUser, ListRowIDs, ListEnd
  <1> QED BY <1>1, <1>8, ListLiveDevicesIs DEF Inv, Typed

-----------------------------------------------------------------------------
\* The registry, the message being handled and the listings in progress keep
\* their types.
THEOREM LiveTypeCorrect == Spec => []TypeOK
  <1>1. Inv => TypeOK
    BY DEF Inv, Typed, RegistryOK, SeenOK, TypeOK
  <1> QED BY <1>1, Invariant, PTL

\* GET /v1/mqtt/devices with a filter shows only rows that were in an
\* environment while its user was a member of it, at some moment since the
\* listing began; and rows that came into such an environment after the user
\* had left it, while the listing ran.
THEOREM ListingsAreConfined == Spec => ListingConfined
  <1> DEFINE Confined == \A v \in Viewer : Answering(v) /\ list[v].allowed # None =>
                            \A entry \in list'[v].shown : entry[2] \in MayShow(v)
  <1>1. Inv /\ [Next]_vars => Confined
    <2> SUFFICES ASSUME Inv, [Next]_vars, NEW v \in Viewer, Answering(v), list[v].allowed # None,
                        NEW entry \in list'[v].shown
                 PROVE  entry[2] \in MayShow(v)
      OBVIOUS
    <2>1. entry \in Through(v) /\ list[v].allowed \subseteq MayShow(v)
      BY AnsweringIs DEF Answering, ListingSound
    <2>2. entry[2] \in list[v].allowed
      BY <2>1 DEF Through, Passes
    <2> QED BY <2>1, <2>2
  <1> HIDE DEF Confined
  <1>2. Inv /\ [Next]_vars => [Confined]_vars
    BY <1>1
  <1>3. Spec => [][Confined]_vars
    BY <1>2, Invariant, PTL DEF Spec
  <1> QED BY <1>3 DEF ListingConfined, Confined

\* ... and it leaves out nothing that was registered, connected and open to
\* its caller all along.
THEOREM ListingsAreComplete == Spec => ListingComplete
  <1> DEFINE Complete == \A v \in Viewer : Answering(v) => seen[v].must \subseteq list'[v].shown
  <1>1. Inv /\ [Next]_vars => Complete
    <2> SUFFICES ASSUME Inv, [Next]_vars, NEW v \in Viewer, Answering(v), NEW entry \in seen[v].must
                 PROVE  entry \in list'[v].shown
      OBVIOUS
    <2>1. list'[v].shown = Through(v) /\ ListingSound(v) /\ list[v].at = "registry"
      BY AnsweringIs DEF Answering
    <2>2. entry \in Visible(list[v])
      BY <2>1 DEF ListingSound, Running
    <2>3. list[v].allowed # None => entry[2] \in list[v].allowed /\ entry[2] # None
      <3>1. list[v].allowed # None => list[v].user # ApiKey
        BY <2>1 DEF ListingSound
      <3>2. list[v].user # ApiKey => entry[2] \in Row
        BY <2>2, VisibleIs DEF Inv, Typed, CatalogTypeOK
      <3> QED BY <2>1, <3>1, <3>2, ConstantsApart DEF ListingSound
    <2>4. entry \in Through(v)
      BY <2>2, <2>3, VisibleIs DEF Through, Passes
    <2> QED BY <2>1, <2>4
  <1> HIDE DEF Complete
  <1>2. Inv /\ [Next]_vars => [Complete]_vars
    BY <1>1
  <1>3. Spec => [][Complete]_vars
    BY <1>2, Invariant, PTL DEF Spec
  <1> QED BY <1>3 DEF ListingComplete, Complete

\* What JwtSeesOwn (README.md:86) asks for all users is so for one who has a
\* live device of their own all along.
JwtSeesOwnBesideOwn ==
    [][\A v \in Viewer : Answering(v) /\ list[v].user \in User /\ seen[v].must # {} =>
          \A entry \in list'[v].shown : entry[2] \in MayShow(v)]_vars

\* GET /v1/mqtt/devices never shows the devices of others to such a user: the
\* filter cannot be nil.
THEOREM JwtListingsBesideOwn == Spec => JwtSeesOwnBesideOwn
  <1> DEFINE Own == \A v \in Viewer : Answering(v) /\ list[v].user \in User /\ seen[v].must # {} =>
                       \A entry \in list'[v].shown : entry[2] \in MayShow(v)
  <1>1. Inv /\ [Next]_vars => Own
    <2> SUFFICES ASSUME Inv, [Next]_vars, NEW v \in Viewer, Answering(v),
                        list[v].user \in User, seen[v].must # {},
                        NEW entry \in list'[v].shown
                 PROVE  entry[2] \in MayShow(v)
      OBVIOUS
    <2>1. list'[v].shown = Through(v) /\ ListingSound(v) /\ list[v].at = "registry"
      BY AnsweringIs DEF Answering
    <2>2. list[v].allowed # None /\ list[v].allowed \subseteq MayShow(v)
      BY <2>1, LiveConstants DEF ListingSound
    <2> QED BY <2>1, <2>2 DEF Through, Passes
  <1> HIDE DEF Own
  <1>2. Inv /\ [Next]_vars => [Own]_vars
    BY <1>1
  <1>3. Spec => [][Own]_vars
    BY <1>2, Invariant, PTL DEF Spec
  <1> QED BY <1>3 DEF JwtSeesOwnBesideOwn, Own

-----------------------------------------------------------------------------
(* The identity of an entry, step by step. *)

\* A message that is yet to be looked up has no row.
Unlooked == msg # None /\ msg.at = "lookup" => msg.row = None

LEMMA UnlookedStep == Typed /\ Unlooked /\ [Next]_vars => Unlooked'
  <1> SUFFICES ASSUME Typed, Unlooked, [Next]_vars PROVE Unlooked'
    OBVIOUS
  <1>1. CASE UNCHANGED msg
    BY <1>1 DEF Unlooked
  <1>2. CASE \E l \in Label, p \in Presence : Receive(l, p)
    BY <1>2 DEF Receive, Unlooked
  <1>3. CASE Lookup
    <2>1. msg \in Message
      BY <1>3 DEF Lookup, Typed
    <2>2. msg'.at = "store"
      BY <1>3, <2>1 DEF Lookup, Message
    <2> QED BY <2>2 DEF Unlooked
  <1>4. CASE Store \/ Restart
    BY <1>4 DEF Store, Restart, Unlooked
  <1>5. CASE Age
    BY <1>5, msg' = [msg EXCEPT !.fresh = FALSE] => msg'.at = msg.at /\ msg'.row = msg.row
       DEF Age, Unlooked, Typed, Message
  <1> QED
    BY <1>1, <1>2, <1>3, <1>4, <1>5
       DEF Next, vars, liveVars, Ingest, Listings, ListBegin, ListForUser, ListRowIDs,
           ListLiveDevices, ListEnd

\* A message that was looked up and not overtaken names what its device_id
\* belongs to.
Fit == LookedUp /\ ~overtaken => Belongs(msg.label, msg.row)

LEMMA BelongsToOne ==
    ASSUME NEW l, NEW row \in Row \cup {None}, NEW other \in Row \cup {None},
           Belongs(l, row), Belongs(l, other)
    PROVE  row = other
  BY DEF Belongs

LEMMA LookupFits ==
    ASSUME Typed, Unlooked, Faults = {}, Lookup
    PROVE  Belongs(msg.label, msg.row)'
  <1>1. msg \in Message /\ UNCHANGED dev
    BY DEF Lookup, Typed, catVars
  <1>2. ASSUME NEW s \in Row, RowsLabelled(msg.label) = {s},
               msg' = [msg EXCEPT !.at = "store", !.row = s]
        PROVE  Belongs(msg.label, msg.row)'
    <2>1. msg'.label = msg.label /\ msg'.row = s
      BY <1>1, <1>2 DEF Message
    <2> QED BY <1>1, <1>2, <2>1 DEF Belongs, RowsLabelled
  <1>3. ASSUME \A s \in Row : RowsLabelled(msg.label) # {s},
               msg' = [msg EXCEPT !.at = "store"]
        PROVE  Belongs(msg.label, msg.row)'
    <2>1. msg'.label = msg.label /\ msg'.row = None
      BY <1>1, <1>3 DEF Message, Unlooked, Lookup
    <2> QED BY <1>1, <1>3, <2>1, ConstantsApart DEF Belongs, RowsLabelled
  <1>4. RowsLabelled(msg.label) \subseteq Row
    BY DEF RowsLabelled, Typed, CatalogTypeOK
  <1> QED BY <1>2, <1>3, <1>4 DEF Lookup

LEMMA AgeKeepsIdentity ==
    ASSUME Typed, Age
    PROVE  /\ DOMAIN registry' = DOMAIN registry
           /\ \A l \in DOMAIN registry : registry'[l].row = registry[l].row
           /\ UNCHANGED dev
           /\ LookedUp' => LookedUp /\ msg'.label = msg.label /\ msg'.row = msg.row
  <1>1. ASSUME NEW k \in DOMAIN registry, registry' = [registry EXCEPT ![k].fresh = FALSE]
        PROVE  /\ DOMAIN registry' = DOMAIN registry
               /\ \A l \in DOMAIN registry : registry'[l].row = registry[l].row
    BY <1>1 DEF Typed, RegistryOK, Entry
  <1>2. ASSUME msg # None, msg' = [msg EXCEPT !.fresh = FALSE]
        PROVE  msg'.label = msg.label /\ msg'.at = msg.at /\ msg'.row = msg.row
    BY <1>2 DEF Typed, Message
  <1> QED BY <1>1, <1>2 DEF Age, LookedUp, catVars

LEMMA FitStep ==
    ASSUME Faults = {}
    PROVE  Typed /\ Unlooked /\ Fit /\ [IdNext]_idVars => Fit'
  <1> SUFFICES ASSUME Typed, Unlooked, Fit, [IdNext]_idVars, LookedUp', ~overtaken'
               PROVE  Belongs(msg.label, msg.row)'
    BY DEF Fit
  <1>1. CASE UNCHANGED idVars
    BY <1>1 DEF idVars, vars, liveVars, catVars, Fit, LookedUp, Belongs, RowsLabelled
  <1>2. CASE IdNext
    <2>1. CASE UNCHANGED msg
      <3>1. /\ LookedUp /\ ~overtaken
            /\ \A l \in Label, row \in Row \cup {None} :
                  l = msg.label /\ Belongs(l, row) => Belongs(l, row)'
        BY <1>2, <2>1 DEF IdNext, Overtake, LookedUp
      <3>2. msg.label \in Label /\ msg.row \in Row \cup {None}
        BY <3>1 DEF Typed, Message, LookedUp
      <3> QED BY <2>1, <3>1, <3>2 DEF Fit, Belongs
    <2>2. CASE Lookup
      BY <2>2, LookupFits DEF Belongs
    <2>3. CASE Age
      <3>1. LookedUp /\ msg'.label = msg.label /\ msg'.row = msg.row /\ UNCHANGED dev
        BY <2>3, AgeKeepsIdentity
      <3>2. ~overtaken
        BY <1>2, <3>1 DEF IdNext, Overtake
      <3> QED BY <3>1, <3>2 DEF Fit, Belongs, RowsLabelled
    <2>4. CASE (\E l \in Label, p \in Presence : Receive(l, p)) \/ Store \/ Restart
      BY <2>4 DEF Receive, Store, Restart, LookedUp
    <2> QED
      BY <1>2, <2>1, <2>2, <2>3, <2>4
         DEF IdNext, Next, liveVars, Ingest, Listings, ListBegin, ListForUser, ListRowIDs,
             ListLiveDevices, ListEnd
  <1> QED BY <1>1, <1>2

\* Where no query fails and the process does not start again, every message
\* stored makes the entry of its device_id name the only row of that, or none
\* where there is not just one, and the entry then does so until the next one
\* or until that changes; except for a message that was overtaken between its
\* lookup and its store.
THEOREM IdentitiesHold ==
    ASSUME Faults = {}
    PROVE  IdSpec => IdentityHolds
  <1> DEFINE Holds == \A l \in Label, row \in Row \cup {None} :
                         /\ Belongs(l, row)'
                         /\ IF Stored(l) THEN ~overtaken ELSE Right(l, row)
                         => Right(l, row)'
  <1>1. Typed /\ Fit /\ IdNext => Holds
    <2> SUFFICES ASSUME Typed, Fit, IdNext, NEW l \in Label, NEW row \in Row \cup {None},
                        Belongs(l, row)', IF Stored(l) THEN ~overtaken ELSE Right(l, row)
                 PROVE  l \in DOMAIN registry' /\ registry'[l].row = row
      BY DEF Right
    <2>1. CASE Store
      <3> DEFINE n == [row |-> msg.row, presence |-> msg.presence, fresh |-> msg.fresh]
      <3>1. registry' = Put(registry, msg.label, n) /\ n.row = msg.row /\ LookedUp
        BY <2>1 DEF Store, LookedUp
      <3> HIDE DEF n
      <3>2. CASE msg.label = l
        <4>1. Belongs(l, row)
          BY <2>1 DEF Store, catVars, Belongs, RowsLabelled
        <4>2. Belongs(l, msg.row) /\ msg.row \in Row \cup {None}
          BY <2>1, <3>1, <3>2 DEF Stored, Fit, Typed, Message, LookedUp
        <4>3. msg.row = row
          BY <4>1, <4>2, BelongsToOne
        <4> QED BY <3>1, <3>2, <4>3 DEF Put
      <3>3. CASE msg.label # l
        <4>1. Right(l, row)
          BY <3>3 DEF Stored
        <4> QED BY <3>1, <3>3, <4>1 DEF Right, Put
      <3> QED BY <3>2, <3>3
    <2>2. CASE ~Store
      <3>1. l \in DOMAIN registry /\ registry[l].row = row
        BY <2>2 DEF Stored, Right
      <3>2. CASE UNCHANGED registry
        BY <3>1, <3>2
      <3>3. CASE Age
        BY <3>1, <3>3, AgeKeepsIdentity
      <3>4. ~Restart
        BY DEF Restart
      <3> QED
        BY <2>2, <3>2, <3>3, <3>4
           DEF IdNext, Next, liveVars, Receive, Ingest, Lookup, Listings, ListBegin,
               ListForUser, ListRowIDs, ListLiveDevices, ListEnd
    <2> QED BY <2>1, <2>2
  <1> HIDE DEF Holds
  <1>2. Inv => Typed
    BY DEF Inv
  <1>3. IdInit => Init /\ Unlooked /\ Fit
    BY DEF IdInit, Init, Unlooked, Fit, LookedUp
  <1>4. [IdNext]_idVars => [Next]_vars
    BY DEF IdNext, idVars
  <1>5. IdSpec => []Inv /\ []Unlooked
    BY <1>2, <1>3, <1>4, InvInit, InvStep, UnlookedStep, PTL DEF IdSpec
  <1>6. IdSpec => []Fit
    BY <1>2, <1>3, <1>5, FitStep, PTL DEF IdSpec
  <1>7. IdSpec => [][Holds]_idVars
    BY <1>1, <1>2, <1>5, <1>6, PTL DEF IdSpec
  <1> QED BY <1>7 DEF IdentityHolds, Holds

=============================================================================
