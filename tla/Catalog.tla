------------------------------- MODULE Catalog -------------------------------
(***************************************************************************)
(* The PostgreSQL catalogue of Flora Hive: the tables of                   *)
(* migrations/000001_hive_schema.up.sql and the repository methods that    *)
(* change them, each a single atomic SQL statement or transaction.         *)
(*                                                                         *)
(*   hive_users          users   the synced uServer identities             *)
(*   environments        envs    ids of the existing rows                  *)
(*   environment_members member  (environment, user) -> role               *)
(*   devices             dev     row id -> environment, device_id, parent  *)
(*                                                                         *)
(* Names, descriptions, device types and time stamps are left out: no      *)
(* statement of the program branches on them.  An operator is the effect   *)
(* of the statement when PostgreSQL accepts it; its guard is the           *)
(* constraint under which PostgreSQL does.                                 *)
(***************************************************************************)
EXTENDS Functions

CONSTANTS
    User,    \* uServer-Auth identities (auth_uuid; hive_users.id is in bijection)
    Env,     \* ids uuid.New() can give to environments
    Row,     \* ids uuid.New() can give to device rows
    Label,   \* values of devices.device_id, the logical id used in topics
    Blank,   \* the empty device_id
    None     \* SQL NULL, and a Go nil result

ASSUME ConstantsApart ==
    /\ None \notin User /\ None \notin Env /\ None \notin Row
    /\ Env \cap Row = {}   \* uuid.New() never gives the same id twice
    /\ None \notin {"viewer", "editor"}

VARIABLES
    users,
    envs,
    member,
    dev,
    minted   \* ids ever returned by uuid.New(), which never repeats one

catVars == <<users, envs, member, dev, minted>>

Role == {"viewer", "editor"}
Device == [env : Env, label : Label, parent : Row \cup {None}]

-----------------------------------------------------------------------------
(* Tables as functions with a varying domain. *)

Put(f, x, v) == [y \in DOMAIN f \cup {x} |-> IF y = x THEN v ELSE f[y]]
Drop(f, S) == Restrict(f, DOMAIN f \ S)

(* Queries. *)

GetMembership(e, u) ==
    IF <<e, u>> \in DOMAIN member THEN member[<<e, u>>] ELSE None

RowsIn(e) == {r \in DOMAIN dev : dev[r].env = e}
RowsLabelled(l) == {r \in DOMAIN dev : dev[r].label = l}

\* devices_env_device_unique admits row r at (e, l).
LabelFree(r, e, l) == RowsIn(e) \cap RowsLabelled(l) \subseteq {r}

\* Roles (rbac.go).
CanReadRole(role) == role \in {"viewer", "editor"}
CanWriteRoleOfMember(role) == CanReadRole(role)   \* faulty variant
CanWriteRole(role) == role = "editor"

-----------------------------------------------------------------------------
(* Statements. *)

UpsertFromMe(u) ==
    /\ users' = users \cup {u}
    /\ UNCHANGED <<envs, member, dev, minted>>

\* The transaction of EnvironmentService.Create: the row and its first editor.
CreateEnvironment(e, u) ==
    /\ e \notin minted
    /\ u \in users
    /\ envs' = envs \cup {e}
    /\ member' = Put(member, <<e, u>>, "editor")
    /\ minted' = minted \cup {e}
    /\ UNCHANGED <<users, dev>>

\* Faulty variant: devices_environment_id_fkey without ON DELETE CASCADE.
DeleteEnvironmentKeepingDevices(e) ==
    /\ envs' = envs \ {e}
    /\ member' = Drop(member, {e} \X User)
    /\ UNCHANGED <<users, dev, minted>>

\* ON DELETE CASCADE takes the members and the devices along.
DeleteEnvironment(e) ==
    /\ envs' = envs \ {e}
    /\ member' = Drop(member, {e} \X User)
    /\ dev' = Drop(dev, RowsIn(e))
    /\ UNCHANGED <<users, minted>>

UpsertMember(e, u, role) ==
    /\ e \in envs
    /\ u \in users
    /\ member' = Put(member, <<e, u>>, role)
    /\ UNCHANGED <<users, envs, dev, minted>>

RemoveMember(e, u) ==
    /\ member' = Drop(member, {<<e, u>>})
    /\ UNCHANGED <<users, envs, dev, minted>>

InsertDevice(r, d) ==
    /\ r \notin minted
    /\ d.env \in envs
    /\ LabelFree(r, d.env, d.label)
    /\ dev' = Put(dev, r, d)
    /\ minted' = minted \cup {r}
    /\ UNCHANGED <<users, envs, member>>

\* parent_device_id has no foreign key: any text is accepted.
UpdateDevice(r, l, p) ==
    /\ r \in DOMAIN dev
    /\ LabelFree(r, dev[r].env, l)
    /\ dev' = Put(dev, r, [dev[r] EXCEPT !.label = l, !.parent = p])
    /\ UNCHANGED <<users, envs, member, minted>>

\* Children keep the id of the deleted parent.
DeleteDevice(r) ==
    /\ dev' = Drop(dev, {r})
    /\ UNCHANGED <<users, envs, member, minted>>

-----------------------------------------------------------------------------
(***************************************************************************)
(* The catalogue on its own: any statement at any time.  This is all the   *)
(* HTTP API ever does to it (HiveApiProofs shows it), and it is the        *)
(* environment in which the MQTT side is checked (module LiveDevices).     *)
(***************************************************************************)

CatalogInit ==
    /\ users = {}
    /\ envs = {}
    /\ member = [x \in {} |-> None]
    /\ dev = [x \in {} |-> None]
    /\ minted = {}

\* Ids a client can have learnt, and so can send as a parent.
Parents == (minted \cap Row) \cup {None}

CatalogNext ==
    \/ \E u \in User : UpsertFromMe(u)
    \/ \E e \in Env, u \in User : CreateEnvironment(e, u)
    \/ \E e \in Env : DeleteEnvironment(e)
    \/ \E e \in Env, u \in User, role \in Role : UpsertMember(e, u, role)
    \/ \E e \in Env, u \in User : RemoveMember(e, u)
    \/ \E r \in Row, e \in Env, l \in Label, p \in Parents :
          InsertDevice(r, [env |-> e, label |-> l, parent |-> p])
    \/ \E r \in Row, l \in Label, p \in Parents : UpdateDevice(r, l, p)
    \/ \E r \in Row : DeleteDevice(r)

CatalogSpec == CatalogInit /\ [][CatalogNext]_catVars

-----------------------------------------------------------------------------
CatalogTypeOK ==
    /\ users \subseteq User
    /\ envs \subseteq Env
    /\ minted \subseteq Env \cup Row
    /\ DOMAIN member \subseteq Env \X User
    /\ member \in [DOMAIN member -> Role]
    /\ DOMAIN dev \subseteq Row
    /\ dev \in [DOMAIN dev -> Device]

\* Ids name one thing for ever: what exists, or is pointed at, was minted.
IdsMinted ==
    /\ envs \subseteq minted
    /\ DOMAIN dev \subseteq minted
    /\ \A r \in DOMAIN dev : dev[r].parent \in Parents

\* A membership or a device of an environment lives inside it.
NothingOutlivesItsEnvironment ==
    /\ \A k \in DOMAIN member : k[1] \in envs /\ k[2] \in users
    /\ \A r \in DOMAIN dev : dev[r].env \in envs

\* A path /environments/e/devices/l names at most one row.
PathsUnique ==
    \A r, s \in DOMAIN dev :
        dev[r].env = dev[s].env /\ dev[r].label = dev[s].label => r = s

(***************************************************************************)
(* The integrity of the catalogue: every id still names what it was given  *)
(* to, deleting an environment leaves nothing of it behind (and nothing    *)
(* can arrive in it later), and a device path is never ambiguous.          *)
(***************************************************************************)
CatalogIntegrity ==
    /\ IdsMinted
    /\ NothingOutlivesItsEnvironment
    /\ PathsUnique

=============================================================================
