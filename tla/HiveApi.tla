------------------------------ MODULE HiveApi ------------------------------
(***************************************************************************)
(* The HTTP API of Flora Hive over the catalogue: the handlers of          *)
(* internal/controllers/routes/hive_routes.go with the services they call. *)
(*                                                                         *)
(* A request is a process (gin runs each in its own goroutine).  Its steps *)
(* are the database calls it makes: nothing but the single statement, or   *)
(* the one transaction of a write, is atomic, and the access check is      *)
(* never in the transaction of the write it licenses.  Flow gives the      *)
(* order of the calls in each handler; an action performs one call for     *)
(* every handler that makes it, and act is the one call that writes.       *)
(*                                                                         *)
(* Any call may fail (the handler answers 500), and a failed Commit leaves *)
(* open whether the write landed.                                          *)
(***************************************************************************)
EXTENDS Catalog

CONSTANTS
    Req,          \* requests that can be in flight at the same time
    ApiKey,       \* the principal of a request with an X-API-Key
    Padded,       \* device_ids with blanks around them: no path names one
    Ops,          \* the operations the clients of this instance use
    ParentEdits   \* what their PATCHes do to parentDeviceId: clear it, set it

ASSUME ApiConstants ==
    /\ ApiKey \notin User \cup {None}
    /\ None \notin User \cup Role
    /\ Padded \subseteq Label \ {Blank}
    /\ ParentEdits \subseteq {"clear", "set"}

VARIABLES
    req,    \* the local variables of each handler
    held    \* roles the user of a request had in its environment since it began

vars == <<catVars, req, held>>

-----------------------------------------------------------------------------
(* Which call follows which, for a user's request and for an API key's.    *)
(* A handler answers after the last call of its flow.                      *)

UserFlow == [
  postEnvironment   |-> [begin |-> "act"],
  getEnvironment    |-> [begin |-> "findEnv", findEnv |-> "access", access |-> "read"],
  patchEnvironment  |-> [begin |-> "access", access |-> "findEnv", findEnv |-> "act",
                         act |-> "reload"],
  deleteEnvironment |-> [begin |-> "access", access |-> "findEnv", findEnv |-> "act"],
  listMembers       |-> [begin |-> "access", access |-> "read"],
  postMember        |-> [begin |-> "access", access |-> "findUser", findUser |-> "act"],
  patchMember       |-> [begin |-> "access", access |-> "act"],
  deleteMember      |-> [begin |-> "access", access |-> "act"],
  listDevices       |-> [begin |-> "access", access |-> "read"],
  postDevice        |-> [begin |-> "access", access |-> "findParent", findParent |-> "act",
                         act |-> "reload"],
  getDevice         |-> [begin |-> "findDevice", findDevice |-> "access"],
  patchDevice       |-> [begin |-> "findDevice", findDevice |-> "access", access |-> "act",
                         act |-> "reload"],
  deleteDevice      |-> [begin |-> "findDevice", findDevice |-> "access", access |-> "act"]]

KeyFlow == [
  getEnvironment    |-> [begin |-> "findEnv"],
  listMembers       |-> [begin |-> "findEnv", findEnv |-> "read"],
  listDevices       |-> [begin |-> "findEnv", findEnv |-> "read"],
  getDevice         |-> [begin |-> "findDevice"]]

AllOps == DOMAIN UserFlow
ReadOps == DOMAIN KeyFlow
WriteOps == AllOps \ ReadOps

ASSUME OpsKnown == Ops \subseteq AllOps

Calls == {"findEnv", "findDevice", "findUser", "findParent", "access", "act", "reload",
          "read"}

Success == [op \in AllOps |->
    CASE op \in {"postEnvironment", "postMember", "postDevice"} -> "201"
      [] op \in {"deleteEnvironment", "deleteMember", "deleteDevice"} -> "204"
      [] OTHER -> "200"]

Statuses == {"200", "201", "204", "400", "403", "404", "500", "panic"}

ASSUME NoneApart == None \notin AllOps \cup Statuses

Idle == [pc |-> "idle", op |-> None, user |-> None, env |-> None, row |-> None,
         arg |-> None, landed |-> FALSE, status |-> None]

Request ==
    [pc : Calls \cup {"idle", "done"}, op : AllOps \cup {None},
     user : User \cup {ApiKey, None}, env : Env \cup {None}, row : Row \cup {None},
     arg : User \cup Row \cup {None}, landed : BOOLEAN, status : Statuses \cup {None}]

-----------------------------------------------------------------------------
At(q, call) == req[q].pc = call
Doing(q, op) == At(q, "act") /\ req[q].op = op

\* Whether another call follows the one request r is at.
FlowOf(r) == IF r.user = ApiKey THEN KeyFlow[r.op] ELSE UserFlow[r.op]

Answered(r, status) == [r EXCEPT !.pc = "done", !.status = status]
Answer(q, status) == req' = [req EXCEPT ![q] = Answered(@, status)]

\* The call of r succeeded: on to the next one, or the answer.
Advanced(r) ==
    IF r.pc \in DOMAIN FlowOf(r) THEN [r EXCEPT !.pc = FlowOf(r)[r.pc]]
                                 ELSE Answered(r, Success[r.op])
Proceed(q, r) == req' = [req EXCEPT ![q] = Advanced(r)]

\* WithTrx after the callback returned nil: Commit succeeds, or it returns
\* an error although the server did commit.
Committed(q, r) ==
    LET landed == [r EXCEPT !.landed = TRUE]
    IN  \/ Proceed(q, landed)
        \/ req' = [req EXCEPT ![q] = Answered(landed, "500")]

\* Faulty variant: an error of the callback is lost in WithTrx.
Swallowed(q, status) == UNCHANGED catVars /\ Proceed(q, req[q])

Refused(q, status) == UNCHANGED catVars /\ Answer(q, status)

-----------------------------------------------------------------------------
(* Arrival: AttachAuthOptional, RequireAuth, and what the handler checks   *)
(* before its first call.  Requests without a principal, and bodies that   *)
(* do not parse, change nothing and are left out.                          *)

Environments == (minted \cap Env) \cup {None}

BeginAsUser(q) ==
    /\ At(q, "idle")
    /\ \E u \in User, op \in Ops, e \in Environments :
         /\ (op = "postEnvironment") = (e = None)
         /\ UpsertFromMe(u)
         /\ req' = [req EXCEPT ![q] = [Idle EXCEPT
                !.pc = UserFlow[op].begin, !.op = op, !.user = u, !.env = e]]

\* UpsertFromMe failed: Abort, then ErrorHandlerMiddleware's JSON(-1) leaves
\* the status at 200.  No handler runs and no principal is set.
BeginFails(q) ==
    /\ At(q, "idle")
    /\ UNCHANGED catVars
    /\ req' = [req EXCEPT ![q] = Answered(Idle, "200")]

\* An API key reads everything and writes nothing here.
BeginAsKey(q) ==
    /\ At(q, "idle")
    /\ UNCHANGED catVars
    /\ \E op \in Ops, e \in Environments :
         LET r == [Idle EXCEPT !.op = op, !.user = ApiKey, !.env = e]
         IN  /\ (op = "postEnvironment") = (e = None)
             /\ req' = [req EXCEPT ![q] =
                    IF op \in ReadOps THEN [r EXCEPT !.pc = KeyFlow[op].begin]
                                      ELSE Answered(r, "403")]

\* The answer has been sent and the goroutine is gone.
Finish(q) ==
    /\ At(q, "done")
    /\ UNCHANGED catVars
    /\ req' = [req EXCEPT ![q] = Idle]

-----------------------------------------------------------------------------
(* Reading calls. *)

\* Faulty variant: a missing membership is only noticed for writers.
ReadsNeedNoMembership(q) ==
    /\ At(q, "access")
    /\ UNCHANGED catVars
    /\ LET role == GetMembership(req[q].env, req[q].user)
       IN  IF req[q].op \in WriteOps => CanWriteRole(role)
             THEN Proceed(q, req[q])
             ELSE Answer(q, "403")

\* Faulty variant: GetMembership without its user_id condition.
SomebodyHasAccess(q) ==
    /\ At(q, "access")
    /\ UNCHANGED catVars
    /\ \E u \in User :
         IF CanWriteRole(GetMembership(req[q].env, u))
           THEN Proceed(q, req[q])
           ELSE Answer(q, "403")

RequireEnvAccess(q) ==
    /\ At(q, "access")
    /\ UNCHANGED catVars
    /\ LET role == GetMembership(req[q].env, req[q].user)
       IN  IF CanReadRole(role) /\ (req[q].op \in WriteOps => CanWriteRole(role))
             THEN Proceed(q, req[q])
             ELSE Answer(q, "403")

FindEnvironment(q) ==
    /\ At(q, "findEnv")
    /\ UNCHANGED catVars
    /\ IF req[q].env \in envs THEN Proceed(q, req[q]) ELSE Answer(q, "404")

\* GetByEnvAndDeviceID with the device_id of the path, blanks trimmed.
FindDevice(q) ==
    /\ At(q, "findDevice")
    /\ UNCHANGED catVars
    /\ \E l \in Label \ Padded :
         LET rows == RowsIn(req[q].env) \cap RowsLabelled(l)
         IN  \/ rows = {} /\ Answer(q, "404")
             \/ \E r \in rows : Proceed(q, [req[q] EXCEPT !.row = r])

\* postMember: the user to add must have called the API once.
FindUser(q) ==
    /\ At(q, "findUser")
    /\ UNCHANGED catVars
    /\ \/ \E u \in users : Proceed(q, [req[q] EXCEPT !.arg = u])
       \/ User \ users # {} /\ Answer(q, "404")

\* Faulty variant: the parent must exist, in whatever environment.
FindParentAnywhere(q) ==
    /\ At(q, "findParent")
    /\ UNCHANGED catVars
    /\ \E p \in Row \cup {None} :
         IF p = None \/ p \in DOMAIN dev
           THEN Proceed(q, [req[q] EXCEPT !.arg = p])
           ELSE Answer(q, "400")

\* CreateDevice: no parent, or one found in the environment of the path.
FindParent(q) ==
    /\ At(q, "findParent")
    /\ UNCHANGED catVars
    /\ \E p \in Row \cup {None} :
         IF p = None \/ p \in RowsIn(req[q].env)
           THEN Proceed(q, [req[q] EXCEPT !.arg = p])
           ELSE Answer(q, "400")

\* The content of a list, or the role getEnvironment shows.
Read(q) ==
    /\ At(q, "read")
    /\ UNCHANGED catVars
    /\ Proceed(q, req[q])

StillThere(r) ==
    IF r.op = "patchEnvironment" THEN r.env \in envs ELSE r.row \in DOMAIN dev

\* The row is read back after the write.  Two handlers dereference it
\* whether or not it is still there.
Reload(q) ==
    /\ At(q, "reload")
    /\ UNCHANGED catVars
    /\ IF StillThere(req[q])
         THEN Proceed(q, req[q])
         ELSE Answer(q, IF req[q].op = "patchDevice" THEN "404" ELSE "panic")

\* The call in progress returned an error; a write was rolled back.
CallFails(q) ==
    /\ req[q].pc \in Calls
    /\ ~(At(q, "read") /\ req[q].op = "getEnvironment")   \* that error is dropped
    /\ Refused(q, "500")

-----------------------------------------------------------------------------
(* Writing calls: one transaction each. *)

PostEnvironment(q) ==
    /\ Doing(q, "postEnvironment")
    /\ \E e \in Env : CreateEnvironment(e, req[q].user)
    /\ Committed(q, req[q])

\* name and description only: nothing the model keeps.
PatchEnvironment(q) ==
    /\ Doing(q, "patchEnvironment")
    /\ UNCHANGED catVars
    /\ Committed(q, req[q])

DeleteEnvironmentOf(q) ==
    /\ Doing(q, "deleteEnvironment")
    /\ DeleteEnvironment(req[q].env)
    /\ Committed(q, req[q])

\* Faulty variant: the role in the body is stored unvalidated.
WriteAnyRole(q, u) ==
    /\ UpsertMember(req[q].env, u, "owner")
    /\ Committed(q, req[q])

\* A foreign key refuses an environment or a user that is not there.
WriteMember(q, u) ==
    \/ /\ \E role \in Role : UpsertMember(req[q].env, u, role)
       /\ Committed(q, req[q])
    \/ /\ req[q].env \notin envs \/ u \notin users
       /\ Refused(q, "500")

PostMember(q) == Doing(q, "postMember") /\ WriteMember(q, req[q].arg)

PatchMember(q) == Doing(q, "patchMember") /\ \E u \in User : WriteMember(q, u)

DeleteMember(q) ==
    /\ Doing(q, "deleteMember")
    /\ \E u \in User : RemoveMember(req[q].env, u)
    /\ Committed(q, req[q])

PostDevice(q) ==
    /\ Doing(q, "postDevice")
    /\ \E r \in Row \ minted, l \in Label \ {Blank} :
         \/ /\ InsertDevice(r, [env |-> req[q].env, label |-> l, parent |-> req[q].arg])
            /\ Committed(q, [req[q] EXCEPT !.row = r])
         \/ /\ req[q].env \notin envs \/ ~LabelFree(r, req[q].env, l)
            /\ Refused(q, "500")

\* What a PATCH can make of the parent of row r; only postDevice checks it.
NewParents(r) ==
    {dev[r].parent}
      \cup (IF "clear" \in ParentEdits THEN {None} ELSE {})
      \cup (IF "set" \in ParentEdits THEN Parents ELSE {})

PatchDevice(q) ==
    /\ Doing(q, "patchDevice")
    /\ LET r == req[q].row
       IN  \/ /\ r \notin DOMAIN dev      \* UPDATE of no row is no error
              /\ UNCHANGED catVars
              /\ Committed(q, req[q])
           \/ /\ r \in DOMAIN dev
              /\ \E l \in Label, p \in NewParents(r) :
                   \/ UpdateDevice(r, l, p) /\ Committed(q, req[q])
                   \/ ~LabelFree(r, dev[r].env, l) /\ Refused(q, "500")

DeleteDeviceOf(q) ==
    /\ Doing(q, "deleteDevice")
    /\ DeleteDevice(req[q].row)
    /\ Committed(q, req[q])

-----------------------------------------------------------------------------
Init ==
    /\ CatalogInit
    /\ req = [q \in Req |-> Idle]
    /\ held = [q \in Req |-> {}]

Arrive(q) == BeginAsUser(q) \/ BeginAsKey(q) \/ BeginFails(q) \/ Finish(q)

Look(q) ==
    \/ RequireEnvAccess(q) \/ FindEnvironment(q) \/ FindDevice(q)
    \/ FindUser(q) \/ FindParent(q) \/ Read(q) \/ Reload(q) \/ CallFails(q)

Write(q) ==
    \/ PostEnvironment(q) \/ PatchEnvironment(q) \/ DeleteEnvironmentOf(q)
    \/ PostMember(q) \/ PatchMember(q) \/ DeleteMember(q)
    \/ PostDevice(q) \/ PatchDevice(q) \/ DeleteDeviceOf(q)

RoleOf(r) == {GetMembership(r.env, r.user)} \ {None}

\* Observation only: no action reads held.
Watch ==
    held' = [q \in Req |-> IF req'[q].pc = "idle" THEN {}
                           ELSE held[q] \cup RoleOf(req[q])']

Next ==
    /\ \E q \in Req : Arrive(q) \/ Look(q) \/ Write(q)
    /\ Watch

Spec == Init /\ [][Next]_vars

-----------------------------------------------------------------------------
TypeOK ==
    /\ CatalogTypeOK
    /\ req \in [Req -> Request]
    /\ held \in [Req -> SUBSET Role]

(***************************************************************************)
(* Every environment is an object guarded by its editors: the API          *)
(* implements Tenancy.  The check of RequireEnvAccess and the write it     *)
(* licenses are far apart, so this is about every interleaving of them     *)
(* with other requests.                                                    *)
(***************************************************************************)
LifeOf(e) ==
    CASE e \in envs -> "live"
      [] e \in minted \ envs -> "dead"
      [] OTHER -> "unborn"

RolesIn(e) == [u \in User |-> GetMembership(e, u)]
ContentOf(e) == [r \in Row |-> IF r \in RowsIn(e) THEN dev[r] ELSE None]
LicenceOf(q) == IF "editor" \in held[q] THEN {req[q].env} ELSE {}

T == INSTANCE Tenancy WITH
        life <- [e \in Env |-> LifeOf(e)],
        role <- [e \in Env |-> RolesIn(e)],
        content <- [e \in Env |-> ContentOf(e)],
        caller <- [q \in Req |-> req[q].user],
        licence <- [q \in Req |-> LicenceOf(q)],
        stage <- [q \in Req |-> req[q].pc]

EnvironmentsGuarded == T!Spec

\* An environment without an editor, once the requests that began when it
\* had one are over, is out of everybody's reach for ever: deleteMember and
\* patchMember let the last editor leave, and nothing can appoint another.
OrphansAreFrozen == T!OrphansAreFrozen

\* All the handlers together do to the catalogue is one statement at a time.
ImplementsCatalog == CatalogSpec

\* A user's request that is refused wrote nothing; one that succeeds as a
\* write has committed; the 404 patchDevice gives after its write and the
\* panic of a handler (environmentPublic or devicePublic of nil) mean that
\* what it had just written is deleted already.
AnswersTellTheTruth ==
    \A q \in Req :
        LET r == req[q]
        IN  /\ r.status \in {"400", "403"} => ~r.landed
            /\ r.status \in {"201", "204"} => r.landed
            /\ r.status = "200" /\ r.op \in WriteOps => r.landed
            /\ r.status = "404" /\ r.landed =>
                  r.op = "patchDevice" /\ r.row \notin DOMAIN dev
            /\ r.status = "panic" =>
                  \/ r.op = "patchEnvironment" /\ r.env \notin envs
                  \/ r.op = "postDevice" /\ r.row \notin DOMAIN dev

\* Nothing of an environment is shown to, or done for, a user that was not a
\* member of it at some moment of the request.
MembersOnly ==
    \A q \in Req : req[q].user \in User /\ req[q].env # None =>
        (req[q].status \in {"200", "201", "204"} => held[q] # {})

\* ErrInvalidParent, device_service.go:15: a parent that exists is a device
\* of the same environment...
ParentInEnvironment ==
    \A r \in DOMAIN dev : dev[r].parent \in DOMAIN dev =>
        dev[dev[r].parent].env = dev[r].env

\* ... and the devices of an environment form a forest: no set of devices
\* has all its parents inside itself.  Neither survives a PATCH that sets a
\* parent.
ParentForest ==
    /\ ParentInEnvironment
    /\ \A S \in SUBSET DOMAIN dev : S # {} => \E r \in S : dev[r].parent \notin S

\* attach_auth.go:60: RequireAuth rejects requests with no principal.
NoPrincipalNoSuccess ==
    \A q \in Req : req[q].status \in {"200", "201", "204"} => req[q].user # None

=============================================================================
