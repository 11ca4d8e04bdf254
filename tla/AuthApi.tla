------------------------------- MODULE AuthApi -------------------------------
(***************************************************************************)
(* The /v1/auth handlers (hive_routes.go) with the uServer-Auth client     *)
(* below them (userver/client.go), over the life of the container          *)
(* (BootstrapAuth): the server knows the system token it has started with. *)
(*                                                                         *)
(* A request has its bearer token looked at first, if it has one           *)
(* (attach_auth.go), and then makes the one call its handler is for.       *)
(* uServer-Auth keeps the sessions, and ends them for reasons of its own;  *)
(* Hive keeps none. A session is known by its access token and its refresh *)
(* token. An X-API-Key comes before any token.  Storing the user does not  *)
(* fail here (see HiveApi).                                                *)
(***************************************************************************)
EXTENDS BootstrapAuth

CONSTANTS
    Session,   \* sessions uServer-Auth may open
    Request    \* requests in flight

ASSUME SessionConstants == None \notin Session

VARIABLES
    owner,     \* the user of each session, None before it is opened
    live,      \* the sessions that are not over
    hive,      \* users with a row in hive_users
    req

apiVars == <<owner, live, hive, req>>
vars == <<bootVars, apiVars>>

Public == {"login", "register", "refresh"}
Private == {"logout", "me", "password"}

Idle == [op |-> "none", at |-> "idle", user |-> Blank, session |-> None,
         told |-> "none", alive |-> FALSE]

Reply == {"ok", "bad request", "refused", "unauthorized", "bad gateway", "unavailable", "internal error"}

Opened == {s \in Session : owner[s] # None}

\* UserverConfigured, as far as it is not the same in every run.
Configured == run.token # Blank

-----------------------------------------------------------------------------
\* Request r is answered.
Answer(r, told) == req' = [req EXCEPT ![r].at = "answered", ![r].told = told]

Step(r, at) == req' = [req EXCEPT ![r].at = at]

Begin(r) ==
    /\ pc = "serve"
    /\ req[r].at \in {"idle", "answered"}
    /\ \/ \E op \in {"login", "register"}, u \in Own, s \in Opened \cup {None} :
             req' = [req EXCEPT ![r] = [Idle EXCEPT !.op = op, !.user = u, !.session = s,
                                        !.at = IF s = None THEN "configured" ELSE "attach"]]
       \/ \E s \in Opened, at \in {"configured", "attach"} :
             req' = [req EXCEPT ![r] = [Idle EXCEPT !.op = "refresh", !.at = at,
                                        !.session = s, !.alive = s \in live]]
       \/ \E op \in Private, s \in Opened :
             req' = [req EXCEPT ![r] = [Idle EXCEPT !.op = op, !.at = "attach",
                                        !.session = s, !.alive = s \in live]]
    /\ UNCHANGED <<bootVars, owner, live, hive>>

\* RequireAuth lets an API key through, but only getMe has an answer for it;
\* without a key the request is nobody's.
BeginWithoutToken(r) ==
    /\ pc = "serve"
    /\ req[r].at \in {"idle", "answered"}
    /\ \E op \in Private :
         \E told \in {"unauthorized", IF op = "me" THEN "ok" ELSE "bad request"} :
            req' = [req EXCEPT ![r] = [Idle EXCEPT !.op = op, !.at = "answered", !.told = told]]
    /\ UNCHANGED <<bootVars, owner, live, hive>>

\* The handlers that need no principal (the token may be one, all the same).
CheckConfigured(r) ==
    /\ req[r].at = "configured"
    /\ IF Configured THEN Step(r, "call") ELSE Answer(r, "unavailable")
    /\ UNCHANGED <<bootVars, owner, live, hive>>

\* RequireAuth, where there is one, ends a request without a principal.
NoPrincipal(r) ==
    IF req[r].op \in Public THEN Step(r, "configured") ELSE Answer(r, "unauthorized")

\* Faulty variant: a user that is known need not be asked for again.
AttachKnown(r) ==
    /\ req[r].at = "attach"
    /\ IF Configured /\ (req[r].session \in live \/ owner[req[r].session] \in hive)
         THEN Step(r, "upsert") ELSE NoPrincipal(r)
    /\ UNCHANGED <<bootVars, owner, live, hive>>

\* Faulty variant: the user is not stored when its token is looked at.
AttachUnstored(r) ==
    /\ req[r].at = "attach"
    /\ IF Configured /\ req[r].session \in live
         THEN Step(r, IF req[r].op \in Public THEN "configured" ELSE "call")
         ELSE NoPrincipal(r)
    /\ UNCHANGED <<bootVars, owner, live, hive>>

\* AttachAuthOptional: Me tells whose session the bearer token is of.
Attach(r) ==
    /\ req[r].at = "attach"
    /\ IF Configured /\ req[r].session \in live
         THEN Step(r, "upsert") ELSE NoPrincipal(r)
    /\ UNCHANGED <<bootVars, owner, live, hive>>

\* Without an answer there is no principal.
AttachLost(r) ==
    /\ req[r].at = "attach"
    /\ NoPrincipal(r)
    /\ UNCHANGED <<bootVars, owner, live, hive>>

UpsertFromMe(r) ==
    /\ req[r].at = "upsert"
    /\ hive' = hive \cup {owner[req[r].session]}
    /\ Step(r, IF req[r].op \in Public THEN "configured" ELSE "call")
    /\ UNCHANGED <<bootVars, owner, live>>

-----------------------------------------------------------------------------
(* uServer-Auth.  Carried(r) is what the call of r does there if it is      *)
(* granted; each operation has the states in which it may be.               *)

OpenSession(u) ==
    \E s \in Session \ Opened :
        owner' = [owner EXCEPT ![s] = u] /\ live' = live \cup {s}

Carried(r) ==
    LET t == req[r]
    IN  \/ /\ t.op = "login" /\ run.token = system /\ t.user \in accounts
           /\ OpenSession(t.user)
           /\ UNCHANGED accounts
        \/ /\ t.op = "register" /\ run.token = system /\ t.user \notin accounts
           /\ OpenSession(t.user)
           /\ accounts' = accounts \cup {t.user}
        \/ /\ t.op \in {"refresh", "me", "password"} /\ t.session \in live
           /\ UNCHANGED <<owner, live, accounts>>
        \/ /\ t.op = "logout" /\ t.session \in live
           /\ live' = live \ {t.session}
           /\ UNCHANGED <<owner, accounts>>

\* A session expires, or ends from elsewhere.
SessionEnds(s) ==
    /\ s \in live
    /\ live' = live \ {s}
    /\ UNCHANGED <<bootVars, owner, hive, req>>

-----------------------------------------------------------------------------
\* logout drops what the call has come to.
Told(r, reply) == IF req[r].op = "logout" THEN "ok" ELSE reply

\* uServer-Auth answers 2xx.
Granted(r) ==
    /\ req[r].at = "call"
    /\ Carried(r)
    /\ IF req[r].op = "me" THEN Step(r, "sync") ELSE Answer(r, "ok")
    /\ UNCHANGED <<conf, file, system, pc, run, faults, hive>>

\* Any other status is passed on; or the call or its answer is lost, or the
\* answer cannot be decoded.  None of these tells whether uServer-Auth did what
\* was asked: the status may be a 5xx of a call that took effect.
NotGranted(r) ==
    /\ req[r].at = "call"
    /\ Carried(r) \/ UNCHANGED <<owner, live, accounts>>
    /\ \E reply \in {"refused", "bad gateway"} : Answer(r, Told(r, reply))
    /\ UNCHANGED <<conf, file, system, pc, run, faults, hive>>

\* getMe stores the user again and reads it back.
SyncMe(r) ==
    /\ req[r].at = "sync"
    /\ \/ /\ hive' = hive \cup {owner[req[r].session]}
          /\ Answer(r, "ok")
       \/ UNCHANGED hive /\ Answer(r, "internal error")
    /\ UNCHANGED <<bootVars, owner, live>>

-----------------------------------------------------------------------------
Init ==
    /\ BootInit
    /\ owner = [s \in Session |-> None]
    /\ live = {}
    /\ hive = {}
    /\ req = [r \in Request |-> Idle]

\* Requests in flight die with the server.
Boot ==
    /\ BootNext
    /\ req' = IF pc = "serve" THEN [r \in Request |-> Idle] ELSE req
    /\ UNCHANGED <<owner, live, hive>>

Handle(r) ==
    \/ Begin(r) \/ BeginWithoutToken(r) \/ CheckConfigured(r)
    \/ Attach(r) \/ AttachLost(r) \/ UpsertFromMe(r)
    \/ Granted(r) \/ NotGranted(r) \/ SyncMe(r)

Next == Boot \/ (\E r \in Request : Handle(r)) \/ \E s \in Session : SessionEnds(s)

Spec == Init /\ [][Next]_vars

LiveSpec == Spec /\ BootFairness

-----------------------------------------------------------------------------
TypeOK ==
    /\ BootTypeOK
    /\ owner \in [Session -> Own \cup {None}]
    /\ live \subseteq Opened
    /\ hive \subseteq Own
    /\ req \in [Request -> [op : Public \cup Private \cup {"none"},
                            at : {"idle", "configured", "attach", "upsert", "call", "sync", "answered"},
                            user : Own \cup {Blank},
                            session : Session \cup {None},
                            told : Reply \cup {"none"},
                            alive : BOOLEAN]]
    /\ \A r \in Request :
          /\ req[r].op = "refresh" => req[r].session \in Opened
          /\ req[r].op \in Private /\ req[r].at # "answered" => req[r].session \in Opened

\* hive_routes.go:673 sends a user who is not known to GET /v1/auth/me: whoever
\* was served there, or by another handler that wants a session, has a row in
\* hive_users from then on.  And the table has rows only of users that
\* uServer-Auth has an account for, whatever calls were lost or refused, and
\* however often the server was started again.
ServedAreKnown ==
    /\ \A r \in Request :
          req[r].told = "ok" /\ req[r].op \in Private /\ req[r].session # None =>
              owner[req[r].session] \in hive
    /\ hive \subseteq accounts

\* attach_auth.go:31: Hive keeps no session of its own, so one that was over
\* before a request began gets nothing out of it.
OverIsOver ==
    \A r \in Request :
        /\ req[r].told = "ok" /\ req[r].session # None
        /\ req[r].op \notin {"login", "register"}
        => req[r].alive

=============================================================================
