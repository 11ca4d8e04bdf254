--------------------------- MODULE AuthApiProofs ---------------------------
(***************************************************************************)
(* The /v1/auth handlers over the life of the container, for any number of *)
(* sessions and requests in flight, and env files of any length.           *)
(***************************************************************************)
EXTENDS AuthApi, BootstrapProofs

At == {"idle", "configured", "attach", "upsert", "call", "sync", "answered"}

\* The requests, with flags in B.  (The SMT backend keeps formulas apart from
\* values, so what is to be proved of a flag is proved for any set B.)
ReqWith(B) ==
    [op : Public \cup Private \cup {"none"}, at : At, user : Own \cup {Blank},
     session : Session \cup {None}, told : Reply \cup {"none"}, alive : B]

Req == ReqWith(BOOLEAN)

\* The sessions whose users have a row.
Known == {s \in Opened : owner[s] \in hive}

\* What holds of a request t, when the sessions in opened have been opened,
\* those in alive are not over yet, and the users of those in known have a row:
\* a session was opened before a request could name it, one that is over stays
\* over, and a user that was stored stays stored.
SoundIn(t, opened, alive, known) ==
    /\ \/ t.op = "refresh" \/ t.at \in {"attach", "upsert", "sync"}
       \/ t.op \in Private /\ (t.at # "answered" \/ t.session # None)
       => t.session \in opened
    /\ t.op \in {"login", "register"} => t.user \in Own
    /\ t.op = "none" => t.at = "idle" /\ t.told = "none"
    /\ t.at = "sync" => t.op = "me"
    /\ t.at = "configured" => t.op \in Public
    /\ t.op \in Private \cup {"refresh"} /\ t.session \in alive => t.alive
    /\ t.op \in Private /\ t.at \in {"upsert", "call", "sync"} => t.alive
    /\ t.op \in Private \cup {"refresh"} /\ t.told = "ok" /\ t.session # None => t.alive
    /\ t.op \in Private /\ t.session # None /\ (t.at \in {"call", "sync"} \/ t.told = "ok")
       => t.session \in known

RequestsSound == \A r \in Request : SoundIn(req[r], Opened, live, Known)

Sessions ==
    /\ owner \in [Session -> Own \cup {None}]
    /\ live \subseteq Opened
    /\ hive \subseteq Own
    /\ \A s \in Opened : owner[s] \in accounts
    /\ hive \subseteq accounts

Inv == BootInv /\ Sessions /\ req \in [Request -> Req] /\ RequestsSound

-----------------------------------------------------------------------------
(* What a step does to a request. *)

LEMMA UpdateIs ==
    ASSUME NEW B, NEW f \in [Request -> ReqWith(B)], NEW r \in Request,
           NEW t \in ReqWith(B), NEW g, g = [f EXCEPT ![r] = t]
    PROVE  /\ g \in [Request -> ReqWith(B)]
           /\ g[r] = t
           /\ \A q \in Request : q # r => g[q] = f[q]
  OBVIOUS

\* Request r goes on to at.
LEMMA StepIs ==
    ASSUME NEW B, req \in [Request -> ReqWith(B)], NEW r \in Request, NEW at \in At, Step(r, at)
    PROVE  /\ req' \in [Request -> ReqWith(B)]
           /\ \A q \in Request : q # r => req'[q] = req[q]
           /\ req'[r].at = at /\ req'[r].told = req[r].told
           /\ req'[r].op = req[r].op /\ req'[r].user = req[r].user
           /\ req'[r].session = req[r].session /\ req'[r].alive = req[r].alive
  <1> DEFINE n == [req[r] EXCEPT !.at = at]
  <1>1. req' = [req EXCEPT ![r] = n]
    BY DEF Step
  <1>2. /\ n \in ReqWith(B)
        /\ n.at = at /\ n.told = req[r].told
        /\ n.op = req[r].op /\ n.user = req[r].user
        /\ n.session = req[r].session /\ n.alive = req[r].alive
    BY DEF ReqWith
  <1> HIDE DEF n
  <1> QED BY <1>1, <1>2, UpdateIs

\* Request r is answered.
LEMMA AnswerIs ==
    ASSUME NEW B, req \in [Request -> ReqWith(B)], NEW r \in Request,
           NEW told \in Reply, Answer(r, told)
    PROVE  /\ req' \in [Request -> ReqWith(B)]
           /\ \A q \in Request : q # r => req'[q] = req[q]
           /\ req'[r].at = "answered" /\ req'[r].told = told
           /\ req'[r].op = req[r].op /\ req'[r].user = req[r].user
           /\ req'[r].session = req[r].session /\ req'[r].alive = req[r].alive
  <1> DEFINE n == [req[r] EXCEPT !.at = "answered", !.told = told]
  <1>1. req' = [req EXCEPT ![r] = n]
    BY DEF Answer
  <1>2. /\ n \in ReqWith(B)
        /\ n.at = "answered" /\ n.told = told
        /\ n.op = req[r].op /\ n.user = req[r].user
        /\ n.session = req[r].session /\ n.alive = req[r].alive
    BY DEF ReqWith, At
  <1> HIDE DEF n
  <1> QED BY <1>1, <1>2, UpdateIs

LEMMA IdleType == Idle \in Req /\ Idle.told = "none"
  BY DEF Idle, Req, ReqWith, At

\* Request r begins.  A session it names was opened before, and alive tells
\* whether it is still.
LEMMA BeginIs ==
    ASSUME NEW r \in Request, req \in [Request -> Req], Begin(r)
    PROVE  /\ req' \in [Request -> Req]
           /\ \A q \in Request : q # r => req'[q] = req[q]
           /\ req'[r].at \in {"configured", "attach"} /\ req'[r].told = "none"
           /\ req'[r].op \in Public \cup Private
           /\ req'[r].at = "configured" => req'[r].op \in Public
           /\ req'[r].op \in {"login", "register"} => req'[r].user \in Own
           /\ req'[r].at = "attach" \/ req'[r].op \notin {"login", "register"} =>
                 req'[r].session \in Opened
           /\ req'[r].op \notin {"login", "register"} =>
                 (req'[r].session \in live => req'[r].alive)
  <1> DEFINE Fits(n) ==
        /\ n \in Req
        /\ n.at \in {"configured", "attach"} /\ n.told = "none"
        /\ n.op \in Public \cup Private
        /\ n.at = "configured" => n.op \in Public
        /\ n.op \in {"login", "register"} => n.user \in Own
        /\ n.at = "attach" \/ n.op \notin {"login", "register"} => n.session \in Opened
        /\ n.op \notin {"login", "register"} => (n.session \in live => n.alive)
  <1>1. ASSUME NEW op \in {"login", "register"}, NEW u \in Own, NEW s \in Opened \cup {None}
        PROVE  Fits([Idle EXCEPT !.op = op, !.user = u, !.session = s,
                                 !.at = IF s = None THEN "configured" ELSE "attach"])
    BY <1>1, IdleType DEF Req, ReqWith, At, Opened, Public
  <1>2. ASSUME NEW op \in Private \cup {"refresh"}, NEW s \in Opened,
               NEW at \in {"configured", "attach"}, op \in Private => at = "attach"
        PROVE  Fits([Idle EXCEPT !.op = op, !.at = at, !.session = s, !.alive = s \in live])
    <2> DEFINE n == [Idle EXCEPT !.op = op, !.at = at, !.session = s, !.alive = s \in live]
    <2>1. /\ DOMAIN n = DOMAIN Idle
          /\ n.op = op /\ n.at = at /\ n.session = s /\ n.told = Idle.told
          /\ n.user = Idle.user
      BY IdleType DEF Req, ReqWith
    <2>2. n.alive \in BOOLEAN
      BY IdleType DEF Req, ReqWith
    <2>3. s \in live => n.alive
      BY IdleType DEF Req, ReqWith
    <2>4. n \in Req
      BY <2>1, <2>2, IdleType DEF Req, ReqWith, At, Opened, Public, Private
    <2>5. op \in Public \cup Private /\ (at = "configured" => op \in Public)
          /\ op \notin {"login", "register"}
      BY <1>2 DEF Public, Private
    <2>6. Fits(n)
      <3> HIDE DEF n
      <3> QED BY <2>1, <2>3, <2>4, <2>5, IdleType
    <2> HIDE DEF Fits
    <2> QED BY <2>6
  <1>3. PICK n : Fits(n) /\ req' = [req EXCEPT ![r] = n]
    <2> HIDE DEF Fits
    <2>1. CASE \E op \in {"login", "register"}, u \in Own, s \in Opened \cup {None} :
                  req' = [req EXCEPT ![r] = [Idle EXCEPT !.op = op, !.user = u, !.session = s,
                             !.at = IF s = None THEN "configured" ELSE "attach"]]
      BY <1>1, <2>1
    <2>2. CASE \E op \in Private \cup {"refresh"}, s \in Opened, at \in {"configured", "attach"} :
                  /\ op \in Private => at = "attach"
                  /\ req' = [req EXCEPT ![r] = [Idle EXCEPT !.op = op, !.at = at,
                                             !.session = s, !.alive = s \in live]]
      BY <1>2, <2>2
    <2> QED BY <2>1, <2>2 DEF Begin, Private
  <1>4. /\ req' \in [Request -> ReqWith(BOOLEAN)]
        /\ req'[r] = n
        /\ \A q \in Request : q # r => req'[q] = req[q]
    BY <1>3, UpdateIs DEF Req
  <1> QED BY <1>3, <1>4 DEF Req

\* Without a token there is no session, and the answer is given at once.
LEMMA BeginWithoutTokenIs ==
    ASSUME NEW r \in Request, req \in [Request -> Req], BeginWithoutToken(r)
    PROVE  /\ req' \in [Request -> Req]
           /\ \A q \in Request : q # r => req'[q] = req[q]
           /\ req'[r].at = "answered" /\ req'[r].op \in Private /\ req'[r].session = None
  <1>1. PICK op \in Private, told \in {"unauthorized", "ok", "bad request"} :
                req' = [req EXCEPT ![r] = [Idle EXCEPT !.op = op, !.at = "answered", !.told = told]]
    BY DEF BeginWithoutToken
  <1> DEFINE n == [Idle EXCEPT !.op = op, !.at = "answered", !.told = told]
  <1>2. /\ n \in ReqWith(BOOLEAN)
        /\ n.at = "answered" /\ n.op \in Private /\ n.session = None
    BY IdleType DEF Idle, Req, ReqWith, At, Reply
  <1> HIDE DEF n
  <1>3. req \in [Request -> ReqWith(BOOLEAN)] /\ req' = [req EXCEPT ![r] = n]
    BY <1>1 DEF n, Req
  <1> QED BY <1>2, <1>3, UpdateIs DEF Req

-----------------------------------------------------------------------------
(* Sessions. *)

LEMMA OwnIs == Own \subseteq Value \ {Blank} /\ None \notin Own
  BY FileConstants, BootstrapConstants DEF Value, Real

\* No session is forgotten, changes hands or comes back, and no user that was
\* stored is lost.
Onwards ==
    /\ Opened \subseteq Opened' /\ live' \cap Opened \subseteq live
    /\ \A s \in Opened : owner'[s] = owner[s]
    /\ hive \subseteq hive'

LEMMA KnownGrows == Onwards => Known \subseteq Known'
  BY DEF Onwards, Known

LEMMA SoundStays ==
    ASSUME NEW t, NEW opened, NEW alive, NEW known, NEW opened2, NEW alive2, NEW known2,
           SoundIn(t, opened, alive, known),
           opened \subseteq opened2, alive2 \cap opened \subseteq alive, known \subseteq known2,
           None \notin alive2
    PROVE  SoundIn(t, opened2, alive2, known2)
  <1>1. t.op \in Private \cup {"refresh"} /\ t.session \in alive2 => t.alive
    BY DEF SoundIn
  <1> QED BY <1>1 DEF SoundIn

LEMMA CarriedIs ==
    ASSUME Inv, NEW r \in Request, Carried(r), hive' = hive
    PROVE  Sessions' /\ Onwards /\ accounts' \subseteq Value \ {Blank}
  <1>1. accounts \subseteq Value \ {Blank}
    BY DEF Inv, BootInv, BootTypeOK
  <1>2. req[r].op \in {"login", "register"} => req[r].user \in Own
    BY DEF Inv, RequestsSound, SoundIn
  <1>3. CASE UNCHANGED <<owner, accounts>> /\ live' \subseteq live
    BY <1>1, <1>3 DEF Inv, Sessions, Onwards, Opened
  <1>4. ASSUME NEW u \in Own, OpenSession(u), u \in accounts',
               accounts \subseteq accounts', accounts' \subseteq accounts \cup {u}
        PROVE  Sessions' /\ Onwards /\ accounts' \subseteq Value \ {Blank}
    <2>1. PICK s \in Session \ Opened :
                  owner' = [owner EXCEPT ![s] = u] /\ live' = live \cup {s}
      BY <1>4 DEF OpenSession
    <2>2. owner \in [Session -> Own \cup {None}] /\ owner[s] = None /\ u # None
      BY <2>1, OwnIs DEF Opened, Inv, Sessions
    <2>3. /\ owner' \in [Session -> Own \cup {None}]
          /\ owner'[s] = u /\ \A q \in Session \ {s} : owner'[q] = owner[q]
      BY <2>1, <2>2
    <2>4. Opened' = Opened \cup {s} /\ \A q \in Opened : owner'[q] = owner[q]
      BY <2>1, <2>2, <2>3 DEF Opened
    <2> QED BY <1>1, <1>4, <2>1, <2>3, <2>4, OwnIs DEF Inv, Sessions, Onwards
  <1> QED BY <1>2, <1>3, <1>4 DEF Carried

-----------------------------------------------------------------------------
(* A step of one request. *)

\* What a request may become when nothing but its place changes.
LEMMA SoundStep ==
    ASSUME NEW t, NEW n, NEW opened, NEW alive, NEW known, SoundIn(t, opened, alive, known),
           n.op = t.op, n.user = t.user, n.session = t.session, n.alive = t.alive,
           n.told = t.told, t.op # "none", t.at # "answered",
           n.at \in {"upsert", "sync"} => t.session \in opened,
           n.at # "attach",
           n.at = "sync" => t.op = "me",
           n.at = "configured" => t.op \in Public,
           t.op \in Private /\ n.at \in {"upsert", "call", "sync"} => t.alive,
           t.op \in Private /\ n.at \in {"call", "sync"} => t.session \in known
    PROVE  SoundIn(n, opened, alive, known)
  BY DEF SoundIn

\* What it may be answered.
LEMMA SoundAnswer ==
    ASSUME NEW t, NEW n, NEW opened, NEW alive, NEW known, SoundIn(t, opened, alive, known),
           n.op = t.op, n.user = t.user, n.session = t.session, n.alive = t.alive,
           n.at = "answered", t.op # "none", t.at # "answered",
           t.op \in Private \cup {"refresh"} /\ n.told = "ok" => t.alive,
           t.op \in Private /\ n.told = "ok" => t.session \in known
    PROVE  SoundIn(n, opened, alive, known)
  BY DEF SoundIn

\* What one step of request r comes to.
Safe(r) ==
    /\ req' \in [Request -> Req]
    /\ \A q \in Request : q # r => req'[q] = req[q]
    /\ SoundIn(req'[r], Opened, live, Known')

\* What is known of a request, in the light of what a step has stored.
LEMMA SoundLater ==
    ASSUME Inv, Onwards, NEW r \in Request
    PROVE  SoundIn(req[r], Opened, live, Known')
  <1>1. SoundIn(req[r], Opened, live, Known) /\ None \notin live
    BY SessionConstants DEF Inv, RequestsSound, Sessions, Opened
  <1> QED BY <1>1, KnownGrows, SoundStays

LEMMA SafeStep ==
    ASSUME Inv, Onwards, NEW r \in Request, NEW at \in At, Step(r, at),
           req[r].op # "none", req[r].at # "answered",
           at \in {"upsert", "sync"} => req[r].session \in Opened,
           at # "attach",
           at = "sync" => req[r].op = "me",
           at = "configured" => req[r].op \in Public,
           req[r].op \in Private /\ at \in {"upsert", "call", "sync"} => req[r].alive,
           req[r].op \in Private /\ at \in {"call", "sync"} => req[r].session \in Known'
    PROVE  Safe(r)
  <1>1. req \in [Request -> ReqWith(BOOLEAN)] /\ SoundIn(req[r], Opened, live, Known')
    BY SoundLater DEF Inv, Req
  <1>2. /\ req' \in [Request -> ReqWith(BOOLEAN)]
        /\ \A q \in Request : q # r => req'[q] = req[q]
        /\ req'[r].at = at /\ req'[r].told = req[r].told
        /\ req'[r].op = req[r].op /\ req'[r].user = req[r].user
        /\ req'[r].session = req[r].session /\ req'[r].alive = req[r].alive
    BY <1>1, StepIs
  <1>3. SoundIn(req'[r], Opened, live, Known')
    BY <1>1, <1>2, SoundStep
  <1> QED BY <1>2, <1>3 DEF Safe, Req

LEMMA SafeAnswer ==
    ASSUME Inv, Onwards, NEW r \in Request, NEW told \in Reply, Answer(r, told),
           req[r].op # "none", req[r].at # "answered",
           req[r].op \in Private \cup {"refresh"} /\ told = "ok" => req[r].alive,
           req[r].op \in Private /\ told = "ok" => req[r].session \in Known'
    PROVE  Safe(r)
  <1>1. req \in [Request -> ReqWith(BOOLEAN)] /\ SoundIn(req[r], Opened, live, Known')
    BY SoundLater DEF Inv, Req
  <1>2. /\ req' \in [Request -> ReqWith(BOOLEAN)]
        /\ \A q \in Request : q # r => req'[q] = req[q]
        /\ req'[r].at = "answered" /\ req'[r].told = told
        /\ req'[r].op = req[r].op /\ req'[r].user = req[r].user
        /\ req'[r].session = req[r].session /\ req'[r].alive = req[r].alive
    BY <1>1, AnswerIs
  <1>3. SoundIn(req'[r], Opened, live, Known')
    BY <1>1, <1>2, SoundAnswer
  <1> QED BY <1>2, <1>3 DEF Safe, Req

\* Requests that nothing has touched are as sound as before.
LEMMA OthersStay ==
    ASSUME Inv, Sessions', Onwards, NEW r \in Request, Safe(r)
    PROVE  RequestsSound'
  <1> None \notin live'
    BY SessionConstants DEF Sessions, Opened
  <1>1. SoundIn(req'[r], Opened', live', Known')
    BY SoundStays DEF Onwards, Safe
  <1>2. ASSUME NEW q \in Request, q # r
        PROVE  SoundIn(req'[q], Opened', live', Known')
    <2>1. SoundIn(req[q], Opened, live, Known')
      BY SoundLater
    <2>2. SoundIn(req[q], Opened', live', Known')
      BY <2>1, SoundStays DEF Onwards
    <2> QED BY <1>2, <2>2 DEF Safe
  <1>3. \A q \in Request : SoundIn(req'[q], Opened', live', Known')
    BY <1>1, <1>2
  <1> QED BY <1>3 DEF RequestsSound

\* The file and the process are left alone by a request.
HandleLeaves == UNCHANGED <<conf, file, system, pc, run, faults>>

HandleKeeps(r) ==
    /\ HandleLeaves
    /\ accounts' \subseteq Value \ {Blank}
    /\ Sessions' /\ Onwards
    /\ Safe(r)

\* The steps that make no call stay as they are but for the users stored.
Local ==
    /\ UNCHANGED <<bootVars, owner, live>>
    /\ hive \subseteq hive' /\ hive' \subseteq Own /\ hive' \subseteq accounts

LEMMA LocalIs ==
    ASSUME Inv, Local
    PROVE  /\ HandleLeaves /\ accounts' \subseteq Value \ {Blank}
           /\ Sessions' /\ Onwards
  <1>1. HandleLeaves /\ accounts' \subseteq Value \ {Blank}
    BY DEF Local, HandleLeaves, bootVars, remote, Inv, BootInv, BootTypeOK
  <1>2. Sessions' /\ Onwards
    BY DEF Local, bootVars, remote, Inv, Sessions, Onwards, Opened
  <1> QED BY <1>1, <1>2

LEMMA LocalStep ==
    ASSUME Inv, NEW r \in Request, Local, Safe(r)
    PROVE  HandleKeeps(r)
  BY LocalIs DEF HandleKeeps

LEMMA NothingStored ==
    ASSUME Inv, UNCHANGED <<bootVars, owner, live, hive>>
    PROVE  Local /\ Onwards
  <1>1. Local
    BY DEF Local, Inv, Sessions
  <1> QED BY <1>1, LocalIs

\* The user whose session a request names has an account, and is stored.
LEMMA OwnerStored ==
    ASSUME Inv, NEW r \in Request, req[r].session \in Opened,
           UNCHANGED <<bootVars, owner, live>>,
           hive' = hive \cup {owner[req[r].session]}
    PROVE  Local /\ Onwards /\ req[r].session \in Known'
  <1>1. owner[req[r].session] \in Own /\ owner[req[r].session] \in accounts
    BY DEF Inv, Sessions, Opened
  <1>2. Local
    BY <1>1 DEF Local, Inv, Sessions
  <1>3. req[r].session \in Known'
    BY DEF Known, Opened
  <1> QED BY <1>2, <1>3, LocalIs

LEMMA NoPrincipalSafe ==
    ASSUME Inv, Onwards, NEW r \in Request, NoPrincipal(r), req[r].at = "attach"
    PROVE  Safe(r)
  <1>1. req[r].op # "none"
    BY DEF Inv, RequestsSound, SoundIn
  <1>2. CASE req[r].op \in Public /\ Step(r, "configured")
    <2>1. "configured" \in At /\ Public \cap Private = {}
      BY DEF At, Public, Private
    <2> QED BY <1>1, <1>2, <2>1, SafeStep
  <1>3. CASE Answer(r, "unauthorized")
    <2>1. "unauthorized" \in Reply
      BY DEF Reply
    <2> QED BY <1>1, <1>3, <2>1, SafeAnswer
  <1> QED BY <1>2, <1>3 DEF NoPrincipal

LEMMA BeginKeeps ==
    ASSUME Inv, NEW r \in Request, Begin(r)
    PROVE  HandleKeeps(r)
  <1>1. SoundIn(req'[r], Opened, live, Known')
    BY BeginIs DEF Inv, SoundIn, Public, Private
  <1>2. Safe(r)
    BY <1>1, BeginIs DEF Safe, Inv
  <1> QED BY <1>2, NothingStored, LocalStep DEF Begin

LEMMA BeginWithoutTokenKeeps ==
    ASSUME Inv, NEW r \in Request, BeginWithoutToken(r)
    PROVE  HandleKeeps(r)
  <1>1. None \notin live
    BY SessionConstants DEF Inv, Sessions, Opened
  <1>2. SoundIn(req'[r], Opened, live, Known')
    BY <1>1, BeginWithoutTokenIs DEF Inv, SoundIn, Private
  <1>3. Safe(r)
    BY <1>2, BeginWithoutTokenIs DEF Safe, Inv
  <1> QED BY <1>3, NothingStored, LocalStep DEF BeginWithoutToken

LEMMA CheckConfiguredKeeps ==
    ASSUME Inv, NEW r \in Request, CheckConfigured(r)
    PROVE  HandleKeeps(r)
  <1>1. /\ req[r].op # "none" /\ req[r].op \notin Private /\ req[r].at # "answered"
        /\ Local /\ Onwards
    BY NothingStored DEF CheckConfigured, Inv, RequestsSound, SoundIn, Public, Private
  <1>2. CASE Step(r, "call")
    <2>1. "call" \in At
      BY DEF At
    <2> QED BY <1>1, <1>2, <2>1, SafeStep, LocalStep
  <1>3. CASE Answer(r, "unavailable")
    <2>1. "unavailable" \in Reply
      BY DEF Reply
    <2>2. req[r].op # "refresh" \/ "unavailable" # "ok"
      OBVIOUS
    <2>3. Safe(r)
      BY <1>1, <1>3, <2>1, SafeAnswer
    <2> QED BY <1>1, <2>3, LocalStep
  <1> QED BY <1>2, <1>3 DEF CheckConfigured

LEMMA AttachKeeps ==
    ASSUME Inv, NEW r \in Request, Attach(r) \/ AttachLost(r)
    PROVE  HandleKeeps(r)
  <1>1. req[r].at = "attach" /\ Local /\ Onwards
    BY NothingStored DEF Attach, AttachLost
  <1>2. CASE NoPrincipal(r)
    <2>1. Safe(r)
      BY <1>1, <1>2, NoPrincipalSafe
    <2> QED BY <1>1, <2>1, LocalStep
  <1>3. CASE req[r].session \in live /\ Step(r, "upsert")
    <2>1. "upsert" \in At
      BY DEF At
    <2>2. /\ req[r].op # "none" /\ req[r].session \in Opened
          /\ req[r].op \in Private => req[r].alive
      BY <1>1, <1>3 DEF Inv, RequestsSound, SoundIn
    <2>3. Safe(r)
      BY <1>1, <1>3, <2>1, <2>2, SafeStep
    <2> QED BY <1>1, <2>3, LocalStep
  <1> QED BY <1>2, <1>3 DEF Attach, AttachLost

LEMMA UpsertFromMeKeeps ==
    ASSUME Inv, NEW r \in Request, UpsertFromMe(r)
    PROVE  HandleKeeps(r)
  <1>1. /\ req[r].op # "none" /\ req[r].session \in Opened /\ req[r].at # "answered"
        /\ req[r].op \in Private => req[r].alive
    BY DEF UpsertFromMe, Inv, RequestsSound, SoundIn
  <1>2. Local /\ Onwards /\ req[r].session \in Known'
    BY <1>1, OwnerStored DEF UpsertFromMe
  <1>3. CASE req[r].op \in Public /\ Step(r, "configured")
    <2>1. "configured" \in At /\ Public \cap Private = {}
      BY DEF At, Public, Private
    <2>2. Safe(r)
      BY <1>1, <1>2, <1>3, <2>1, SafeStep
    <2> QED BY <1>2, <2>2, LocalStep
  <1>4. CASE Step(r, "call")
    <2>1. "call" \in At
      BY DEF At
    <2>2. Safe(r)
      BY <1>1, <1>2, <1>4, <2>1, SafeStep
    <2> QED BY <1>2, <2>2, LocalStep
  <1> QED BY <1>3, <1>4 DEF UpsertFromMe

LEMMA SyncMeKeeps ==
    ASSUME Inv, NEW r \in Request, SyncMe(r)
    PROVE  HandleKeeps(r)
  <1>1. /\ req[r].op = "me" /\ req[r].session \in Opened /\ req[r].alive
        /\ req[r].at = "sync"
    BY DEF SyncMe, Inv, RequestsSound, SoundIn, Private
  <1>2. {"ok", "internal error"} \subseteq Reply
    BY DEF Reply
  <1>3. CASE hive' = hive \cup {owner[req[r].session]} /\ Answer(r, "ok")
    <2>1. Local /\ Onwards /\ req[r].session \in Known'
      BY <1>1, <1>3, OwnerStored DEF SyncMe
    <2>2. Safe(r)
      BY <1>1, <1>2, <1>3, <2>1, SafeAnswer
    <2> QED BY <2>1, <2>2, LocalStep
  <1>4. CASE UNCHANGED hive /\ Answer(r, "internal error")
    <2>1. Local /\ Onwards
      BY <1>4, NothingStored DEF SyncMe
    <2>2. Safe(r)
      BY <1>1, <1>2, <1>4, <2>1, SafeAnswer
    <2> QED BY <2>1, <2>2, LocalStep
  <1> QED BY <1>3, <1>4 DEF SyncMe

\* A call that is carried out was made for a session that is not over, or
\* opens one.
LEMMA CarriedFor ==
    ASSUME Inv, NEW r \in Request, req[r].at = "call", Carried(r)
    PROVE  /\ req[r].op # "none"
           /\ req[r].op \in Private \cup {"refresh"} => req[r].alive
           /\ req[r].op = "me" => req[r].session \in Opened
  BY DEF Carried, Inv, RequestsSound, SoundIn, Private, Public

\* The user of a call that needs a session was stored before.
LEMMA CallerKnown ==
    ASSUME Inv, Onwards, NEW r \in Request, req[r].at = "call", req[r].op \in Private
    PROVE  req[r].session \in Known' /\ req[r].alive
  <1>1. req[r].session \in Opened /\ req[r].session # None
    BY SessionConstants DEF Inv, RequestsSound, SoundIn, Opened
  <1>2. req[r].session \in Known /\ req[r].alive
    BY <1>1 DEF Inv, RequestsSound, SoundIn
  <1> QED BY <1>2, KnownGrows

LEMMA GrantedKeeps ==
    ASSUME Inv, NEW r \in Request, Granted(r)
    PROVE  HandleKeeps(r)
  <1>1. req[r].at = "call" /\ Carried(r) /\ HandleLeaves
    BY DEF Granted, HandleLeaves
  <1>2. Sessions' /\ Onwards /\ accounts' \subseteq Value \ {Blank}
    BY <1>1, CarriedIs DEF Granted
  <1>3. CASE req[r].op = "me" /\ Step(r, "sync")
    <2>1. "sync" \in At /\ "me" \in Private
      BY DEF At, Private
    <2>2. Safe(r)
      BY <1>1, <1>2, <1>3, <2>1, CarriedFor, CallerKnown, SafeStep
    <2> QED BY <1>1, <1>2, <2>2 DEF HandleKeeps
  <1>4. CASE Answer(r, "ok")
    <2>1. "ok" \in Reply
      BY DEF Reply
    <2>2. Safe(r)
      BY <1>1, <1>2, <1>4, <2>1, CarriedFor, CallerKnown, SafeAnswer
    <2> QED BY <1>1, <1>2, <2>2 DEF HandleKeeps
  <1> QED BY <1>3, <1>4 DEF Granted

LEMMA NotGrantedKeeps ==
    ASSUME Inv, NEW r \in Request, NotGranted(r)
    PROVE  HandleKeeps(r)
  <1>1. req[r].at = "call" /\ req[r].op # "none" /\ HandleLeaves /\ hive' = hive
    BY DEF NotGranted, HandleLeaves, Inv, RequestsSound, SoundIn
  <1>2. Sessions' /\ Onwards /\ accounts' \subseteq Value \ {Blank}
    <2>1. CASE UNCHANGED <<owner, live, accounts>>
      BY <1>1, <2>1, NothingStored, LocalIs DEF NotGranted, bootVars, remote
    <2> QED BY <1>1, <2>1, CarriedIs DEF NotGranted
  <1>3. PICK reply \in {"refused", "bad gateway"} : Answer(r, Told(r, reply))
    BY DEF NotGranted
  <1>4. /\ Told(r, reply) \in Reply /\ "logout" \in Private
        /\ Told(r, reply) = "ok" => req[r].op = "logout"
    BY DEF Told, Reply, Private
  <1>5. Safe(r)
    BY <1>1, <1>2, <1>3, <1>4, CallerKnown, SafeAnswer
  <1> QED BY <1>1, <1>2, <1>5 DEF HandleKeeps

LEMMA HandleIs ==
    ASSUME Inv, NEW r \in Request, Handle(r)
    PROVE  HandleKeeps(r)
  BY BeginKeeps, BeginWithoutTokenKeeps, CheckConfiguredKeeps, AttachKeeps,
     UpsertFromMeKeeps, GrantedKeeps, NotGrantedKeeps, SyncMeKeeps DEF Handle

-----------------------------------------------------------------------------
(* The invariant. *)

LEMMA InvInit == Init => Inv
  <1> SUFFICES ASSUME Init PROVE Inv
    OBVIOUS
  <1>1. BootInv
    BY BootInvInit DEF Init
  <1>2. Sessions
    BY DEF Init, Sessions, Opened
  <1>3. \A r \in Request : req[r] = Idle
    BY DEF Init
  <1>4. req \in [Request -> Req]
    BY IdleType DEF Init
  <1>5. SoundIn(Idle, Opened, live, Known)
    BY DEF SoundIn, Idle, Private
  <1> QED BY <1>1, <1>2, <1>3, <1>4, <1>5 DEF Inv, RequestsSound

LEMMA HandleInv ==
    ASSUME Inv, NEW r \in Request, Handle(r)
    PROVE  Inv'
  <1>1. HandleKeeps(r)
    BY HandleIs
  <1>2. BootInv'
    BY <1>1 DEF HandleKeeps, HandleLeaves, Inv, BootInv, BootTypeOK, Registering, Conf
  <1>3. RequestsSound'
    BY <1>1, OthersStay DEF HandleKeeps
  <1> QED BY <1>1, <1>2, <1>3 DEF HandleKeeps, Safe, Inv

\* No account is lost.
LEMMA AccountsStay == BootNext => accounts \subseteq accounts'
  BY DEF BootNext, Start, SystemCreated, SystemExists, CreateFails, Registered, RegisterFails,
         PersistToken, PersistAll, Serve, Crash, remote

LEMMA BootKeepsInv ==
    ASSUME Inv, Boot
    PROVE  Inv'
  <1>1. BootInv'
    BY BootInvStep DEF Inv, Boot
  <1>2. Sessions' /\ Opened' = Opened /\ live' = live /\ Known' = Known
    BY AccountsStay DEF Boot, Inv, Sessions, Opened, Known
  <1>3. CASE req' = req
    BY <1>1, <1>2, <1>3 DEF Inv, RequestsSound
  <1>4. CASE req' = [r \in Request |-> Idle]
    <2>1. SoundIn(Idle, Opened', live', Known')
      BY DEF SoundIn, Idle, Private
    <2>2. req' \in [Request -> Req] /\ \A r \in Request : req'[r] = Idle
      BY <1>4, IdleType
    <2> QED BY <1>1, <1>2, <2>1, <2>2 DEF Inv, RequestsSound
  <1> QED BY <1>3, <1>4 DEF Boot

LEMMA SessionEndsInv ==
    ASSUME Inv, NEW s \in Session, SessionEnds(s)
    PROVE  Inv'
  <1>1. BootInv'
    BY DEF SessionEnds, bootVars, remote, Inv, BootInv, BootTypeOK, Registering, Conf
  <1>2. Sessions' /\ Onwards
    BY DEF SessionEnds, bootVars, remote, Inv, Sessions, Onwards, Opened
  <1>3. None \notin live'
    BY <1>2, SessionConstants DEF Sessions, Opened
  <1>4. RequestsSound'
    BY <1>2, <1>3, KnownGrows, SoundStays DEF SessionEnds, Inv, RequestsSound, Onwards
  <1> QED BY <1>1, <1>2, <1>4 DEF SessionEnds, Inv

LEMMA InvStep == Inv /\ [Next]_vars => Inv'
  <1> SUFFICES ASSUME Inv, [Next]_vars PROVE Inv'
    OBVIOUS
  <1>1. CASE UNCHANGED vars
    BY <1>1 DEF vars, apiVars, bootVars, remote, Inv, BootInv, BootTypeOK, Registering, Conf,
                Sessions, Opened, Known, RequestsSound
  <1> QED BY <1>1, HandleInv, BootKeepsInv, SessionEndsInv DEF Next

LEMMA Invariant == Spec => []Inv
  BY InvInit, InvStep, PTL DEF Spec

-----------------------------------------------------------------------------
\* Every variable of the container, of the sessions and of the requests keeps
\* its type, and a request that needs a session names one that was opened.
THEOREM UserverTypeCorrect == Spec => []TypeOK
  <1>1. Inv => TypeOK
    BY DEF Inv, BootInv, Sessions, TypeOK, RequestsSound, SoundIn, Req, ReqWith, At
  <1> QED BY <1>1, Invariant, PTL

\* A session that was over before a request began gets nothing out of it,
\* whatever other requests do meanwhile.
THEOREM OverStaysOver == Spec => []OverIsOver
  <1>1. Inv => OverIsOver
    <2> SUFFICES ASSUME Inv, NEW r \in Request, req[r].told = "ok", req[r].session # None,
                        req[r].op \notin {"login", "register"}
                 PROVE  req[r].alive
      BY DEF OverIsOver
    <2>1. SoundIn(req[r], Opened, live, Known) /\ req[r] \in Req
      BY DEF Inv, RequestsSound
    <2>2. req[r].op \in Private \cup {"refresh"}
      BY <2>1 DEF SoundIn, Req, ReqWith, Public, Private
    <2> QED BY <2>1, <2>2 DEF SoundIn
  <1> QED BY <1>1, Invariant, PTL

\* Whoever was served by a handler that wants a session has a row in
\* hive_users from then on, and every row there is of a user that uServer-Auth
\* has an account for: over calls that are lost, or refused after they took
\* effect, sessions that end, and servers that are started again.
THEOREM ServedStayKnown == Spec => []ServedAreKnown
  <1>1. Inv => ServedAreKnown
    BY DEF Inv, Sessions, RequestsSound, SoundIn, Known, ServedAreKnown
  <1> QED BY <1>1, Invariant, PTL

-----------------------------------------------------------------------------
(* What becomes of the container's token and of the operator's values, if  *)
(* no line of the file is one that only godotenv knows.                    *)

\* A step of the server or of uServer-Auth leaves the container alone.
LEMMA BootSteps ==
    ASSUME Inv, [Next]_vars
    PROVE  \/ [BootNext]_bootVars
           \/ UNCHANGED <<conf, file, system, pc, run, faults>>
  <1>1. CASE \E r \in Request : Handle(r)
    BY <1>1, HandleIs DEF HandleKeeps, HandleLeaves
  <1> QED BY <1>1 DEF Next, Boot, SessionEnds, vars, bootVars, remote

Plainly == Inv /\ FilePlain(file)

LEMMA Plains ==
    ASSUME OnlyPlain
    PROVE  Spec => []Plainly
  <1>1. Init => FilePlain(file)
    BY PlainInit DEF Init
  <1>2. Plainly /\ [Next]_vars => FilePlain(file)'
    BY BootSteps, PlainStep DEF Plainly, Inv
  <1>3. Init => Plainly
    BY <1>1, InvInit DEF Plainly
  <1>4. Plainly /\ [Next]_vars => Plainly'
    BY <1>2, InvStep DEF Plainly
  <1> QED BY <1>3, <1>4, PTL DEF Spec

\* The token of a new system is stored before anything else can fail,
\* survives what later runs of bootstrap:auth write, and is what the server
\* starts with, provided that godotenv reads it as it was written.
THEOREM TokenIsKept ==
    ASSUME OnlyPlain
    PROVE  Spec => []TokenKept
  <1>1. Init => TokenKept
    BY FileConstants, BootstrapConstants DEF Init, BootInit, TokenKept, Value, Real
  <1>2. Plainly /\ TokenKept /\ [Next]_vars => TokenKept'
    <2>1. ASSUME TokenKept, UNCHANGED <<conf, file, system, pc, run, faults>>
          PROVE  TokenKept'
      BY <2>1 DEF TokenKept
    <2> QED BY <2>1, BootSteps, TokenStep DEF Plainly, Inv
  <1> QED BY <1>1, <1>2, Plains, PTL DEF Spec

\* A value of the operator's is never overwritten, unless a write stops
\* half-way.
THEOREM OperatorsValuesStay ==
    ASSUME OnlyPlain
    PROVE  Spec => NeverOverwritten
  <1> DEFINE Stays == \A k \in Key : "torn" \notin faults' /\ Dotenv(file, k) \in Real
                        => Dotenv(file', k) = Dotenv(file, k)
  <1>1. Plainly /\ [Next]_vars => [Stays]_bootVars
    <2> SUFFICES ASSUME Plainly, [Next]_vars PROVE Stays
      OBVIOUS
    <2>1. CASE [BootNext]_bootVars
      BY <2>1, OverwriteStep DEF Plainly, Inv
    <2>2. CASE UNCHANGED <<conf, file, system, pc, run, faults>>
      BY <2>2
    <2> QED BY <2>1, <2>2, BootSteps DEF Plainly
  <1> QED BY <1>1, Plains, PTL DEF Spec, NeverOverwritten

\* A container that is set up (and whose token godotenv reads as it was
\* written) presents the token of its system, and no other,
\* when it registers: whichever run has created the system, and however often
\* the container has died since.
THEOREM RegistrationsPresentTheToken ==
    ASSUME OnlyPlain
    PROVE  Spec => RegistersWithItsToken
  <1> DEFINE Presents == "lost" \notin faults /\ pc = "register" => run.token = system
  <1>1. Init /\ SetUp => Ready
    BY ReadyInit DEF Init
  <1>2. Plainly /\ Ready /\ [Next]_vars => Ready'
    <2> SUFFICES ASSUME Plainly, Ready, [Next]_vars PROVE Ready'
      OBVIOUS
    <2>1. CASE [BootNext]_bootVars
      BY <2>1, ReadyStep DEF Plainly, Inv
    <2>2. CASE UNCHANGED <<conf, file, system, pc, run, faults>>
      BY <2>2 DEF Ready, Supplied
    <2> QED BY <2>1, <2>2, BootSteps DEF Plainly
  <1>3. Ready => Presents
    BY DEF Ready, Supplied
  <1> HIDE DEF Presents
  <1>4. Spec => (SetUp => []Presents)
    BY <1>1, <1>2, <1>3, Plains, PTL DEF Spec
  <1> QED BY <1>4 DEF RegistersWithItsToken, Presents

=============================================================================
