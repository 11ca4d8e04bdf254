------------------------- MODULE HiveAnswersProofs -------------------------
(***************************************************************************)
(* What the clients of the HTTP API may conclude from its answers, for any *)
(* number of requests, users, environments and devices.                    *)
(*                                                                         *)
(* A request tells the truth because of where it is in its flow: landed is *)
(* set by the one call that writes and only the read back comes after it.  *)
(* Nobody is shown anything without a role because no flow ends before its *)
(* access check.                                                           *)
(***************************************************************************)
EXTENDS HiveApiProofs

(* Calls a request makes only once RequireEnvAccess let it pass.            *)
Past(op, c) == IF op \in ReadOps THEN c = "read" ELSE c \in Licensed

Reloading == {"patchEnvironment", "postDevice", "patchDevice"}
Good == {"200", "201", "204"}

EndFact(op, c, d, last) ==
    /\ d \in Calls
    /\ d = "reload" <=> c = "act"
    /\ d = "reload" => op \in Reloading
    /\ last /\ op \in WriteOps => d \in {"act", "reload"}
    /\ op # "postEnvironment" =>
          /\ last => d = "access" \/ Past(op, d)
          /\ Past(op, d) => c = "access" \/ Past(op, c)

LEMMA UserFlowEnds ==
    \A op \in AllOps : \A c \in DOMAIN UserFlow[op] :
        EndFact(op, c, UserFlow[op][c], UserFlow[op][c] \notin DOMAIN UserFlow[op])
  <1> SUFFICES ASSUME NEW op \in AllOps, NEW c \in DOMAIN UserFlow[op]
               PROVE  EndFact(op, c, UserFlow[op][c],
                              UserFlow[op][c] \notin DOMAIN UserFlow[op])
    OBVIOUS
  <1> USE OpNames DEF EndFact, Calls, WriteOps, Past, Licensed, Reloading, UserFlow
  <1>1. CASE op = "postEnvironment" BY <1>1
  <1>2. CASE op = "getEnvironment" BY <1>2
  <1>3. CASE op = "patchEnvironment" BY <1>3
  <1>4. CASE op = "deleteEnvironment" BY <1>4
  <1>5. CASE op \in {"listMembers", "listDevices"} BY <1>5
  <1>6. CASE op = "postMember" BY <1>6
  <1>7. CASE op \in {"patchMember", "deleteMember"} BY <1>7
  <1>8. CASE op = "postDevice" BY <1>8
  <1>9. CASE op = "getDevice" BY <1>9
  <1>10. CASE op = "patchDevice" BY <1>10
  <1>11. CASE op = "deleteDevice" BY <1>11
  <1> QED BY <1>1, <1>2, <1>3, <1>4, <1>5, <1>6, <1>7, <1>8, <1>9, <1>10, <1>11, OpNames

LEMMA KeyFlowEnds ==
    \A op \in ReadOps : \A c \in DOMAIN KeyFlow[op] :
        KeyFlow[op][c] \in Calls \ {"act", "reload"}
  BY OpNames DEF KeyFlow, Calls

LEMMA SuccessFacts ==
    \A op \in AllOps : /\ Success[op] \in Good
                       /\ Success[op] \in {"201", "204"} => op \in WriteOps
  BY OpNames DEF Success, Good, WriteOps

-----------------------------------------------------------------------------
InFlow(r) == \E c \in DOMAIN FlowOf(r) : r.pc = FlowOf(r)[c]

(* What is gone never comes back: its id is not given out again.            *)
RowGone(x) == x \in minted \cap Row /\ x \notin DOMAIN dev
EnvGone(e) == e \in minted \cap Env /\ e \notin envs

Truthful(r) ==
    /\ r.status \in {"400", "403"} => ~r.landed
    /\ r.status \in {"201", "204"} => r.landed
    /\ r.status = "200" /\ r.op \in WriteOps => r.landed
    /\ r.status = "404" /\ r.landed => r.op = "patchDevice" /\ RowGone(r.row)
    /\ r.status = "panic" =>
          \/ r.op = "patchEnvironment" /\ EnvGone(r.env)
          \/ r.op = "postDevice" /\ RowGone(r.row)

Told(r) ==
    /\ r.op = "postEnvironment" => r.env = None
    /\ r.pc \in Calls \cup {"idle"} => r.status = None
    /\ r.pc \in Calls => InFlow(r) /\ (r.landed <=> r.pc = "reload")
    /\ r.pc = "reload" /\ r.op # "patchEnvironment" => r.row \in minted \cap Row
    /\ Truthful(r)

Welcome(r, roles) ==
    r.user \in User /\ r.env # None =>
        (r.status \in Good \/ (r.pc \in Calls /\ Past(r.op, r.pc)) => roles # {})

AllTold == \A q \in Req : Told(req[q]) /\ Welcome(req[q], held[q])

-----------------------------------------------------------------------------
LEMMA ToldGrows ==
    ASSUME Grown, [CatalogNext]_catVars, NEW r \in Request, Told(r)
    PROVE  Told(r)'
  <1>1. ASSUME NEW e, EnvGone(e) PROVE EnvGone(e)'
    BY <1>1 DEF EnvGone, Grown, CatalogNext, catVars, UpsertFromMe, CreateEnvironment,
       DeleteEnvironment, UpsertMember, RemoveMember, InsertDevice, UpdateDevice,
       DeleteDevice
  <1>2. ASSUME NEW x, RowGone(x) PROVE RowGone(x)'
    BY <1>2 DEF RowGone, Grown
  <1>3. Truthful(r)'
    BY <1>1, <1>2 DEF Told, Truthful
  <1> QED BY <1>3 DEF Told, Grown, InFlow, FlowOf

(* A request goes on: r is what its call left in its variables.             *)
LEMMA AdvanceTold ==
    ASSUME NEW r \in Request, r.op \in AllOps, r.user \in User \cup {ApiKey},
           r.user = ApiKey => r.op \in ReadOps,
           r.op = "postEnvironment" => r.env = None,
           r.pc \in Calls, InFlow(r), r.status = None,
           r.landed <=> r.pc \in {"act", "reload"},
           r.op # "patchEnvironment" /\ r.pc = "act" /\ r.op \in Reloading =>
              r.row \in (minted \cap Row)'
    PROVE  /\ Told(Advanced(r))'
           /\ Advanced(r).user = r.user /\ Advanced(r).env = r.env
           /\ \/ r.user = ApiKey \/ r.op = "postEnvironment"
              \/ r.pc = "access" \/ Past(r.op, r.pc)
              \/ Advanced(r).status = None /\ ~Past(Advanced(r).op, Advanced(r).pc)
  <1> DEFINE s == Advanced(r)
  <1>1. PICK c \in DOMAIN FlowOf(r) : r.pc = FlowOf(r)[c]
    BY DEF InFlow
  <1>2. CASE r.pc \notin DOMAIN FlowOf(r)
    <2>1. s = Answered(r, Success[r.op])
      BY <1>2 DEF Advanced
    <2>2. /\ s.pc = "done" /\ s.status = Success[r.op] /\ s.landed = r.landed
          /\ s.op = r.op /\ s.user = r.user /\ s.env = r.env /\ s.row = r.row
      BY <2>1 DEF Answered, Request
    <2>3. r.op \in WriteOps => r.landed
      <3>1. r.op \in WriteOps => r.user # ApiKey
        BY DEF WriteOps
      <3>2. r.user # ApiKey => EndFact(r.op, c, r.pc, TRUE)
        BY <1>1, <1>2, UserFlowEnds DEF FlowOf
      <3> QED BY <3>1, <3>2 DEF EndFact
    <2>4. \/ r.user = ApiKey \/ r.op = "postEnvironment"
          \/ r.pc = "access" \/ Past(r.op, r.pc)
      BY <1>1, <1>2, UserFlowEnds DEF FlowOf, EndFact
    <2>5. Truthful(s)'
      BY <2>2, <2>3, SuccessFacts DEF Truthful, Good
    <2>6. Told(s)'
      BY <2>2, <2>5 DEF Told, Calls
    <2> QED BY <2>2, <2>4, <2>6
  <1>3. CASE r.pc \in DOMAIN FlowOf(r)
    <2> DEFINE d == FlowOf(r)[r.pc]
    <2>1. s = [r EXCEPT !.pc = d]
      BY <1>3 DEF Advanced
    <2>2. /\ s.pc = d /\ s.status = None /\ s.landed = r.landed
          /\ s.op = r.op /\ s.user = r.user /\ s.env = r.env /\ s.row = r.row
      BY <2>1 DEF Request
    <2>3. FlowOf(s) = FlowOf(r)
      BY <2>2 DEF FlowOf
    <2>4. InFlow(s)
      BY <1>3, <2>2, <2>3 DEF InFlow
    <2>5. /\ d \in Calls
          /\ d = "reload" <=> r.pc = "act"
          /\ d = "reload" => r.op \in Reloading
      <3>1. CASE r.user = ApiKey
        <4>1. r.pc \notin {"act", "reload"} /\ d \in Calls \ {"act", "reload"}
          BY <1>1, <1>3, <3>1, KeyFlowEnds DEF FlowOf
        <4> QED BY <4>1
      <3>2. CASE r.user # ApiKey
        BY <1>3, <3>2, UserFlowEnds DEF FlowOf, EndFact
      <3> QED BY <3>1, <3>2
    <2>6. r.pc # "reload"
      <3>1. CASE r.user = ApiKey
        BY <1>1, <3>1, KeyFlowEnds DEF FlowOf
      <3>2. CASE r.user # ApiKey
        BY <1>3, <3>2, OpNames DEF FlowOf, UserFlow
      <3> QED BY <3>1, <3>2
    <2>7. Truthful(s)'
      BY <2>2, NoneApart DEF Truthful, Statuses
    <2>8. s.landed <=> s.pc = "reload"
      BY <2>2, <2>5, <2>6
    <2>9. s.pc = "reload" /\ s.op # "patchEnvironment" => s.row \in (minted \cap Row)'
      BY <2>2, <2>5
    <2>10. Told(s)'
      <3> HIDE DEF s
      <3>1. InFlow(s)'
        BY <2>4 DEF InFlow, FlowOf
      <3> QED BY <2>2, <2>5, <2>7, <2>8, <2>9, <3>1 DEF Told
    <2>11. \/ r.user = ApiKey \/ r.op = "postEnvironment"
           \/ r.pc = "access" \/ Past(r.op, r.pc)
           \/ s.status = None /\ ~Past(s.op, s.pc)
      BY <1>3, <2>2, UserFlowEnds DEF FlowOf, EndFact
    <2> QED BY <2>2, <2>10, <2>11
  <1> QED BY <1>2, <1>3

-----------------------------------------------------------------------------
(* What one step makes of request q, as far as its answer is concerned.     *)
NothingShown(s) ==
    s.user \in User /\ s.env # None =>
        s.status \notin Good /\ (s.pc \in Calls => ~Past(s.op, s.pc))

Entitled(q, s) ==
    /\ s.pc # "idle" /\ s.user = req[q].user /\ s.env = req[q].env
    /\ \/ GetMembership(s.env, s.user)' # None
       \/ req[q].pc \in Calls /\ Past(req[q].op, req[q].pc)

StepTold(q, s) ==
    /\ req' = [req EXCEPT ![q] = s]
    /\ Told(s)'
    /\ NothingShown(s) \/ Entitled(q, s)

LEMMA ProceedTold ==
    ASSUME IInv, AllTold, NEW q \in Req, NEW r \in Request, Proceed(q, r),
           req[q].pc \in Calls, r.pc = req[q].pc, r.op = req[q].op,
           r.user = req[q].user, r.env = req[q].env, r.status = req[q].status,
           r.landed <=> r.pc \in {"act", "reload"},
           r.pc = "act" /\ r.op \in {"postDevice", "patchDevice"} =>
              r.row \in (minted \cap Row)',
           r.pc = "access" => GetMembership(r.env, r.user)' # None
    PROVE  \E s \in Request : StepTold(q, s)
  <1> DEFINE s == Advanced(r)
  <1>1. /\ r.op \in AllOps /\ r.user \in User \cup {ApiKey}
        /\ r.user = ApiKey => r.op \in ReadOps
    BY DEF IInv, RequestsKnown, Known, TypeOK, CatalogTypeOK
  <1>2. /\ r.op = "postEnvironment" => r.env = None
        /\ InFlow(r) /\ r.status = None
    BY DEF AllTold, Told, InFlow, FlowOf
  <1>3. /\ Told(s)' /\ s.user = r.user /\ s.env = r.env
        /\ \/ r.user = ApiKey \/ r.op = "postEnvironment"
           \/ r.pc = "access" \/ Past(r.op, r.pc)
           \/ s.status = None /\ ~Past(s.op, s.pc)
    BY <1>1, <1>2, AdvanceTold DEF Reloading
  <1>4. s \in Request /\ s.pc # "idle"
    BY <1>1, AdvanceFacts DEF Calls
  <1>5. NothingShown(s) \/ Entitled(q, s)
    BY <1>2, <1>3, <1>4, ApiConstants, NoneApart
       DEF NothingShown, Entitled, Good, Statuses
  <1> QED BY <1>3, <1>4, <1>5 DEF StepTold, Proceed

LEMMA AnswerTold ==
    ASSUME NEW q \in Req, NEW r \in Request, NEW status \in Statuses \ Good,
           req' = [req EXCEPT ![q] = Answered(r, status)],
           r.op = "postEnvironment" => r.env = None,
           status \in {"400", "403"} => ~r.landed,
           status = "404" /\ r.landed => r.op = "patchDevice" /\ RowGone(r.row)',
           status = "panic" =>
              \/ r.op = "patchEnvironment" /\ EnvGone(r.env)'
              \/ r.op = "postDevice" /\ RowGone(r.row)'
    PROVE  \E s \in Request : StepTold(q, s)
  <1> DEFINE s == Answered(r, status)
  <1>1. /\ s \in Request /\ s.pc = "done" /\ s.status = status /\ s.landed = r.landed
        /\ s.op = r.op /\ s.user = r.user /\ s.env = r.env /\ s.row = r.row
    BY DEF Answered, Request
  <1>2. req' = [req EXCEPT ![q] = s]
    OBVIOUS
  <1> HIDE DEF s
  <1>3. Truthful(s)'
    BY <1>1 DEF Truthful, Good
  <1>4. Told(s)'
    BY <1>1, <1>3 DEF Told, Calls
  <1>5. NothingShown(s)
    BY <1>1 DEF NothingShown, Calls
  <1> QED BY <1>1, <1>2, <1>4, <1>5 DEF StepTold

(* A request before its read back has written nothing.                      *)
LEMMA FailTold ==
    ASSUME IInv, AllTold, NEW q \in Req, req[q].pc \in Calls,
           NEW status \in {"400", "403", "404", "500"}, Answer(q, status),
           req[q].pc = "reload" => status = "500"
    PROVE  \E s \in Request : StepTold(q, s)
  <1>1. PICK r \in Request : r = req[q]
    BY DEF IInv, TypeOK
  <1>2. /\ req' = [req EXCEPT ![q] = Answered(r, status)]
        /\ r.op = "postEnvironment" => r.env = None
        /\ status # "500" => ~r.landed
    BY <1>1 DEF Answer, AllTold, Told
  <1> QED BY <1>2, AnswerTold DEF Statuses, Good

LEMMA ArriveTold ==
    ASSUME IInv, NEW q \in Req, Arrive(q)
    PROVE  \E s \in Request : StepTold(q, s)
  <1>1. Idle \in Request /\ Told(Idle)' /\ NothingShown(Idle)
    BY NoneApart DEF Idle, Request, Statuses, Told, Truthful, NothingShown, Calls, Good,
       WriteOps
  <1>2. CASE BeginAsUser(q)
    <2>1. PICK u \in User, op \in Ops, e \in Environments :
            /\ (op = "postEnvironment") = (e = None)
            /\ req' = [req EXCEPT ![q] = [Idle EXCEPT
                   !.pc = UserFlow[op].begin, !.op = op, !.user = u, !.env = e]]
      BY <1>2 DEF BeginAsUser
    <2> DEFINE s == [Idle EXCEPT
                   !.pc = UserFlow[op].begin, !.op = op, !.user = u, !.env = e]
    <2>2. /\ op \in AllOps /\ UserFlow[op]["begin"] \in Calls
          /\ UserFlow[op]["begin"] # "reload"
          /\ op # "postEnvironment" => ~Past(op, UserFlow[op]["begin"])
      <3>1. "begin" \notin {"access", "act"} /\ ~Past(op, "begin")
        BY DEF Past, Licensed
      <3> QED BY <3>1, OpsKnown, FlowsBegin, UserFlowEnds DEF EndFact
    <2>3. /\ s \in Request /\ s.pc = UserFlow[op]["begin"] /\ s.op = op /\ s.user = u
          /\ s.env = e /\ s.status = None /\ s.landed = FALSE
      BY <2>2 DEF Idle, Request, Environments
    <2>4. InFlow(s)
      BY <2>2, <2>3, FlowsBegin, ApiConstants DEF InFlow, FlowOf
    <2> HIDE DEF s
    <2>5. Told(s)'
      <3>1. InFlow(s)'
        BY <2>4 DEF InFlow, FlowOf
      <3> QED BY <2>1, <2>2, <2>3, <3>1, NoneApart DEF Told, Truthful, Statuses
    <2>6. NothingShown(s)
      BY <2>1, <2>2, <2>3, NoneApart DEF NothingShown, Good, Statuses
    <2> QED BY <2>1, <2>3, <2>5, <2>6 DEF StepTold, s
  <1>3. CASE BeginAsKey(q)
    <2>1. PICK op \in Ops, e \in Environments :
            LET r == [Idle EXCEPT !.op = op, !.user = ApiKey, !.env = e]
            IN  /\ (op = "postEnvironment") = (e = None)
                /\ req' = [req EXCEPT ![q] =
                      IF op \in ReadOps THEN [r EXCEPT !.pc = KeyFlow[op].begin]
                                        ELSE Answered(r, "403")]
      BY <1>3 DEF BeginAsKey
    <2> DEFINE r == [Idle EXCEPT !.op = op, !.user = ApiKey, !.env = e]
    <2>2. /\ op \in AllOps
          /\ r \in Request /\ r.op = op /\ r.user = ApiKey /\ r.env = e
          /\ r.status = None /\ r.landed = FALSE
      BY OpsKnown DEF Idle, Environments, Request
    <2>3. CASE op \in ReadOps
      <3> DEFINE s == [r EXCEPT !.pc = KeyFlow[op].begin]
      <3>1. KeyFlow[op].begin \in Calls \ {"act", "reload"}
        BY <2>3, FlowsBegin, KeyFlowEnds
      <3>2. /\ s \in Request /\ s.op = op /\ s.user = ApiKey /\ s.env = e
            /\ s.pc = KeyFlow[op]["begin"] /\ s.status = None /\ s.landed = FALSE
        <4> HIDE DEF r
        <4> QED BY <2>2, <3>1 DEF Request
      <3>3. req' = [req EXCEPT ![q] = s]
        BY <2>1, <2>3
      <3> HIDE DEF s, r
      <3>4. InFlow(s)'
        BY <2>3, <3>2, FlowsBegin DEF InFlow, FlowOf
      <3>5. Told(s)'
        BY <2>1, <3>1, <3>2, <3>4, NoneApart DEF Told, Truthful, Statuses
      <3>6. NothingShown(s)
        BY <3>2, ApiConstants DEF NothingShown
      <3> QED BY <3>2, <3>3, <3>5, <3>6 DEF StepTold
    <2>4. CASE op \notin ReadOps
      <3>1. req' = [req EXCEPT ![q] = Answered(r, "403")]
        BY <2>1, <2>4
      <3>2. op = "postEnvironment" => e = None
        BY <2>1
      <3> HIDE DEF r
      <3>3. "403" \in Statuses \ Good
        BY DEF Statuses, Good
      <3> QED BY <2>2, <3>1, <3>2, <3>3, AnswerTold
    <2> QED BY <2>3, <2>4
  <1>4. CASE BeginFails(q)
    <2> DEFINE s == Answered(Idle, "200")
    <2>1. /\ s \in Request /\ s.pc = "done" /\ s.op = None /\ s.env = None
          /\ s.status = "200" /\ s.landed = FALSE
      BY <1>1 DEF Answered, Idle, Request, Statuses
    <2>2. req' = [req EXCEPT ![q] = s]
      BY <1>4 DEF BeginFails
    <2> HIDE DEF s
    <2>3. Told(s)' /\ NothingShown(s)
      BY <2>1, NoneApart DEF Told, Truthful, WriteOps, NothingShown, Calls
    <2> QED BY <2>1, <2>2, <2>3 DEF StepTold
  <1>5. CASE Finish(q)
    BY <1>1, <1>5 DEF Finish, StepTold
  <1> QED BY <1>2, <1>3, <1>4, <1>5 DEF Arrive

LEMMA LookTold ==
    ASSUME IInv, AllTold, NEW q \in Req, Look(q)
    PROVE  \E s \in Request : StepTold(q, s)
  <1>1. PICK r \in Request : r = req[q]
    BY DEF IInv, TypeOK
  <1>2. UNCHANGED catVars
    BY LookStep
  <1>3. r.pc \in Calls \ {"act"} => ~(r.landed /\ r.pc # "reload")
    BY <1>1 DEF AllTold, Told
  <1>4. /\ r.pc \in Calls => (r.landed <=> r.pc = "reload")
        /\ r.pc = "reload" /\ r.op # "patchEnvironment" => r.row \in minted \cap Row
    BY <1>1 DEF AllTold, Told
  <1>5. ASSUME r.pc \in {"findEnv", "read", "reload"}, Proceed(q, req[q])
        PROVE  \E s \in Request : StepTold(q, s)
    <2>1. Proceed(q, r) /\ r.pc \in Calls
      BY <1>1, <1>5 DEF Calls
    <2> QED BY <1>1, <1>4, <1>5, <2>1, ProceedTold
  <1>6. ASSUME NEW status \in {"400", "403", "404", "500"}, Answer(q, status),
               r.pc \in Calls \ {"reload"}
        PROVE  \E s \in Request : StepTold(q, s)
    BY <1>1, <1>6, FailTold
  <1>7. CASE RequireEnvAccess(q)
    <2>1. r.pc = "access" /\ r.pc \in Calls
      BY <1>1, <1>7 DEF RequireEnvAccess, At, Calls
    <2>2. CASE Proceed(q, req[q]) /\ CanReadRole(GetMembership(r.env, r.user))
      <3>1. Proceed(q, r) /\ GetMembership(r.env, r.user)' # None
        BY <1>1, <1>2, <2>2, ConstantsApart DEF CanReadRole, GetMembership, catVars
      <3> QED BY <1>1, <1>4, <2>1, <3>1, ProceedTold
    <2> QED BY <1>1, <1>6, <1>7, <2>1, <2>2 DEF RequireEnvAccess
  <1>8. CASE FindEnvironment(q)
    BY <1>1, <1>5, <1>6, <1>8 DEF FindEnvironment, At, Calls
  <1>9. CASE FindDevice(q)
    <2>1. r.pc = "findDevice" /\ r.pc \in Calls
      BY <1>1, <1>9 DEF FindDevice, At, Calls
    <2>2. ASSUME NEW x \in RowsIn(r.env), Proceed(q, [req[q] EXCEPT !.row = x])
          PROVE  \E s \in Request : StepTold(q, s)
      <3> DEFINE t == [r EXCEPT !.row = x]
      <3>1. /\ t \in Request /\ t.pc = r.pc /\ t.op = r.op /\ t.user = r.user
            /\ t.env = r.env /\ t.status = r.status /\ t.landed = r.landed
        BY <2>2 DEF Request, RowsIn, IInv, TypeOK, CatalogTypeOK
      <3>2. Proceed(q, t)
        BY <1>1, <2>2
      <3> HIDE DEF t
      <3> QED BY <1>1, <1>4, <2>1, <3>1, <3>2, ProceedTold
    <2> QED BY <1>1, <1>6, <1>9, <2>1, <2>2 DEF FindDevice
  <1>10. ASSUME NEW x \in User \cup Row \cup {None}, r.pc \in {"findUser", "findParent"},
                Proceed(q, [req[q] EXCEPT !.arg = x])
         PROVE  \E s \in Request : StepTold(q, s)
    <2> DEFINE t == [r EXCEPT !.arg = x]
    <2>1. /\ t \in Request /\ t.pc = r.pc /\ t.op = r.op /\ t.user = r.user
          /\ t.env = r.env /\ t.status = r.status /\ t.landed = r.landed
      BY <1>10 DEF Request
    <2>2. Proceed(q, t) /\ r.pc \in Calls
      BY <1>1, <1>10 DEF Calls
    <2> HIDE DEF t
    <2> QED BY <1>1, <1>4, <1>10, <2>1, <2>2, ProceedTold
  <1>11. CASE FindUser(q)
    <2>1. users \subseteq User
      BY DEF IInv, TypeOK, CatalogTypeOK
    <2> QED BY <1>1, <1>6, <1>10, <1>11, <2>1 DEF FindUser, At, Calls
  <1>12. CASE FindParent(q)
    BY <1>1, <1>6, <1>10, <1>12 DEF FindParent, At, Calls
  <1>13. CASE Read(q)
    BY <1>1, <1>5, <1>13 DEF Read, At
  <1>14. CASE Reload(q)
    <2>1. r.pc = "reload" /\ r.pc \in Calls /\ r.op \in AllOps
      BY <1>1, <1>14 DEF Reload, At, Calls, IInv, RequestsKnown, Known
    <2>2. ASSUME NEW status \in {"404", "panic"}, Answer(q, status),
                 status = IF r.op = "patchDevice" THEN "404" ELSE "panic", ~StillThere(r)
          PROVE  \E s \in Request : StepTold(q, s)
      <3>1. /\ req' = [req EXCEPT ![q] = Answered(r, status)]
            /\ r.op = "postEnvironment" => r.env = None
        BY <1>1, <2>2 DEF Answer, AllTold, Told
      <3>2. r.op \in Reloading
        <4>1. InFlow(r)
          BY <1>1, <2>1 DEF AllTold, Told
        <4>2. r.user = ApiKey => r.op \in ReadOps
          BY <1>1, <2>1 DEF IInv, RequestsKnown, Known
        <4> QED BY <2>1, <4>1, <4>2, UserFlowEnds, KeyFlowEnds DEF InFlow, FlowOf, EndFact
      <3>3. r.op = "patchEnvironment" => EnvGone(r.env)'
        BY <1>1, <1>2, <2>1, <2>2 DEF StillThere, EnvGone, catVars, IInv, RequestsKnown, Known
      <3>4. r.op # "patchEnvironment" => RowGone(r.row)'
        BY <1>2, <1>4, <2>1, <2>2 DEF StillThere, RowGone, catVars
      <3> QED BY <2>2, <3>1, <3>2, <3>3, <3>4, AnswerTold DEF Reloading, Statuses, Good
    <2> QED BY <1>1, <1>5, <1>14, <2>1, <2>2 DEF Reload
  <1>15. CASE CallFails(q)
    BY <1>15, FailTold DEF CallFails, Refused
  <1> QED
    BY <1>7, <1>8, <1>9, <1>11, <1>12, <1>13, <1>14, <1>15 DEF Look

LEMMA CommittedTold ==
    ASSUME IInv, AllTold, NEW q \in Req, At(q, "act"),
           NEW r \in Request, Committed(q, r), r.pc = "act", r.op = req[q].op,
           r.user = req[q].user, r.env = req[q].env, r.status = req[q].status,
           r.op \in {"postDevice", "patchDevice"} => r.row \in (minted \cap Row)'
    PROVE  \E s \in Request : StepTold(q, s)
  <1> DEFINE t == [r EXCEPT !.landed = TRUE]
  <1>1. /\ t \in Request /\ t.pc = r.pc /\ t.op = r.op /\ t.user = r.user
        /\ t.env = r.env /\ t.row = r.row /\ t.status = r.status /\ t.landed = TRUE
    BY DEF Request
  <1>2. \/ Proceed(q, t)
        \/ req' = [req EXCEPT ![q] = Answered(t, "500")]
    BY DEF Committed
  <1> HIDE DEF t
  <1>3. req[q].pc = "act" /\ req[q].pc \in Calls
    BY DEF At, Calls
  <1>4. CASE Proceed(q, t)
    BY <1>1, <1>3, <1>4, ProceedTold
  <1>5. CASE req' = [req EXCEPT ![q] = Answered(t, "500")]
    <2>1. t.op = "postEnvironment" => t.env = None
      BY <1>1 DEF AllTold, Told
    <2>2. "500" \in Statuses \ Good
      BY DEF Statuses, Good
    <2> QED BY <1>1, <1>5, <2>1, <2>2, AnswerTold
  <1> QED BY <1>2, <1>4, <1>5

LEMMA WriteTold ==
    ASSUME IInv, AllTold, NEW q \in Req, Write(q)
    PROVE  \E s \in Request : StepTold(q, s)
  <1>1. PICK r \in Request : r = req[q]
    BY DEF IInv, TypeOK
  <1>2. At(q, "act") /\ r.pc = "act" /\ r.pc \in Calls
    BY <1>1 DEF Write, PostEnvironment, PatchEnvironment, DeleteEnvironmentOf, PostMember,
       PatchMember, DeleteMember, PostDevice, PatchDevice, DeleteDeviceOf, Doing, At, Calls
  <1>3. Grown
    BY WriteStep, CatalogGrows DEF IInv, TypeOK
  <1>4. ASSUME Committed(q, req[q]), r.op # "postDevice"
        PROVE  \E s \in Request : StepTold(q, s)
    <2>1. Committed(q, r)
      BY <1>1, <1>4
    <2>2. r.op = "patchDevice" => r.row \in (minted \cap Row)'
      BY <1>1, <1>2, <1>3 DEF IInv, RequestsKnown, Known, Grown
    <2> QED BY <1>1, <1>2, <1>4, <2>1, <2>2, CommittedTold
  <1>5. ASSUME Refused(q, "500")
        PROVE  \E s \in Request : StepTold(q, s)
    BY <1>1, <1>2, <1>5, FailTold DEF Refused
  <1>6. CASE PostEnvironment(q)
    BY <1>1, <1>4, <1>6 DEF PostEnvironment, Doing
  <1>7. CASE PatchEnvironment(q)
    BY <1>1, <1>4, <1>7 DEF PatchEnvironment, Doing
  <1>8. CASE DeleteEnvironmentOf(q)
    BY <1>1, <1>4, <1>8 DEF DeleteEnvironmentOf, Doing
  <1>9. CASE PostMember(q) \/ PatchMember(q)
    BY <1>1, <1>4, <1>5, <1>9 DEF PostMember, PatchMember, WriteMember, Doing
  <1>10. CASE DeleteMember(q)
    BY <1>1, <1>4, <1>10 DEF DeleteMember, Doing
  <1>11. CASE PostDevice(q)
    <2>1. ASSUME NEW x \in Row \ minted, minted' = minted \cup {x},
                 Committed(q, [req[q] EXCEPT !.row = x])
          PROVE  \E s \in Request : StepTold(q, s)
      <3> DEFINE t == [r EXCEPT !.row = x]
      <3>1. /\ t \in Request /\ t.pc = r.pc /\ t.op = r.op /\ t.user = r.user
            /\ t.env = r.env /\ t.status = r.status /\ t.row = x
        BY DEF Request
      <3>2. Committed(q, t)
        BY <1>1, <2>1
      <3>3. x \in (minted \cap Row)'
        BY <2>1
      <3> HIDE DEF t
      <3> QED BY <1>1, <1>2, <3>1, <3>2, <3>3, CommittedTold
    <2> QED BY <1>5, <1>11, <2>1 DEF PostDevice, InsertDevice
  <1>12. CASE PatchDevice(q)
    BY <1>1, <1>4, <1>5, <1>12 DEF PatchDevice, Doing
  <1>13. CASE DeleteDeviceOf(q)
    BY <1>1, <1>4, <1>13 DEF DeleteDeviceOf, Doing
  <1> QED
    BY <1>6, <1>7, <1>8, <1>9, <1>10, <1>11, <1>12, <1>13 DEF Write

-----------------------------------------------------------------------------
LEMMA AllToldInit == Init => AllTold
  BY NoneApart DEF Init, Idle, AllTold, Told, Truthful, Welcome, Statuses, Good, Calls,
     WriteOps

LEMMA AllToldStep == IInv /\ IInv' /\ AllTold /\ [Next]_vars => AllTold'
  <1> SUFFICES ASSUME IInv, IInv', AllTold, [Next]_vars PROVE AllTold'
    OBVIOUS
  <1>1. CASE UNCHANGED vars
    BY <1>1 DEF vars, catVars, AllTold, Told, InFlow, FlowOf, Truthful, RowGone, EnvGone,
       Welcome
  <1>2. CASE Next
    <2>1. PICK q \in Req, s \in Request : StepTold(q, s)
      BY <1>2, ArriveTold, LookTold, WriteTold DEF Next
    <2>2. [CatalogNext]_catVars /\ Grown
      BY <1>2, NextStep, CatalogGrows DEF IInv, TypeOK
    <2>3. req'[q] = s /\ \A p \in Req \ {q} : req'[p] = req[p]
      BY <2>1 DEF StepTold, IInv, TypeOK
    <2>4. /\ \A p \in Req : req'[p].pc # "idle" => held'[p] = held[p] \cup RoleOf(req[p])'
      BY <1>2, WatchFacts DEF Next, IInv, TypeOK
    <2>5. ASSUME NEW p \in Req \ {q} PROVE Told(req[p])' /\ Welcome(req[p], held[p])'
      <3>1. PICK r \in Request : r = req[p] /\ r = req'[p]
        BY <2>3 DEF IInv, TypeOK
      <3>2. Told(r) /\ Welcome(r, held[p])
        BY <3>1 DEF AllTold
      <3>3. Told(r)'
        BY <2>2, <3>2, ToldGrows
      <3>4. Told(req[p])'
        BY <3>1, <3>3 DEF Told, InFlow, FlowOf, Truthful, RowGone, EnvGone
      <3>5. CASE r.pc = "idle"
        BY <3>1, <3>2, <3>4, <3>5, NoneApart DEF Welcome, Told, Good, Statuses, Calls
      <3>6. CASE r.pc # "idle"
        <4>1. held[p] \subseteq held'[p]
          BY <2>4, <3>1, <3>6
        <4> QED BY <3>1, <3>2, <3>4, <4>1 DEF Welcome
      <3> QED BY <3>4, <3>5, <3>6
    <2>6. Told(req[q])'
      BY <2>1, <2>3 DEF StepTold, Told, InFlow, FlowOf, Truthful, RowGone, EnvGone
    <2>7. Welcome(req[q], held[q])'
      <3>1. SUFFICES ASSUME s.user \in User, s.env # None,
                            s.status \in Good \/ (s.pc \in Calls /\ Past(s.op, s.pc))
                     PROVE  held'[q] # {}
        BY <2>3 DEF Welcome
      <3>2. Entitled(q, s)
        BY <2>1, <3>1 DEF StepTold, NothingShown
      <3>3. held'[q] = held[q] \cup RoleOf(req[q])'
        BY <2>3, <2>4, <3>2 DEF Entitled
      <3>4. CASE GetMembership(s.env, s.user)' # None
        <4>1. RoleOf(req[q])' # {}
          BY <2>3, <3>4 DEF RoleOf, GetMembership
        <4> QED BY <3>3, <4>1
      <3>5. CASE req[q].pc \in Calls /\ Past(req[q].op, req[q].pc)
        BY <3>1, <3>2, <3>3, <3>5 DEF Entitled, AllTold, Welcome
      <3> QED BY <3>2, <3>4, <3>5 DEF Entitled
    <2> QED BY <2>5, <2>6, <2>7 DEF AllTold
  <1> QED BY <1>1, <1>2

LEMMA AlwaysTold == Spec => []AllTold
  BY AllToldInit, AllToldStep, Invariant, PTL DEF Spec

\* What a handler answers agrees with what it did: a refusal wrote nothing, a
\* success committed, and a 404 or a panic after a write means that what was
\* written is already gone, whatever the other requests do meanwhile.
THEOREM AnswersAreTrue == Spec => []AnswersTellTheTruth
  <1>1. AllTold => AnswersTellTheTruth
    BY DEF AllTold, Told, Truthful, RowGone, EnvGone, AnswersTellTheTruth
  <1> QED BY <1>1, AlwaysTold, PTL

\* Every success in an environment was given to a user that had a role in it
\* at some moment since the request began.
THEOREM OnlyMembersAreServed == Spec => []MembersOnly
  <1>1. AllTold => MembersOnly
    BY DEF AllTold, Welcome, Good, MembersOnly
  <1> QED BY <1>1, AlwaysTold, PTL

=============================================================================
