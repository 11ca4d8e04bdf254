--------------------------- MODULE HiveApiProofs ---------------------------
(***************************************************************************)
(* What the HTTP API guarantees for any number of requests, users,         *)
(* environments and devices.                                               *)
(***************************************************************************)
EXTENDS HiveApi, CatalogProofs

(* Operations that need a licence, and the calls they make once they have it. *)
Guarded == WriteOps \ {"postEnvironment"}
Licensed == {"findEnv", "findUser", "findParent", "act", "reload"}

LEMMA OpNames ==
    /\ AllOps = {"postEnvironment", "getEnvironment", "patchEnvironment",
                 "deleteEnvironment", "listMembers", "postMember", "patchMember",
                 "deleteMember", "listDevices", "postDevice", "getDevice",
                 "patchDevice", "deleteDevice"}
    /\ ReadOps = {"getEnvironment", "listMembers", "listDevices", "getDevice"}
  BY DEF AllOps, ReadOps, UserFlow, KeyFlow

(* The order of the calls, as far as the invariants need it. *)
FlowFact(op, c, d) ==
    /\ d \in Calls
    /\ d = "act" => op \in WriteOps /\ c # "act"
    /\ op \in Guarded /\ d \in Licensed => c \in Licensed \cup {"access"}
    /\ op = "postMember" /\ d = "act" => c = "findUser"
    /\ op = "postDevice" /\ d = "act" => c = "findParent"
    /\ op \in {"patchDevice", "deleteDevice"} /\ d \in {"access", "act", "reload"}
         => c \in {"findDevice", "access", "act"}

LEMMA UserFlowFacts ==
    \A op \in AllOps : \A c \in DOMAIN UserFlow[op] : FlowFact(op, c, UserFlow[op][c])
  <1> SUFFICES ASSUME NEW op \in AllOps, NEW c \in DOMAIN UserFlow[op]
               PROVE  FlowFact(op, c, UserFlow[op][c])
    OBVIOUS
  <1> USE OpNames DEF FlowFact, Calls, WriteOps, Guarded, Licensed, UserFlow
  <1>1. CASE op = "postEnvironment" BY <1>1
  <1>2. CASE op = "getEnvironment" BY <1>2
  <1>3. CASE op = "patchEnvironment" BY <1>3
  <1>4. CASE op = "deleteEnvironment" BY <1>4
  <1>5. CASE op \in {"listMembers", "listDevices"} BY <1>5
  <1>6. CASE op = "postMember" BY <1>6
  <1>7. CASE op \in {"patchMember", "deleteMember"} BY <1>7
  <1>8. CASE op = "postDevice" BY <1>8
  <1>9. CASE op = "getDevice" BY <1>9
  <1>10. CASE op = "patchDevice" BY <1>10
  <1>11. CASE op = "deleteDevice" BY <1>11
  <1> QED BY <1>1, <1>2, <1>3, <1>4, <1>5, <1>6, <1>7, <1>8, <1>9, <1>10, <1>11, OpNames

LEMMA KeyFlowFacts ==
    \A op \in ReadOps : \A c \in DOMAIN KeyFlow[op] :
        KeyFlow[op][c] \in Calls \ {"act"}
  BY OpNames DEF KeyFlow, Calls

LEMMA FlowsBegin ==
    /\ \A op \in AllOps : "begin" \in DOMAIN UserFlow[op]
    /\ \A op \in ReadOps : "begin" \in DOMAIN KeyFlow[op]
  BY OpNames DEF UserFlow, KeyFlow

LEMMA SuccessType == \A op \in AllOps : Success[op] \in Statuses
  BY DEF Success, Statuses

-----------------------------------------------------------------------------
(* The request r is at a call it can be at, with what the earlier calls     *)
(* have found for it.  Found rows may be gone, but never move.              *)
SameEnvironment(r, e) == r \in DOMAIN dev => dev[r].env = e

Known(r) ==
    /\ r.op \in AllOps
    /\ r.user \in users \cup {ApiKey}
    /\ r.user = ApiKey => r.op \in ReadOps
    /\ r.op # "postEnvironment" => r.env \in minted \cap Env
    /\ r.pc = "act" => r.op \in WriteOps
    /\ r.op = "postMember" /\ r.pc = "act" => r.arg \in users
    /\ r.op = "postDevice" /\ r.pc = "act" =>
          r.arg \in Parents /\ SameEnvironment(r.arg, r.env)
    /\ r.op \in {"patchDevice", "deleteDevice"} /\ r.pc \in {"access", "act", "reload"} =>
          r.row \in minted \cap Row /\ SameEnvironment(r.row, r.env)

RequestsKnown ==
    \A q \in Req :
        /\ req[q].pc = "idle" => held[q] = {}
        /\ req[q].pc \in Calls => Known(req[q])

(* A request that may be about to write has been an editor's.               *)
Authority ==
    \A q \in Req : req[q].op \in Guarded /\ req[q].pc \in Licensed =>
        "editor" \in held[q]

IInv == TypeOK /\ CatalogIntegrity /\ RequestsKnown /\ Authority

(* What one step makes of request q: it becomes s.                          *)
StepTo(q, s) ==
    /\ req' = [req EXCEPT ![q] = s]
    /\ \/ s.pc = "idle"
       \/ req[q].pc = "idle"
       \/ s.user = req[q].user /\ s.env = req[q].env
    /\ s.pc \in Calls => Known(s)'
    /\ s.pc = "act" => req[q].pc # "act"
    /\ s.op \in Guarded /\ s.pc \in Licensed =>
          \/ req[q].op \in Guarded /\ req[q].pc \in Licensed
          \/ GetMembership(s.env, s.user)' = "editor"

LEMMA AdvanceFacts ==
    ASSUME NEW r \in Request, r.op \in AllOps, r.user \in User \cup {ApiKey},
           r.user = ApiKey => r.op \in ReadOps
    PROVE  /\ Advanced(r) \in Request
           /\ Advanced(r).op = r.op /\ Advanced(r).user = r.user
           /\ Advanced(r).env = r.env /\ Advanced(r).row = r.row
           /\ Advanced(r).arg = r.arg
           /\ \/ Advanced(r).pc = "done"
              \/ Advanced(r).pc \in Calls /\ r.user \in User
                   /\ FlowFact(r.op, r.pc, Advanced(r).pc)
              \/ Advanced(r).pc \in Calls /\ r.user = ApiKey /\ Advanced(r).pc # "act"
  <1>1. CASE r.pc \notin DOMAIN FlowOf(r)
    BY <1>1, SuccessType DEF Advanced, Answered, Request
  <1>2. CASE r.pc \in DOMAIN FlowOf(r) /\ r.user = ApiKey
    <2>1. KeyFlow[r.op][r.pc] \in Calls \ {"act"}
      BY <1>2, KeyFlowFacts DEF FlowOf
    <2> QED BY <1>2, <2>1 DEF Advanced, FlowOf, Request
  <1>3. CASE r.pc \in DOMAIN FlowOf(r) /\ r.user # ApiKey
    <2>1. FlowFact(r.op, r.pc, UserFlow[r.op][r.pc])
      BY <1>3, UserFlowFacts DEF FlowOf
    <2>2. UserFlow[r.op][r.pc] \in Calls
      BY <2>1 DEF FlowFact
    <2>3. Advanced(r) = [r EXCEPT !.pc = UserFlow[r.op][r.pc]]
      BY <1>3 DEF Advanced, FlowOf
    <2> QED BY <1>3, <2>1, <2>2, <2>3 DEF Request
  <1> QED BY <1>1, <1>2, <1>3

LEMMA AnsweredFacts ==
    ASSUME NEW r \in Request, NEW status \in Statuses
    PROVE  /\ Answered(r, status) \in Request
           /\ Answered(r, status).pc = "done"
           /\ Answered(r, status).user = r.user /\ Answered(r, status).env = r.env
  BY DEF Answered, Request

(* The catalogue only ever grows in users and ids, and rows stay put.       *)
Grown ==
    /\ users \subseteq users'
    /\ minted \subseteq minted'
    /\ DOMAIN dev' \subseteq Row
    /\ \A x \in minted \cap Row : x \in DOMAIN dev' =>
          x \in DOMAIN dev /\ dev'[x].env = dev[x].env

LEMMA SameEnvironmentGrows ==
    ASSUME Grown, NEW x \in Parents, NEW e, SameEnvironment(x, e)
    PROVE  SameEnvironment(x, e)'
  BY ConstantsApart DEF Grown, SameEnvironment, Parents

LEMMA KnownGrows ==
    ASSUME Grown, NEW r \in Request, Known(r)
    PROVE  Known(r)'
  <1>1. r.arg \in Parents /\ SameEnvironment(r.arg, r.env) => SameEnvironment(r.arg, r.env)'
    BY SameEnvironmentGrows
  <1>2. r.row \in Parents /\ SameEnvironment(r.row, r.env) => SameEnvironment(r.row, r.env)'
    BY SameEnvironmentGrows
  <1>3. (minted \cap Row) \subseteq (minted \cap Row)' /\ Parents \subseteq Parents'
    BY DEF Grown, Parents
  <1>4. (minted \cap Row) \subseteq Parents
    BY DEF Parents
  <1> QED BY <1>1, <1>2, <1>3, <1>4 DEF Grown, Known

(* The next call of q, given what this one has found for it.                *)
LEMMA AdvanceStep ==
    ASSUME NEW q \in Req, NEW r \in Request, Proceed(q, r), Grown, Known(req[q]),
           r.pc \in Calls, r.pc = req[q].pc, r.op = req[q].op,
           r.user = req[q].user, r.env = req[q].env, ApiKey \notin User, users' \subseteq User,
           r.op \in Guarded /\ r.pc = "access" => GetMembership(r.env, r.user)' = "editor",
           r.op = "postMember" /\ r.pc = "findUser" => r.arg \in users',
           r.op = "postDevice" /\ r.pc = "findParent" =>
              r.arg \in Parents' /\ SameEnvironment(r.arg, r.env)',
           r.op \in {"patchDevice", "deleteDevice"}
             /\ r.pc \in {"findDevice", "access", "act"} =>
              r.row \in (minted \cap Row)' /\ SameEnvironment(r.row, r.env)'
    PROVE  Advanced(r) \in Request /\ StepTo(q, Advanced(r))
  <1> DEFINE s == Advanced(r)
  <1>1. r.op \in AllOps /\ r.user \in users \cup {ApiKey} /\ (r.user = ApiKey => r.op \in ReadOps)
    BY DEF Known
  <1>2. r.user \in users' \cup {ApiKey} /\ r.user \in User \cup {ApiKey}
    BY <1>1 DEF Grown
  <1>3. /\ s \in Request
        /\ s.op = r.op /\ s.user = r.user /\ s.env = r.env /\ s.row = r.row /\ s.arg = r.arg
        /\ \/ s.pc = "done"
           \/ s.pc \in Calls /\ r.user \in User /\ FlowFact(r.op, r.pc, s.pc)
           \/ s.pc \in Calls /\ r.user = ApiKey /\ s.pc # "act"
    BY <1>1, <1>2, AdvanceFacts
  <1>4. r.op # "postEnvironment" => r.env \in (minted \cap Env)'
    BY DEF Known, Grown
  <1>5. CASE s.pc = "done"
    BY <1>3, <1>5 DEF StepTo, Proceed, Calls, Licensed
  <1>6. CASE s.pc \in Calls /\ r.user \in User /\ FlowFact(r.op, r.pc, s.pc)
    <2>1. Known(s)'
      BY <1>1, <1>2, <1>3, <1>4, <1>6, OpNames DEF Known, FlowFact, WriteOps
    <2>2. s.op \in Guarded /\ s.pc \in Licensed =>
            \/ req[q].op \in Guarded /\ req[q].pc \in Licensed
            \/ GetMembership(s.env, s.user)' = "editor"
      BY <1>3, <1>6 DEF FlowFact
    <2>3. s.pc = "act" => req[q].pc # "act"
      BY <1>6 DEF FlowFact
    <2> QED BY <1>3, <2>1, <2>2, <2>3 DEF StepTo, Proceed
  <1>7. CASE s.pc \in Calls /\ r.user = ApiKey /\ s.pc # "act"
    <2>1. s.op \in ReadOps
      BY <1>1, <1>3, <1>7
    <2>2. Known(s)' /\ s.op \notin Guarded
      BY <1>1, <1>2, <1>3, <1>4, <1>7, <2>1, OpNames DEF Known, Guarded, WriteOps
    <2> QED BY <1>3, <1>7, <2>2 DEF StepTo, Proceed
  <1> QED BY <1>3, <1>5, <1>6, <1>7

LEMMA CatalogGrows ==
    ASSUME CatalogTypeOK, CatalogIntegrity, [CatalogNext]_catVars
    PROVE  CatalogTypeOK' /\ Grown
  <1>1. CatalogTypeOK'
    BY CatalogTypeStep
  <1>2. users \subseteq users' /\ minted \subseteq minted'
    BY DEF CatalogNext, catVars, UpsertFromMe, CreateEnvironment, DeleteEnvironment,
           UpsertMember, RemoveMember, InsertDevice, UpdateDevice, DeleteDevice
  <1>3. ASSUME NEW x \in minted \cap Row, x \in DOMAIN dev'
        PROVE  x \in DOMAIN dev /\ dev'[x].env = dev[x].env
    <2>1. CASE dev' = dev
      BY <1>3, <2>1
    <2>2. CASE \E S : dev' = Drop(dev, S)
      BY <1>3, <2>2 DEF Drop, Restrict
    <2>3. CASE \E r \in Row, d \in Device : r \notin minted /\ dev' = Put(dev, r, d)
      BY <1>3, <2>3 DEF Put
    <2>4. ASSUME NEW r \in Row, NEW l \in Label, NEW p \in Parents, UpdateDevice(r, l, p)
          PROVE  x \in DOMAIN dev /\ dev'[x].env = dev[x].env
      <3>1. [dev[r] EXCEPT !.label = l, !.parent = p].env = dev[r].env
        BY <2>4 DEF UpdateDevice, CatalogTypeOK, Device
      <3> QED BY <1>3, <2>4, <3>1 DEF UpdateDevice, Put
    <2>5. ASSUME NEW e \in Env, NEW l \in Label, NEW p \in Parents
          PROVE  [env |-> e, label |-> l, parent |-> p] \in Device
      BY DEF Device, Parents
    <2> QED
      BY <2>1, <2>2, <2>3, <2>4, <2>5
         DEF CatalogNext, catVars, UpsertFromMe, CreateEnvironment, DeleteEnvironment,
             UpsertMember, RemoveMember, InsertDevice, DeleteDevice
  <1> QED BY <1>1, <1>2, <1>3 DEF Grown, CatalogTypeOK

(* A request that begins, is turned away, or is over.                       *)
LEMMA ArriveStep ==
    ASSUME IInv, NEW q \in Req, Arrive(q)
    PROVE  [CatalogNext]_catVars /\ \E s \in Request : StepTo(q, s)
  <1> USE DEF Request, Calls, Statuses
  <1>1. Idle \in Request
    BY DEF Idle
  <1>2. ASSUME BeginAsUser(q)
        PROVE  [CatalogNext]_catVars /\ \E s \in Request : StepTo(q, s)
    <2>1. PICK u \in User, op \in Ops, e \in Environments :
            /\ (op = "postEnvironment") = (e = None)
            /\ UpsertFromMe(u)
            /\ req' = [req EXCEPT ![q] = [Idle EXCEPT
                   !.pc = UserFlow[op].begin, !.op = op, !.user = u, !.env = e]]
      BY <1>2 DEF BeginAsUser
    <2> DEFINE s == [Idle EXCEPT
                   !.pc = UserFlow[op].begin, !.op = op, !.user = u, !.env = e]
    <2>2. op \in AllOps /\ FlowFact(op, "begin", UserFlow[op]["begin"])
      BY OpsKnown, FlowsBegin, UserFlowFacts
    <2>3. /\ s.pc = UserFlow[op]["begin"] /\ s.op = op /\ s.user = u /\ s.env = e
          /\ s \in Request
      BY <1>1, <2>2 DEF Idle, FlowFact, Environments
    <2>4. u \in users' /\ minted' = minted
      BY <2>1 DEF UpsertFromMe
    <2>5. Known(s)'
      BY <2>1, <2>2, <2>3, <2>4, ApiConstants, OpNames
         DEF Known, FlowFact, Environments, WriteOps, ReadOps
    <2>6. StepTo(q, s)
      BY <1>2, <2>1, <2>2, <2>3, <2>5 DEF StepTo, BeginAsUser, At, FlowFact, Licensed
    <2>7. CatalogNext
      BY <2>1 DEF CatalogNext
    <2> QED BY <2>3, <2>6, <2>7
  <1>3. ASSUME BeginAsKey(q)
        PROVE  [CatalogNext]_catVars /\ \E s \in Request : StepTo(q, s)
    <2>1. PICK op \in Ops, e \in Environments :
            LET r == [Idle EXCEPT !.op = op, !.user = ApiKey, !.env = e]
            IN  /\ (op = "postEnvironment") = (e = None)
                /\ req' = [req EXCEPT ![q] =
                      IF op \in ReadOps THEN [r EXCEPT !.pc = KeyFlow[op].begin]
                                        ELSE Answered(r, "403")]
      BY <1>3 DEF BeginAsKey
    <2> DEFINE r == [Idle EXCEPT !.op = op, !.user = ApiKey, !.env = e]
    <2>2. /\ op \in AllOps /\ e \in Env \cup {None}
          /\ r \in Request /\ r.op = op /\ r.user = ApiKey /\ r.env = e
      BY OpsKnown DEF Idle, Environments
    <2>3. CASE op \in ReadOps
      <3> DEFINE s == [r EXCEPT !.pc = KeyFlow[op].begin]
      <3>1. KeyFlow[op].begin \in Calls \ {"act"}
        BY <2>3, FlowsBegin, KeyFlowFacts
      <3>2. s \in Request /\ s.op = op /\ s.user = ApiKey /\ s.env = e /\ s.pc # "act"
        <4> HIDE DEF r
        <4> QED BY <2>2, <3>1
      <3>3. Known(s)' /\ op \notin Guarded
        BY <1>3, <2>1, <2>2, <2>3, <3>2, OpNames
           DEF Known, Environments, BeginAsKey, catVars, Guarded, WriteOps
      <3> QED BY <1>3, <2>1, <2>3, <3>2, <3>3 DEF StepTo, BeginAsKey, At
    <2>4. CASE op \notin ReadOps
      BY <1>3, <2>1, <2>2, <2>4, AnsweredFacts DEF StepTo, BeginAsKey, At, Licensed
    <2> QED BY <1>3, <2>3, <2>4 DEF BeginAsKey
  <1>4. ASSUME BeginFails(q)
        PROVE  [CatalogNext]_catVars /\ \E s \in Request : StepTo(q, s)
    BY <1>1, <1>4, AnsweredFacts DEF BeginFails, StepTo, At, Licensed
  <1>5. ASSUME Finish(q)
        PROVE  [CatalogNext]_catVars /\ \E s \in Request : StepTo(q, s)
    BY <1>1, <1>5 DEF Finish, StepTo, Idle, Licensed
  <1> QED BY <1>2, <1>3, <1>4, <1>5 DEF Arrive

LEMMA AnswerStep ==
    ASSUME IInv, NEW q \in Req, NEW status \in Statuses, Answer(q, status)
    PROVE  \E s \in Request : StepTo(q, s)
  <1>1. PICK r \in Request : r = req[q]
    BY DEF IInv, TypeOK
  <1>2. req' = [req EXCEPT ![q] = Answered(r, status)]
    BY <1>1 DEF Answer
  <1> DEFINE s == Answered(r, status)
  <1>3. s \in Request /\ s.pc = "done" /\ s.user = r.user /\ s.env = r.env
    BY AnsweredFacts
  <1> HIDE DEF s
  <1>4. StepTo(q, s)
    BY <1>1, <1>2, <1>3 DEF StepTo, Calls, Licensed, s
  <1> QED BY <1>3, <1>4

(* A call that reads: the catalogue is as it was.                           *)
LEMMA LookStep ==
    ASSUME IInv, NEW q \in Req, Look(q)
    PROVE  UNCHANGED catVars /\ \E s \in Request : StepTo(q, s)
  <1>1. UNCHANGED catVars
    BY DEF Look, RequireEnvAccess, FindEnvironment, FindDevice, FindUser, FindParent,
           Read, Reload, CallFails, Refused
  <1>2. /\ Grown /\ CatalogTypeOK
        /\ users' = users /\ minted' = minted /\ dev' = dev /\ member' = member
        /\ users' \subseteq User /\ ApiKey \notin User
        /\ DOMAIN dev \subseteq minted \cap Row /\ None \notin Row
    BY <1>1, CatalogGrows, ApiConstants, ConstantsApart
       DEF IInv, TypeOK, catVars, CatalogTypeOK, CatalogIntegrity, IdsMinted
  <1>3. PICK r0 \in Request : r0 = req[q]
    BY DEF IInv, TypeOK
  <1>4. r0.pc \in Calls => Known(r0) /\ Known(req[q])
    BY <1>3 DEF IInv, RequestsKnown
  <1>5. ASSUME r0.pc \in {"findEnv", "read", "reload"}, Proceed(q, req[q])
        PROVE  \E s \in Request : StepTo(q, s)
    <2>1. Proceed(q, r0) /\ r0.pc \in Calls
      BY <1>3, <1>5 DEF Calls
    <2> QED BY <1>2, <1>3, <1>4, <1>5, <2>1, AdvanceStep
  <1>6. CASE RequireEnvAccess(q)
    <2>1. r0.pc = "access" /\ r0.pc \in Calls
      BY <1>3, <1>6 DEF RequireEnvAccess, At, Calls
    <2>2. CASE Answer(q, "403")
      BY <1>1, <2>2, AnswerStep DEF Statuses
    <2>3. CASE /\ Proceed(q, req[q])
               /\ r0.op \in WriteOps => GetMembership(r0.env, r0.user) = "editor"
      <3>1. Proceed(q, r0)
        BY <1>3, <2>3
      <3>2. r0.op \in Guarded => GetMembership(r0.env, r0.user)' = "editor"
        BY <1>2, <2>3 DEF Guarded, GetMembership
      <3>3. r0.op \in {"patchDevice", "deleteDevice"} =>
              r0.row \in (minted \cap Row)' /\ SameEnvironment(r0.row, r0.env)'
        BY <1>2, <1>4, <2>1 DEF Known, SameEnvironment
      <3> QED BY <1>1, <1>2, <1>3, <1>4, <2>1, <3>1, <3>2, <3>3, AdvanceStep
    <2> QED BY <1>3, <1>6, <2>2, <2>3 DEF RequireEnvAccess, CanWriteRole
  <1>7. CASE FindEnvironment(q)
    BY <1>1, <1>3, <1>5, <1>7, AnswerStep DEF FindEnvironment, At, Statuses
  <1>8. CASE FindDevice(q)
    <2>1. r0.pc = "findDevice" /\ r0.pc \in Calls
      BY <1>3, <1>8 DEF FindDevice, At, Calls
    <2>2. ASSUME NEW x \in RowsIn(r0.env), Proceed(q, [req[q] EXCEPT !.row = x])
          PROVE  \E s \in Request : StepTo(q, s)
      <3> DEFINE r == [r0 EXCEPT !.row = x]
      <3>1. x \in minted \cap Row /\ dev[x].env = r0.env
        BY <1>2, <2>2 DEF RowsIn
      <3>2. /\ r \in Request /\ r.pc = r0.pc /\ r.op = r0.op /\ r.user = r0.user
            /\ r.env = r0.env /\ r.row = x
        BY <3>1 DEF Request
      <3>3. Proceed(q, r)
        BY <1>3, <2>2
      <3>4. r.row \in (minted \cap Row)' /\ SameEnvironment(r.row, r.env)'
        BY <1>2, <3>1, <3>2 DEF SameEnvironment
      <3> HIDE DEF r
      <3> QED BY <1>2, <1>3, <1>4, <2>1, <3>2, <3>3, <3>4, AdvanceStep
    <2> QED BY <1>1, <1>3, <1>8, <2>2, AnswerStep DEF FindDevice, Statuses
  <1>9. CASE FindUser(q)
    <2>1. r0.pc = "findUser" /\ r0.pc \in Calls
      BY <1>3, <1>9 DEF FindUser, At, Calls
    <2>2. ASSUME NEW u \in users, Proceed(q, [req[q] EXCEPT !.arg = u])
          PROVE  \E s \in Request : StepTo(q, s)
      <3> DEFINE r == [r0 EXCEPT !.arg = u]
      <3>1. /\ r \in Request /\ r.pc = r0.pc /\ r.op = r0.op /\ r.user = r0.user
            /\ r.env = r0.env /\ r.arg = u
        BY <1>2 DEF Request
      <3>2. Proceed(q, r)
        BY <1>3, <2>2
      <3> HIDE DEF r
      <3> QED BY <1>2, <1>3, <1>4, <2>1, <3>1, <3>2, AdvanceStep
    <2> QED BY <1>1, <1>9, <2>2, AnswerStep DEF FindUser, Statuses
  <1>10. CASE FindParent(q)
    <2>1. r0.pc = "findParent" /\ r0.pc \in Calls
      BY <1>3, <1>10 DEF FindParent, At, Calls
    <2>2. ASSUME NEW p \in Row \cup {None}, p = None \/ p \in RowsIn(r0.env),
                 Proceed(q, [req[q] EXCEPT !.arg = p])
          PROVE  \E s \in Request : StepTo(q, s)
      <3> DEFINE r == [r0 EXCEPT !.arg = p]
      <3>1. /\ r \in Request /\ r.pc = r0.pc /\ r.op = r0.op /\ r.user = r0.user
            /\ r.env = r0.env /\ r.arg = p
        BY DEF Request
      <3>2. Proceed(q, r)
        BY <1>3, <2>2
      <3>3. r.arg \in Parents' /\ SameEnvironment(r.arg, r.env)'
        BY <1>2, <2>2, <3>1 DEF Parents, SameEnvironment, RowsIn
      <3> HIDE DEF r
      <3> QED BY <1>2, <1>3, <1>4, <2>1, <3>1, <3>2, <3>3, AdvanceStep
    <2> QED BY <1>1, <1>3, <1>10, <2>2, AnswerStep DEF FindParent, Statuses
  <1>11. CASE Read(q)
    BY <1>1, <1>3, <1>5, <1>11 DEF Read, At
  <1>12. CASE Reload(q)
    BY <1>1, <1>3, <1>5, <1>12, AnswerStep DEF Reload, At, Statuses
  <1>13. CASE CallFails(q)
    BY <1>1, <1>13, AnswerStep DEF CallFails, Refused, Statuses
  <1> QED
    BY <1>1, <1>6, <1>7, <1>8, <1>9, <1>10, <1>11, <1>12, <1>13 DEF Look

(* A call that writes: one statement of the catalogue, or none.             *)
LEMMA CommittedStep ==
    ASSUME IInv, [CatalogNext]_catVars, NEW q \in Req, At(q, "act"),
           NEW r \in Request, Committed(q, r), r.pc = "act", r.op = req[q].op,
           r.user = req[q].user, r.env = req[q].env,
           r.op \in {"patchDevice", "deleteDevice"} => r.row = req[q].row
    PROVE  \E s \in Request : StepTo(q, s)
  <1>1. Grown /\ users' \subseteq User /\ ApiKey \notin User
    BY CatalogGrows, ApiConstants DEF IInv, TypeOK, CatalogTypeOK
  <1>2. Known(req[q]) /\ r.pc \in Calls /\ r.pc = req[q].pc
    BY DEF IInv, RequestsKnown, At, Calls
  <1> DEFINE t == [r EXCEPT !.landed = TRUE]
  <1>3. /\ t \in Request /\ t.pc = r.pc /\ t.op = r.op /\ t.user = r.user
        /\ t.env = r.env /\ t.row = r.row
    BY DEF Request
  <1>4. \/ Proceed(q, t)
        \/ req' = [req EXCEPT ![q] = Answered(t, "500")]
    BY DEF Committed
  <1> HIDE DEF t
  <1>5. CASE Proceed(q, t)
    <2>1. t.op \in {"patchDevice", "deleteDevice"} =>
            t.row \in minted \cap Row /\ SameEnvironment(t.row, t.env)
      BY <1>2, <1>3 DEF Known
    <2>2. t.op \in {"patchDevice", "deleteDevice"} =>
            t.row \in (minted \cap Row)' /\ SameEnvironment(t.row, t.env)'
      BY <1>1, <2>1 DEF Grown, SameEnvironment
    <2> QED BY <1>1, <1>2, <1>3, <1>5, <2>2, AdvanceStep
  <1>6. CASE req' = [req EXCEPT ![q] = Answered(t, "500")]
    <2> DEFINE s == Answered(t, "500")
    <2>1. s \in Request /\ s.pc = "done" /\ s.user = t.user /\ s.env = t.env
      BY <1>3, AnsweredFacts DEF Statuses
    <2>2. req' = [req EXCEPT ![q] = s]
      BY <1>6
    <2> HIDE DEF s
    <2> QED BY <1>3, <2>1, <2>2 DEF StepTo, Calls, Licensed
  <1> QED BY <1>4, <1>5, <1>6

LEMMA WriteStep ==
    ASSUME IInv, NEW q \in Req, Write(q)
    PROVE  [CatalogNext]_catVars /\ \E s \in Request : StepTo(q, s)
  <1>1. PICK r \in Request : r = req[q]
    BY DEF IInv, TypeOK
  <1>2. At(q, "act") /\ r.pc = "act" /\ r.pc \in Calls
    BY <1>1 DEF Write, PostEnvironment, PatchEnvironment, DeleteEnvironmentOf, PostMember,
       PatchMember, DeleteMember, PostDevice, PatchDevice, DeleteDeviceOf, Doing, At, Calls
  <1>3. /\ Known(r) /\ r.op \in WriteOps /\ r.user \in User /\ users \subseteq User
        /\ r.op # "postEnvironment" => r.env \in Env
    BY <1>1, <1>2 DEF IInv, RequestsKnown, Known, TypeOK, CatalogTypeOK, WriteOps
  <1>4. ASSUME Committed(q, req[q]), [CatalogNext]_catVars
        PROVE  \E s \in Request : StepTo(q, s)
    <2>1. Committed(q, r)
      BY <1>1, <1>4
    <2> QED BY <1>1, <1>2, <1>4, <2>1, CommittedStep
  <1>5. ASSUME NEW status \in Statuses, Refused(q, status)
        PROVE  [CatalogNext]_catVars /\ \E s \in Request : StepTo(q, s)
    BY <1>5, AnswerStep DEF Refused
  <1>6. CASE PostEnvironment(q)
    <2>1. CatalogNext
      BY <1>1, <1>3, <1>6 DEF PostEnvironment, CatalogNext
    <2> QED BY <1>4, <1>6, <2>1 DEF PostEnvironment
  <1>7. CASE PatchEnvironment(q)
    BY <1>4, <1>7 DEF PatchEnvironment
  <1>8. CASE DeleteEnvironmentOf(q)
    <2>1. CatalogNext
      BY <1>1, <1>3, <1>8 DEF DeleteEnvironmentOf, Doing, CatalogNext
    <2> QED BY <1>4, <1>8, <2>1 DEF DeleteEnvironmentOf
  <1>9. ASSUME NEW u \in User, WriteMember(q, u), r.op # "postEnvironment"
        PROVE  [CatalogNext]_catVars /\ \E s \in Request : StepTo(q, s)
    <2>1. CASE Refused(q, "500")
      BY <1>5, <2>1 DEF Statuses
    <2>2. CASE /\ \E role \in Role : UpsertMember(req[q].env, u, role)
               /\ Committed(q, req[q])
      <3>1. CatalogNext
        BY <1>1, <1>3, <1>9, <2>2 DEF CatalogNext
      <3> QED BY <1>4, <2>2, <3>1
    <2> QED BY <1>9, <2>1, <2>2 DEF WriteMember
  <1>10. CASE PostMember(q)
    <2>1. r.op = "postMember" /\ r.arg \in User
      BY <1>1, <1>2, <1>3, <1>10 DEF PostMember, Doing, Known
    <2>2. WriteMember(q, r.arg)
      BY <1>1, <1>10 DEF PostMember
    <2> QED BY <1>9, <2>1, <2>2
  <1>11. CASE PatchMember(q)
    BY <1>1, <1>9, <1>11 DEF PatchMember, Doing
  <1>12. CASE DeleteMember(q)
    <2>1. CatalogNext
      BY <1>1, <1>3, <1>12 DEF DeleteMember, Doing, CatalogNext
    <2> QED BY <1>4, <1>12, <2>1 DEF DeleteMember
  <1>13. CASE PostDevice(q)
    <2>1. PICK x \in Row \ minted, l \in Label \ {Blank} :
            \/ /\ InsertDevice(x, [env |-> req[q].env, label |-> l, parent |-> req[q].arg])
               /\ Committed(q, [req[q] EXCEPT !.row = x])
            \/ Refused(q, "500")
      BY <1>13 DEF PostDevice
    <2>2. CASE /\ InsertDevice(x, [env |-> req[q].env, label |-> l, parent |-> req[q].arg])
               /\ Committed(q, [req[q] EXCEPT !.row = x])
      <3>1. r.op = "postDevice" /\ r.arg \in Parents
        BY <1>1, <1>2, <1>3, <1>13 DEF PostDevice, Doing, Known
      <3>2. CatalogNext
        BY <1>1, <1>3, <2>2, <3>1 DEF CatalogNext
      <3> DEFINE t == [r EXCEPT !.row = x]
      <3>3. /\ t \in Request /\ t.pc = r.pc /\ t.op = r.op /\ t.user = r.user
            /\ t.env = r.env
        BY DEF Request
      <3>4. Committed(q, t)
        BY <1>1, <2>2
      <3> HIDE DEF t
      <3>5. \E s \in Request : StepTo(q, s)
        BY <1>1, <1>2, <3>1, <3>2, <3>3, <3>4, CommittedStep
      <3> QED BY <3>2, <3>5
    <2> QED BY <1>5, <2>1, <2>2 DEF Statuses
  <1>14. CASE PatchDevice(q)
    <2>1. CASE UNCHANGED catVars /\ Committed(q, req[q])
      BY <1>4, <2>1
    <2>2. CASE Refused(q, "500")
      BY <1>5, <2>2 DEF Statuses
    <2>3. ASSUME r.row \in DOMAIN dev, NEW l \in Label, NEW p \in NewParents(r.row),
                 UpdateDevice(r.row, l, p), Committed(q, req[q])
          PROVE  [CatalogNext]_catVars /\ \E s \in Request : StepTo(q, s)
      <3>1. p \in Parents /\ r.row \in Row
        BY <2>3 DEF NewParents, Parents, IInv, CatalogIntegrity, IdsMinted, TypeOK,
                    CatalogTypeOK
      <3>2. CatalogNext
        BY <2>3, <3>1 DEF CatalogNext
      <3> QED BY <1>4, <2>3, <3>2
    <2> QED BY <1>1, <1>14, <2>1, <2>2, <2>3 DEF PatchDevice
  <1>15. CASE DeleteDeviceOf(q)
    <2>1. r.op = "deleteDevice" /\ r.row \in Row
      BY <1>1, <1>2, <1>3, <1>15 DEF DeleteDeviceOf, Doing, Known
    <2>2. CatalogNext
      BY <1>1, <1>15, <2>1 DEF DeleteDeviceOf, CatalogNext
    <2> QED BY <1>4, <1>15, <2>2 DEF DeleteDeviceOf
  <1> QED
    BY <1>6, <1>7, <1>8, <1>10, <1>11, <1>12, <1>13, <1>14, <1>15 DEF Write

LEMMA NextStep ==
    ASSUME IInv, Next
    PROVE  [CatalogNext]_catVars /\ \E q \in Req, s \in Request : StepTo(q, s)
  <1>1. PICK q \in Req : Arrive(q) \/ Look(q) \/ Write(q)
    BY DEF Next
  <1> QED BY <1>1, ArriveStep, LookStep, WriteStep

-----------------------------------------------------------------------------
LEMMA IInvInit == Init => IInv
  <1> SUFFICES ASSUME Init PROVE IInv
    OBVIOUS
  <1>1. CatalogTypeOK /\ CatalogIntegrity
    BY CatalogTypeInit, IntegrityInit DEF Init
  <1>2. \A q \in Req : req[q].pc = "idle" /\ held[q] = {} /\ req[q] \in Request
    BY DEF Init, Idle, Request
  <1>3. TypeOK
    BY <1>1, <1>2 DEF Init, TypeOK
  <1> QED BY <1>1, <1>2, <1>3 DEF IInv, RequestsKnown, Authority, Calls, Licensed

LEMMA WatchFacts ==
    ASSUME CatalogTypeOK', Watch, held \in [Req -> SUBSET Role]
    PROVE  /\ held' \in [Req -> SUBSET Role]
           /\ \A p \in Req : req'[p].pc = "idle" => held'[p] = {}
           /\ \A p \in Req : req'[p].pc # "idle" =>
                 held'[p] = held[p] \cup RoleOf(req[p])'
  <1>1. \A p \in Req : RoleOf(req[p])' \subseteq Role
    BY DEF RoleOf, GetMembership, CatalogTypeOK
  <1> QED BY <1>1 DEF Watch

LEMMA IInvStep == IInv /\ [Next]_vars => IInv'
  <1> SUFFICES ASSUME IInv, [Next]_vars PROVE IInv'
    OBVIOUS
  <1>1. CASE UNCHANGED vars
    BY <1>1 DEF vars, catVars, IInv, TypeOK, CatalogTypeOK, CatalogIntegrity, IdsMinted,
       Parents, NothingOutlivesItsEnvironment, PathsUnique, RequestsKnown, Known,
       SameEnvironment, Authority
  <1>2. CASE Next
    <2>1. [CatalogNext]_catVars
      BY <1>2, NextStep
    <2>2. PICK q \in Req, s \in Request : StepTo(q, s)
      BY <1>2, NextStep
    <2>3. CatalogTypeOK' /\ Grown /\ CatalogIntegrity'
      BY <2>1, CatalogGrows, IntegrityStep DEF IInv, TypeOK
    <2>4. /\ req' \in [Req -> Request] /\ req'[q] = s
          /\ \A p \in Req \ {q} : req'[p] = req[p]
      BY <2>2 DEF StepTo, IInv, TypeOK
    <2>5. /\ held' \in [Req -> SUBSET Role]
          /\ \A p \in Req : req'[p].pc = "idle" => held'[p] = {}
          /\ \A p \in Req : req'[p].pc # "idle" =>
                held'[p] = held[p] \cup RoleOf(req[p])'
      BY <1>2, <2>3, WatchFacts DEF Next, IInv, TypeOK
    <2>6. TypeOK'
      BY <2>3, <2>4, <2>5 DEF TypeOK
    <2>7. ASSUME NEW p \in Req PROVE (req[p].pc \in Calls => Known(req[p]))'
      <3>1. CASE p = q
        BY <2>2, <2>4, <3>1 DEF StepTo, Known, SameEnvironment
      <3>2. CASE p # q
        <4>1. PICK r \in Request : r = req[p] /\ r = req'[p]
          BY <2>4, <3>2 DEF IInv, TypeOK
        <4>2. r.pc \in Calls => Known(r)
          BY <4>1 DEF IInv, RequestsKnown
        <4>3. r.pc \in Calls => Known(r)'
          BY <2>3, <4>2, KnownGrows
        <4> QED BY <4>1, <4>3 DEF Known, SameEnvironment
      <3> QED BY <3>1, <3>2
    <2>8. ASSUME NEW p \in Req, req'[p].op \in Guarded, req'[p].pc \in Licensed
          PROVE  "editor" \in held'[p]
      <3>1. held'[p] = held[p] \cup RoleOf(req[p])'
        BY <2>5, <2>8 DEF Licensed
      <3>2. CASE req[p].op \in Guarded /\ req[p].pc \in Licensed
        BY <3>1, <3>2 DEF IInv, Authority
      <3>3. CASE p = q /\ GetMembership(s.env, s.user)' = "editor"
        <4>1. "editor" \in RoleOf(req[p])'
          BY <2>4, <3>3, ConstantsApart DEF RoleOf, GetMembership
        <4> QED BY <3>1, <4>1
      <3> QED BY <2>2, <2>4, <2>8, <3>2, <3>3 DEF StepTo
    <2> QED BY <2>3, <2>5, <2>6, <2>7, <2>8 DEF IInv, RequestsKnown, Authority
  <1> QED BY <1>1, <1>2

LEMMA Invariant == Spec => []IInv
  BY IInvInit, IInvStep, PTL DEF Spec

\* The handlers keep their local variables, and the tables, in shape.
THEOREM TypeCorrect == Spec => []TypeOK
  BY Invariant, PTL DEF IInv

\* The handlers never bring the catalogue where the repositories could not:
\* every step of the API is one statement of the catalogue, or none.
THEOREM ApiImplementsCatalog == Spec => CatalogSpec
  <1>1. Init => CatalogInit
    BY DEF Init
  <1>2. IInv /\ [Next]_vars => [CatalogNext]_catVars
    BY NextStep DEF vars, catVars
  <1> QED BY <1>1, <1>2, Invariant, PTL DEF Spec, CatalogSpec

\* Under any interleaving of requests no member or device outlives its
\* environment, no id is used twice, and no device path is ambiguous.
THEOREM ApiKeepsIntegrity == Spec => []CatalogIntegrity
  BY Invariant, PTL DEF IInv

-----------------------------------------------------------------------------
(***************************************************************************)
(* The API implements Tenancy.  A statement touches one environment; a     *)
(* request at the call that writes holds, by Authority, a licence for the  *)
(* environment its statement touches.                                      *)
(***************************************************************************)
SameEnv(f) ==
    /\ LifeOf(f)' = LifeOf(f)
    /\ RolesIn(f)' = RolesIn(f)
    /\ ContentOf(f)' = ContentOf(f)

LEMMA SameLife ==
    ASSUME NEW f, (f \in envs') = (f \in envs), (f \in minted') = (f \in minted)
    PROVE  LifeOf(f)' = LifeOf(f)
  BY DEF LifeOf

LEMMA SameContent ==
    ASSUME NEW f, RowsIn(f)' = RowsIn(f), \A r \in RowsIn(f) : dev'[r] = dev[r]
    PROVE  ContentOf(f)' = ContentOf(f)
  BY DEF ContentOf

\* Statements of the members table concern one environment...
LEMMA MembersLocal ==
    ASSUME NEW e \in Env, NEW f \in Env, f # e,
           \/ \E u \in User, role \in Role : member' = Put(member, <<e, u>>, role)
           \/ \E U \in SUBSET User : member' = Drop(member, {e} \X U)
    PROVE  RolesIn(f)' = RolesIn(f)
  <1>1. ASSUME NEW v \in User
        PROVE  GetMembership(f, v)' = GetMembership(f, v)
    <2>1. CASE \E u \in User, role \in Role : member' = Put(member, <<e, u>>, role)
      BY <2>1 DEF Put, GetMembership
    <2>2. CASE \E U \in SUBSET User : member' = Drop(member, {e} \X U)
      BY <2>2 DEF Drop, Restrict, GetMembership
    <2> QED BY <2>1, <2>2
  <1> QED BY <1>1 DEF RolesIn

\* ... and so do those of the devices table.
LEMMA DevicesLocal ==
    ASSUME NEW e \in Env, NEW f \in Env, f # e,
           \/ \E r, d : /\ dev' = Put(dev, r, d) /\ d.env = e
                        /\ r \in DOMAIN dev => dev[r].env = e
           \/ \E S : /\ dev' = Drop(dev, S)
                     /\ \A r \in S \cap DOMAIN dev : dev[r].env = e
    PROVE  ContentOf(f)' = ContentOf(f)
  <1>1. CASE \E r, d : /\ dev' = Put(dev, r, d) /\ d.env = e
                       /\ r \in DOMAIN dev => dev[r].env = e
    <2>1. RowsIn(f)' = RowsIn(f) /\ \A r \in RowsIn(f) : dev'[r] = dev[r]
      BY <1>1 DEF Put, RowsIn
    <2> QED BY <2>1, SameContent
  <1>2. CASE \E S : /\ dev' = Drop(dev, S)
                    /\ \A r \in S \cap DOMAIN dev : dev[r].env = e
    <2>1. RowsIn(f)' = RowsIn(f) /\ \A r \in RowsIn(f) : dev'[r] = dev[r]
      BY <1>2 DEF Drop, Restrict, RowsIn
    <2> QED BY <2>1, SameContent
  <1> QED BY <1>1, <1>2

\* Nothing of an environment is left, or was ever there, when it is not live.
LEMMA NotLiveEmpty ==
    ASSUME NEW e \in Env, e \notin envs, CatalogIntegrity
    PROVE  /\ RolesIn(e) = [u \in User |-> None]
           /\ RowsIn(e) = {}
           /\ \A u \in User : <<e, u>> \notin DOMAIN member
  BY DEF RolesIn, RowsIn, GetMembership, CatalogIntegrity, NothingOutlivesItsEnvironment

(* A step that leaves the rows of the catalogue alone.                      *)
LEMMA SameAll ==
    ASSUME envs' = envs, minted' = minted, member' = member, dev' = dev, NEW f \in Env
    PROVE  SameEnv(f)
  BY DEF SameEnv, LifeOf, RolesIn, GetMembership, ContentOf, RowsIn

Created(e, u) ==
    /\ LifeOf(e) = "unborn" /\ LifeOf(e)' = "live"
    /\ RolesIn(e)' = [v \in User |-> IF v = u THEN "editor" ELSE None]
    /\ ContentOf(e)' = ContentOf(e)

Changed(e) ==
    /\ LifeOf(e) = "live"
    /\ \/ LifeOf(e)' = "live"
       \/ LifeOf(e)' = "dead" /\ RolesIn(e)' = [u \in User |-> None]

LEMMA CreateIsLocal ==
    ASSUME CatalogTypeOK, CatalogIntegrity, NEW e \in Env, NEW u \in User,
           CreateEnvironment(e, u)
    PROVE  Created(e, u) /\ \A f \in Env \ {e} : SameEnv(f)
  <1>1. e \notin envs /\ e \notin minted
    BY DEF CreateEnvironment, CatalogIntegrity, IdsMinted
  <1>2. LifeOf(e) = "unborn" /\ LifeOf(e)' = "live"
    BY <1>1 DEF LifeOf, CreateEnvironment
  <1>3. RolesIn(e)' = [v \in User |-> IF v = u THEN "editor" ELSE None]
    BY <1>1, NotLiveEmpty DEF CreateEnvironment, Put, RolesIn, GetMembership
  <1>4. ContentOf(e)' = ContentOf(e)
    BY DEF CreateEnvironment, ContentOf, RowsIn
  <1>5. ASSUME NEW f \in Env \ {e} PROVE SameEnv(f)
    <2>1. RolesIn(f)' = RolesIn(f)
      BY MembersLocal DEF CreateEnvironment, Role
    <2> QED BY <2>1 DEF CreateEnvironment, SameEnv, LifeOf, ContentOf, RowsIn
  <1> QED BY <1>2, <1>3, <1>4, <1>5 DEF Created

LEMMA DeleteIsLocal ==
    ASSUME CatalogTypeOK, CatalogIntegrity, CatalogIntegrity', NEW e \in envs,
           DeleteEnvironment(e)
    PROVE  Changed(e) /\ \A f \in Env \ {e} : SameEnv(f)
  <1>1. e \in Env /\ e \in minted
    BY DEF CatalogTypeOK, CatalogIntegrity, IdsMinted
  <1>2. LifeOf(e) = "live" /\ LifeOf(e)' = "dead"
    BY <1>1 DEF LifeOf, DeleteEnvironment
  <1>3. RolesIn(e)' = [u \in User |-> None]
    BY <1>1 DEF DeleteEnvironment, Drop, Restrict, RolesIn, GetMembership
  <1>4. ASSUME NEW f \in Env \ {e} PROVE SameEnv(f)
    <2>1. RolesIn(f)' = RolesIn(f)
      BY <1>1, MembersLocal DEF DeleteEnvironment
    <2>2. ContentOf(f)' = ContentOf(f)
      BY <1>1, DevicesLocal DEF DeleteEnvironment, RowsIn
    <2> QED BY <2>1, <2>2 DEF DeleteEnvironment, SameEnv, LifeOf
  <1> QED BY <1>2, <1>3, <1>4 DEF Changed

LEMMA MemberWriteIsLocal ==
    ASSUME CatalogTypeOK, NEW e \in envs, NEW u \in User, NEW role \in Role,
           UpsertMember(e, u, role) \/ RemoveMember(e, u)
    PROVE  Changed(e) /\ \A f \in Env \ {e} : SameEnv(f)
  <1>1. e \in Env
    BY DEF CatalogTypeOK
  <1>2. /\ envs' = envs /\ minted' = minted /\ dev' = dev
        /\ \/ member' = Put(member, <<e, u>>, role)
           \/ member' = Drop(member, {<<e, u>>})
    BY DEF UpsertMember, RemoveMember
  <1>3. {<<e, u>>} = {e} \X {u} /\ {u} \in SUBSET User
    OBVIOUS
  <1>4. ASSUME NEW f \in Env \ {e} PROVE SameEnv(f)
    <2>1. RolesIn(f)' = RolesIn(f)
      BY <1>1, <1>2, <1>3, MembersLocal
    <2> QED BY <1>2, <2>1 DEF SameEnv, LifeOf, ContentOf, RowsIn
  <1> QED BY <1>2, <1>4 DEF Changed, LifeOf

LEMMA DeviceWriteIsLocal ==
    ASSUME CatalogTypeOK, NEW e \in envs, UNCHANGED <<users, envs, member>>,
           \A f \in envs : f \in minted, minted \subseteq minted', minted' \subseteq minted \cup Row,
           \/ \E r, d : /\ dev' = Put(dev, r, d) /\ d.env = e
                        /\ r \in DOMAIN dev => dev[r].env = e
           \/ \E S : /\ dev' = Drop(dev, S)
                     /\ \A r \in S \cap DOMAIN dev : dev[r].env = e
    PROVE  Changed(e) /\ \A f \in Env \ {e} : SameEnv(f)
  <1>1. e \in Env
    BY DEF CatalogTypeOK
  <1>2. ASSUME NEW f \in Env \ {e} PROVE SameEnv(f)
    <2>1. ContentOf(f)' = ContentOf(f)
      BY <1>1, DevicesLocal
    <2> QED BY <2>1, ConstantsApart DEF SameEnv, LifeOf, RolesIn, GetMembership
  <1> QED BY <1>2 DEF Changed, LifeOf

LEMMA WriteIsLocal ==
    ASSUME IInv, CatalogIntegrity', NEW q \in Req, Write(q)
    PROVE  \/ \A f \in Env : SameEnv(f)
           \/ \E e \in Env : /\ req[q].user \in User /\ Created(e, req[q].user)
                             /\ \A f \in Env \ {e} : SameEnv(f)
           \/ \E e \in Env : /\ e \in LicenceOf(q) /\ Changed(e)
                             /\ \A f \in Env \ {e} : SameEnv(f)
  <1> DEFINE Goal ==
        \/ \A f \in Env : SameEnv(f)
        \/ \E e \in Env : /\ req[q].user \in User /\ Created(e, req[q].user)
                          /\ \A f \in Env \ {e} : SameEnv(f)
        \/ \E e \in Env : /\ e \in LicenceOf(q) /\ Changed(e)
                          /\ \A f \in Env \ {e} : SameEnv(f)
  <1>1. PICK r \in Request : r = req[q]
    BY DEF IInv, TypeOK
  <1>2. /\ CatalogTypeOK /\ CatalogIntegrity
        /\ \A f \in envs : f \in minted /\ f \in Env
    BY DEF IInv, TypeOK, CatalogTypeOK, CatalogIntegrity, IdsMinted
  <1>3. At(q, "act") /\ r.pc = "act" /\ Known(r)
    BY <1>1 DEF Write, PostEnvironment, PatchEnvironment, DeleteEnvironmentOf, PostMember,
       PatchMember, DeleteMember, PostDevice, PatchDevice, DeleteDeviceOf, Doing, At,
       IInv, RequestsKnown, Calls
  <1>4. r.op # "postEnvironment" => r.env \in LicenceOf(q) /\ r.env \in Env
    BY <1>1, <1>3 DEF IInv, Authority, Guarded, Licensed, Known, LicenceOf
  <1>5. ASSUME UNCHANGED <<envs, minted, member, dev>> PROVE Goal
    BY <1>5, SameAll
  <1>6. ASSUME r.op # "postEnvironment", Changed(r.env), \A f \in Env \ {r.env} : SameEnv(f)
        PROVE  Goal
    BY <1>4, <1>6
  <1>7. CASE PostEnvironment(q)
    <2>1. r.user \in User
      BY <1>1, <1>2, <1>3, <1>7 DEF Known, PostEnvironment, Doing, ReadOps, KeyFlow, CatalogTypeOK
    <2>2. PICK e \in Env : CreateEnvironment(e, r.user)
      BY <1>1, <1>7 DEF PostEnvironment
    <2> QED BY <1>1, <1>2, <2>1, <2>2, CreateIsLocal
  <1>8. CASE PatchEnvironment(q)
    BY <1>5, <1>8 DEF PatchEnvironment, catVars
  <1>9. CASE DeleteEnvironmentOf(q)
    <2>1. DeleteEnvironment(r.env) /\ r.op # "postEnvironment"
      BY <1>1, <1>9 DEF DeleteEnvironmentOf, Doing
    <2>2. CASE r.env \in envs
      BY <1>2, <1>6, <2>1, <2>2, DeleteIsLocal
    <2>3. CASE r.env \notin envs
      <3>1. RowsIn(r.env) = {} /\ DOMAIN member \cap ({r.env} \X User) = {}
        BY <1>2, <1>4, <2>1, <2>3, NotLiveEmpty
      <3>2. dev' = dev /\ member' = member
        BY <1>2, <2>1, <3>1 DEF DeleteEnvironment, Drop, Restrict, CatalogTypeOK
      <3> QED BY <1>5, <2>1, <2>3, <3>2 DEF DeleteEnvironment
    <2> QED BY <2>2, <2>3
  <1>10. ASSUME NEW u \in User, WriteMember(q, u), r.op # "postEnvironment" PROVE Goal
    <2>1. CASE Refused(q, "500")
      BY <1>5, <2>1 DEF Refused, catVars
    <2>2. ASSUME NEW role \in Role, UpsertMember(r.env, u, role) PROVE Goal
      <3>1. r.env \in envs
        BY <2>2 DEF UpsertMember
      <3> QED BY <1>2, <1>6, <1>10, <2>2, <3>1, MemberWriteIsLocal
    <2> QED BY <1>1, <1>10, <2>1, <2>2 DEF WriteMember
  <1>11. CASE PostMember(q)
    <2>1. r.op = "postMember" /\ r.arg \in User
      BY <1>1, <1>2, <1>3, <1>11 DEF PostMember, Doing, Known, CatalogTypeOK
    <2> QED BY <1>1, <1>10, <1>11, <2>1 DEF PostMember
  <1>12. CASE PatchMember(q)
    BY <1>1, <1>10, <1>12 DEF PatchMember, Doing
  <1>13. CASE DeleteMember(q)
    <2>1. PICK u \in User : RemoveMember(r.env, u)
      BY <1>1, <1>13 DEF DeleteMember
    <2>2. r.op # "postEnvironment"
      BY <1>1, <1>13 DEF DeleteMember, Doing
    <2>3. CASE r.env \in envs
      BY <1>2, <1>6, <2>1, <2>2, <2>3, MemberWriteIsLocal DEF Role
    <2>4. CASE r.env \notin envs
      <3>1. <<r.env, u>> \notin DOMAIN member
        BY <1>2, <1>4, <2>2, <2>4, NotLiveEmpty
      <3>2. member' = member
        BY <1>2, <2>1, <3>1 DEF RemoveMember, Drop, Restrict, CatalogTypeOK
      <3> QED BY <1>5, <2>1, <3>2 DEF RemoveMember
    <2> QED BY <2>3, <2>4
  <1>14. CASE PostDevice(q)
    <2>1. r.op # "postEnvironment"
      BY <1>1, <1>14 DEF PostDevice, Doing
    <2>2. CASE Refused(q, "500")
      BY <1>5, <2>2 DEF Refused, catVars
    <2>3. ASSUME NEW x \in Row \ minted, NEW l \in Label,
                 InsertDevice(x, [env |-> r.env, label |-> l, parent |-> r.arg])
          PROVE  Goal
      <3>1. r.env \in envs /\ x \notin DOMAIN dev
        BY <1>2, <2>3 DEF InsertDevice, CatalogIntegrity, IdsMinted
      <3> QED
        BY <1>2, <1>6, <2>1, <2>3, <3>1, DeviceWriteIsLocal DEF InsertDevice
    <2> QED BY <1>1, <1>14, <2>2, <2>3 DEF PostDevice
  <1>15. CASE PatchDevice(q)
    <2>1. /\ r.op # "postEnvironment"
          /\ r.row \in DOMAIN dev => dev[r.row].env = r.env /\ dev[r.row] \in Device
      BY <1>1, <1>2, <1>3, <1>15 DEF PatchDevice, Doing, Known, SameEnvironment, CatalogTypeOK
    <2>2. CASE UNCHANGED catVars
      BY <1>5, <2>2 DEF catVars
    <2>3. ASSUME NEW l, NEW p, UpdateDevice(r.row, l, p) PROVE Goal
      <3>1. r.row \in DOMAIN dev /\ r.env \in envs
        BY <1>2, <2>1, <2>3 DEF UpdateDevice, CatalogIntegrity, NothingOutlivesItsEnvironment
      <3>2. [dev[r.row] EXCEPT !.label = l, !.parent = p].env = r.env
        BY <2>1, <3>1 DEF Device
      <3> QED
        BY <1>2, <1>6, <2>1, <2>3, <3>1, <3>2, DeviceWriteIsLocal DEF UpdateDevice
    <2> QED BY <1>1, <1>15, <2>2, <2>3 DEF PatchDevice, Refused
  <1>16. CASE DeleteDeviceOf(q)
    <2>1. /\ r.op # "postEnvironment" /\ DeleteDevice(r.row)
          /\ r.row \in DOMAIN dev => dev[r.row].env = r.env
      BY <1>1, <1>3, <1>16 DEF DeleteDeviceOf, Doing, Known, SameEnvironment
    <2>2. CASE r.row \in DOMAIN dev
      <3>1. r.env \in envs
        BY <1>2, <2>1, <2>2 DEF CatalogIntegrity, NothingOutlivesItsEnvironment
      <3> QED
        BY <1>2, <1>6, <2>1, <3>1, DeviceWriteIsLocal DEF DeleteDevice
    <2>3. CASE r.row \notin DOMAIN dev
      <3>1. dev' = dev
        BY <1>2, <2>1, <2>3 DEF DeleteDevice, Drop, Restrict, CatalogTypeOK
      <3> QED BY <1>5, <2>1, <3>1 DEF DeleteDevice
    <2> QED BY <2>2, <2>3
  <1> QED
    BY <1>7, <1>8, <1>9, <1>11, <1>12, <1>13, <1>14, <1>15, <1>16 DEF Write

LEMMA TenancyInit == Init => T!Init
  <1> SUFFICES ASSUME Init PROVE T!Init
    OBVIOUS
  <1>1. ASSUME NEW e \in Env
        PROVE  LifeOf(e) = "unborn" /\ RolesIn(e) = [u \in User |-> None]
    BY <1>1 DEF Init, CatalogInit, LifeOf, RolesIn, GetMembership
  <1>2. ASSUME NEW q \in Req PROVE LicenceOf(q) = {}
    BY <1>2 DEF Init, LicenceOf
  <1> QED BY <1>1, <1>2 DEF T!Init, T!NoRoles

LEMMA LicencesEarned ==
    ASSUME IInv, Next, CatalogTypeOK'
    PROVE  T!LicencesEarned
  <1> SUFFICES ASSUME NEW p \in Req, NEW e \in LicenceOf(p)'
               PROVE  \/ e \in Env /\ req'[p].user \in User
                         /\ RolesIn(e)'[req'[p].user] = "editor"
                      \/ req'[p].user = req[p].user /\ e \in LicenceOf(p)
    <2>1. ASSUME NEW p \in Req, NEW e \in LicenceOf(p)'
          PROVE  \/ [x \in Req |-> req[x].user]'[p] \in T!Editors(e)'
                 \/ /\ [x \in Req |-> req[x].user]'[p] = [x \in Req |-> req[x].user][p]
                    /\ e \in [x \in Req |-> LicenceOf(x)][p]
      BY <2>1 DEF T!Editors
    <2> QED BY <2>1 DEF T!LicencesEarned
  <1>1. PICK q \in Req, s \in Request : StepTo(q, s)
    BY NextStep
  <1>2. "editor" \in held'[p] /\ e = req'[p].env
    BY DEF LicenceOf
  <1>3. req'[p].pc # "idle" /\ held'[p] = held[p] \cup RoleOf(req[p])'
    BY <1>2, WatchFacts DEF Next, IInv, TypeOK
  <1>4. CASE "editor" \in RoleOf(req[p])'
    BY <1>2, <1>4 DEF RoleOf, GetMembership, CatalogTypeOK, RolesIn
  <1>5. CASE "editor" \in held[p]
    <2>1. req[p].pc # "idle"
      BY <1>5 DEF IInv, RequestsKnown
    <2>2. req'[p].user = req[p].user /\ req'[p].env = req[p].env
      BY <1>1, <1>3, <2>1 DEF StepTo, IInv, TypeOK
    <2> QED BY <1>2, <1>5, <2>2 DEF LicenceOf
  <1> QED BY <1>2, <1>3, <1>4, <1>5

\* A call that writes is over with the write.
LEMMA WriteActs ==
    ASSUME IInv, NEW q \in Req, Write(q)
    PROVE  T!Acts(q)
  <1>1. PICK s \in Request : StepTo(q, s)
    BY WriteStep
  <1>2. req[q].pc = "act"
    BY DEF Write, PostEnvironment, PatchEnvironment, DeleteEnvironmentOf, PostMember,
       PatchMember, DeleteMember, PostDevice, PatchDevice, DeleteDeviceOf, Doing, At
  <1>3. req'[q].pc # req[q].pc /\ \A p \in Req \ {q} : req'[p] = req[p]
    BY <1>1, <1>2 DEF StepTo, IInv, TypeOK
  <1> QED BY <1>3 DEF T!Acts

LEMMA TenancyStep == IInv /\ IInv' /\ [Next]_vars => [T!Next]_<<T!state,
                       [q \in Req |-> req[q].user], [q \in Req |-> LicenceOf(q)],
                       [q \in Req |-> req[q].pc]>>
  <1> SUFFICES ASSUME IInv, IInv', [Next]_vars
               PROVE  [T!Next]_<<T!state, [q \in Req |-> req[q].user],
                                 [q \in Req |-> LicenceOf(q)], [q \in Req |-> req[q].pc]>>
    OBVIOUS
  <1>1. CASE UNCHANGED vars
    <2>1. \A e \in Env : SameEnv(e)
      BY <1>1, SameAll DEF vars, catVars
    <2>2. \A q \in Req : /\ LicenceOf(q)' = LicenceOf(q)
                         /\ req'[q].user = req[q].user /\ req'[q].pc = req[q].pc
      BY <1>1 DEF vars, LicenceOf
    <2> QED BY <2>1, <2>2 DEF SameEnv, T!state
  <1>2. CASE Next
    <2>1. T!LicencesEarned
      BY <1>2, LicencesEarned DEF IInv, TypeOK
    <2>2. ASSUME \A e \in Env : SameEnv(e) PROVE UNCHANGED T!state
      BY <2>2 DEF SameEnv, T!state
    <2>3. ASSUME NEW e \in Env, \A f \in Env \ {e} : SameEnv(f)
          PROVE  \A f \in Env \ {e} : T!Untouched(f)
      BY <2>3 DEF SameEnv, T!Untouched
    <2>4. ASSUME NEW e \in Env, NEW q \in Req, T!Acts(q), req[q].user \in User,
                 Created(e, req[q].user)
          PROVE  T!Create(q, e)
      BY <2>4 DEF Created, T!Create, T!NoRoles
    <2>5. ASSUME NEW e \in Env, NEW q \in Req, T!Acts(q), e \in LicenceOf(q), Changed(e)
          PROVE  T!Change(q, e)
      BY <2>5 DEF Changed, T!Change, T!NoRoles
    <2>6. PICK q \in Req : Arrive(q) \/ Look(q) \/ Write(q)
      BY <1>2 DEF Next
    <2>7. CASE Arrive(q) \/ Look(q)
      <3>1. UNCHANGED <<envs, minted, member, dev>>
        BY <2>7, LookStep DEF Arrive, BeginAsUser, BeginAsKey, BeginFails, Finish,
           UpsertFromMe, catVars
      <3> QED BY <2>1, <2>2, <3>1, SameAll DEF T!Next
    <2>8. CASE Write(q)
      <3>1. CatalogIntegrity' /\ T!Acts(q)
        BY <2>8, WriteActs DEF IInv
      <3> QED BY <2>1, <2>2, <2>3, <2>4, <2>5, <2>8, <3>1, WriteIsLocal DEF T!Next
    <2> QED BY <2>6, <2>7, <2>8
  <1> QED BY <1>1, <1>2

\* Every environment is created by a request of its first editor, and changed
\* only by a request whose own user was its editor at some moment since that
\* request began, however the checks and the writes of concurrent requests
\* interleave; and no step touches two environments.
THEOREM ApiGuardsEnvironments == Spec => EnvironmentsGuarded
  BY TenancyInit, TenancyStep, Invariant, PTL DEF Spec, EnvironmentsGuarded, T!Spec

LEMMA OrphanStep ==
    ASSUME IInv, IInv', [Next]_vars, NEW e \in Env, T!Orphaned(e)
    PROVE  T!Orphaned(e)' /\ T!Untouched(e)
  <1> DEFINE licence == [q \in Req |-> LicenceOf(q)]
             caller == [q \in Req |-> req[q].user]
             stage == [q \in Req |-> req[q].pc]
  <1>1. [T!Next]_<<T!state, caller, licence, stage>>
    BY TenancyStep
  <1>2. /\ LifeOf(e) = "live"
        /\ {u \in User : RolesIn(e)[u] = "editor"} = {}
        /\ \A q \in Req : e \notin LicenceOf(q)
    BY DEF T!Orphaned, T!Editors
  <1>3. CASE UNCHANGED <<T!state, caller, licence, stage>>
    <2>1. SameEnv(e) /\ \A q \in Req : LicenceOf(q)' = LicenceOf(q)
      BY <1>3 DEF T!state, SameEnv
    <2> QED BY <1>2, <2>1 DEF SameEnv, T!Untouched, T!Orphaned, T!Editors
  <1>4. CASE T!Next
    <2>1. SameEnv(e)
      <3>1. \A q \in Req : ~T!Change(q, e) /\ ~T!Create(q, e)
        BY <1>2 DEF T!Change, T!Create
      <3>2. UNCHANGED T!state \/ T!Untouched(e)
        BY <1>4, <3>1 DEF T!Next
      <3> QED BY <3>2 DEF T!state, T!Untouched, SameEnv
    <2>2. \A q \in Req : e \notin LicenceOf(q)'
      <3>1. SUFFICES ASSUME NEW q \in Req, e \in LicenceOf(q)' PROVE FALSE
        OBVIOUS
      <3>2. T!LicencesEarned
        BY <1>4 DEF T!Next
      <3>3. \/ req'[q].user \in {u \in User : RolesIn(e)'[u] = "editor"}
            \/ e \in LicenceOf(q)
        BY <3>1, <3>2 DEF T!LicencesEarned, T!Editors
      <3> QED BY <1>2, <2>1, <3>3 DEF SameEnv
    <2> QED BY <1>2, <2>1, <2>2 DEF SameEnv, T!Untouched, T!Orphaned, T!Editors
  <1> QED BY <1>1, <1>3, <1>4

\* Nobody can ever again change, join or delete an environment whose last
\* editor has left, once the requests that editor had begun are over.
THEOREM OrphansStayFrozen == Spec => OrphansAreFrozen
  <1>1. IInv /\ IInv' /\ [Next]_vars =>
          \A e \in Env : T!Orphaned(e) => T!Orphaned(e)' /\ T!Untouched(e)
    BY OrphanStep
  <1> QED BY <1>1, Invariant, PTL DEF Spec, OrphansAreFrozen, T!OrphansAreFrozen

-----------------------------------------------------------------------------
(***************************************************************************)
(* As long as no PATCH sets a parent, CreateDevice's check is enough: the  *)
(* devices of an environment stay a forest.  The parent it found may be    *)
(* deleted before the insert; it cannot come back or move.                 *)
(***************************************************************************)
LEMMA ForestOfLess ==
    ASSUME ParentForest, None \notin DOMAIN dev, DOMAIN dev' \subseteq DOMAIN dev,
           \A r \in DOMAIN dev' : /\ dev'[r].env = dev[r].env
                                 /\ dev'[r].parent \in {dev[r].parent, None}
    PROVE  ParentForest'
  <1>1. ParentInEnvironment'
    BY DEF ParentForest, ParentInEnvironment
  <1>2. ASSUME NEW S \in SUBSET DOMAIN dev', S # {}
        PROVE  \E r \in S : dev'[r].parent \notin S
    <2>1. PICK r \in S : dev[r].parent \notin S
      BY <1>2 DEF ParentForest
    <2> QED BY <1>2, <2>1
  <1> QED BY <1>1, <1>2 DEF ParentForest

LEMMA ForestOfMore ==
    ASSUME ParentForest, IdsMinted, None \notin Row, NEW x \in Row \ minted, NEW d,
           dev' = Put(dev, x, d), d.parent \in Parents, SameEnvironment(d.parent, d.env)
    PROVE  ParentForest'
  <1>1. /\ DOMAIN dev' = DOMAIN dev \cup {x} /\ dev'[x] = d
        /\ \A r \in DOMAIN dev : dev'[r] = dev[r] /\ dev[r].parent # x
        /\ x \notin DOMAIN dev /\ d.parent # x
    BY DEF Put, IdsMinted, Parents
  <1>2. ParentInEnvironment'
    BY <1>1 DEF ParentForest, ParentInEnvironment, SameEnvironment
  <1>3. ASSUME NEW S \in SUBSET DOMAIN dev', S # {}
        PROVE  \E r \in S : dev'[r].parent \notin S
    <2>1. CASE S = {x}
      BY <1>1, <2>1
    <2>2. CASE S # {x}
      <3>1. S \ {x} \in SUBSET DOMAIN dev /\ S \ {x} # {}
        BY <1>1, <1>3, <2>2
      <3>2. PICK r \in S \ {x} : dev[r].parent \notin S \ {x}
        BY <3>1 DEF ParentForest
      <3> QED BY <1>1, <3>1, <3>2
    <2> QED BY <2>1, <2>2
  <1> QED BY <1>2, <1>3 DEF ParentForest

LEMMA ForestStep ==
    ASSUME "set" \notin ParentEdits, IInv, ParentForest, [Next]_vars
    PROVE  ParentForest'
  <1>1. /\ IdsMinted /\ None \notin Row /\ None \notin DOMAIN dev
        /\ \A r \in DOMAIN dev : dev[r] \in Device
    BY ConstantsApart DEF IInv, TypeOK, CatalogTypeOK, CatalogIntegrity
  <1>2. ASSUME dev' = dev PROVE ParentForest'
    BY <1>2 DEF ParentForest, ParentInEnvironment
  <1>3. ASSUME NEW S, dev' = Drop(dev, S) PROVE ParentForest'
    <2>1. DOMAIN dev' \subseteq DOMAIN dev /\ \A r \in DOMAIN dev' : dev'[r] = dev[r]
      BY <1>3 DEF Drop, Restrict
    <2> QED BY <1>1, <2>1, ForestOfLess
  <1>4. CASE UNCHANGED vars
    BY <1>2, <1>4 DEF vars, catVars
  <1>5. ASSUME NEW q \in Req, Arrive(q) \/ Look(q) PROVE ParentForest'
    BY <1>2, <1>5, LookStep DEF Arrive, BeginAsUser, BeginAsKey, BeginFails, Finish,
       UpsertFromMe, catVars
  <1>6. ASSUME NEW q \in Req, PostDevice(q) PROVE ParentForest'
    <2>1. req[q].arg \in Parents /\ SameEnvironment(req[q].arg, req[q].env)
      BY <1>6 DEF PostDevice, Doing, At, IInv, RequestsKnown, Known, Calls
    <2>2. CASE dev' = dev
      BY <1>2, <2>2
    <2>3. ASSUME NEW x \in Row \ minted, NEW l \in Label,
                 InsertDevice(x, [env |-> req[q].env, label |-> l, parent |-> req[q].arg])
          PROVE  ParentForest'
      BY <1>1, <2>1, <2>3, ForestOfMore DEF InsertDevice
    <2> QED BY <1>6, <2>2, <2>3 DEF PostDevice, Refused, catVars
  <1>7. ASSUME NEW q \in Req, PatchDevice(q) PROVE ParentForest'
    <2>1. CASE dev' = dev
      BY <1>2, <2>1
    <2>2. ASSUME NEW l, NEW p \in NewParents(req[q].row), UpdateDevice(req[q].row, l, p)
          PROVE  ParentForest'
      <3> DEFINE r == req[q].row
      <3>1. p \in {dev[r].parent, None} /\ r \in DOMAIN dev
        BY <2>2 DEF NewParents, UpdateDevice
      <3>2. /\ [dev[r] EXCEPT !.label = l, !.parent = p].env = dev[r].env
            /\ [dev[r] EXCEPT !.label = l, !.parent = p].parent = p
        BY <1>1, <3>1 DEF Device
      <3>3. /\ DOMAIN dev' = DOMAIN dev
            /\ dev'[r] = [dev[r] EXCEPT !.label = l, !.parent = p]
            /\ \A x \in DOMAIN dev \ {r} : dev'[x] = dev[x]
        BY <2>2, <3>1 DEF UpdateDevice, Put
      <3> QED BY <1>1, <3>1, <3>2, <3>3, ForestOfLess
    <2> QED BY <1>7, <2>1, <2>2 DEF PatchDevice, Refused, catVars
  <1>8. ASSUME NEW q \in Req, Write(q), ~PostDevice(q), ~PatchDevice(q)
        PROVE  ParentForest'
    BY <1>2, <1>3, <1>8
       DEF Write, PostEnvironment, PatchEnvironment, DeleteEnvironmentOf, PostMember,
           PatchMember, WriteMember, DeleteMember, DeleteDeviceOf, Refused, catVars,
           CreateEnvironment, DeleteEnvironment, UpsertMember, RemoveMember, DeleteDevice
  <1> QED BY <1>4, <1>5, <1>6, <1>7, <1>8 DEF Next

\* With clients whose PATCHes at most clear parents, the parent of a device
\* is in its environment, and no device is its own ancestor.
THEOREM DevicesFormForest ==
    ASSUME "set" \notin ParentEdits
    PROVE  Spec => []ParentForest
  <1>1. Init => ParentForest
    BY DEF Init, CatalogInit, ParentForest, ParentInEnvironment
  <1>2. IInv /\ ParentForest /\ [Next]_vars => ParentForest'
    BY ForestStep
  <1> QED BY <1>1, <1>2, Invariant, PTL DEF Spec

=============================================================================
