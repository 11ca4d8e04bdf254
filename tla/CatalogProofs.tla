--------------------------- MODULE CatalogProofs ---------------------------
(***************************************************************************)
(* The catalogue keeps its integrity, for any numbers of users,            *)
(* environments and devices.                                               *)
(***************************************************************************)
EXTENDS Catalog, TLAPS

LEMMA PutFacts ==
    ASSUME NEW f, NEW x, NEW v
    PROVE  /\ DOMAIN Put(f, x, v) = DOMAIN f \cup {x}
           /\ Put(f, x, v)[x] = v
           /\ \A y \in DOMAIN f : y # x => Put(f, x, v)[y] = f[y]
  BY DEF Put

LEMMA DropFacts ==
    ASSUME NEW f, NEW S
    PROVE  /\ DOMAIN Drop(f, S) = DOMAIN f \ S
           /\ \A y \in DOMAIN f \ S : Drop(f, S)[y] = f[y]
  BY DEF Drop, Restrict

LEMMA PutType ==
    ASSUME NEW f, NEW R, f \in [DOMAIN f -> R], NEW x, NEW v \in R
    PROVE  Put(f, x, v) \in [DOMAIN Put(f, x, v) -> R]
  BY DEF Put

LEMMA DropType ==
    ASSUME NEW f, NEW R, f \in [DOMAIN f -> R], NEW S
    PROVE  Drop(f, S) \in [DOMAIN Drop(f, S) -> R]
  BY DEF Drop, Restrict

-----------------------------------------------------------------------------
LEMMA CatalogTypeInit == CatalogInit => CatalogTypeOK
  BY DEF CatalogInit, CatalogTypeOK

LEMMA CatalogTypeStep == CatalogTypeOK /\ [CatalogNext]_catVars => CatalogTypeOK'
  <1> SUFFICES ASSUME CatalogTypeOK, [CatalogNext]_catVars PROVE CatalogTypeOK'
    OBVIOUS
  <1> USE DEF CatalogTypeOK
  <1>1. CASE UNCHANGED catVars
    BY <1>1 DEF catVars
  <1>2. ASSUME NEW u \in User, UpsertFromMe(u) PROVE CatalogTypeOK'
    BY <1>2 DEF UpsertFromMe
  <1>3. ASSUME NEW e \in Env, NEW u \in User, CreateEnvironment(e, u)
        PROVE CatalogTypeOK'
    <2>1. member' \in [DOMAIN member' -> Role]
      BY <1>3, PutType DEF CreateEnvironment, Role
    <2>2. DOMAIN member' = DOMAIN member \cup {<<e, u>>}
      BY <1>3, PutFacts DEF CreateEnvironment
    <2>3. <<e, u>> \in Env \X User
      OBVIOUS
    <2> QED BY <1>3, <2>1, <2>2, <2>3 DEF CreateEnvironment
  <1>4. ASSUME NEW e \in Env, DeleteEnvironment(e) PROVE CatalogTypeOK'
    <2>1. member' \in [DOMAIN member' -> Role] /\ dev' \in [DOMAIN dev' -> Device]
      BY <1>4, DropType DEF DeleteEnvironment
    <2>2. DOMAIN member' \subseteq DOMAIN member /\ DOMAIN dev' \subseteq DOMAIN dev
      BY <1>4, DropFacts DEF DeleteEnvironment
    <2> QED BY <1>4, <2>1, <2>2 DEF DeleteEnvironment
  <1>5. ASSUME NEW e \in Env, NEW u \in User, NEW role \in Role, UpsertMember(e, u, role)
        PROVE CatalogTypeOK'
    <2>1. member' \in [DOMAIN member' -> Role]
      BY <1>5, PutType DEF UpsertMember
    <2>2. DOMAIN member' = DOMAIN member \cup {<<e, u>>}
      BY <1>5, PutFacts DEF UpsertMember
    <2>3. <<e, u>> \in Env \X User
      OBVIOUS
    <2> QED BY <1>5, <2>1, <2>2, <2>3 DEF UpsertMember
  <1>6. ASSUME NEW e \in Env, NEW u \in User, RemoveMember(e, u) PROVE CatalogTypeOK'
    <2>1. member' \in [DOMAIN member' -> Role]
      BY <1>6, DropType DEF RemoveMember
    <2>2. DOMAIN member' \subseteq DOMAIN member
      BY <1>6, DropFacts DEF RemoveMember
    <2> QED BY <1>6, <2>1, <2>2 DEF RemoveMember
  <1>7. ASSUME NEW r \in Row, NEW d \in Device, InsertDevice(r, d) PROVE CatalogTypeOK'
    <2>1. dev' \in [DOMAIN dev' -> Device]
      BY <1>7, PutType DEF InsertDevice
    <2>2. DOMAIN dev' = DOMAIN dev \cup {r}
      BY <1>7, PutFacts DEF InsertDevice
    <2> QED BY <1>7, <2>1, <2>2 DEF InsertDevice
  <1>8. ASSUME NEW r \in Row, NEW l \in Label, NEW p \in Parents, UpdateDevice(r, l, p)
        PROVE CatalogTypeOK'
    <2>1. [dev[r] EXCEPT !.label = l, !.parent = p] \in Device
      BY <1>8 DEF UpdateDevice, Device, Parents
    <2>2. dev' \in [DOMAIN dev' -> Device]
      BY <1>8, <2>1, PutType DEF UpdateDevice
    <2>3. DOMAIN dev' = DOMAIN dev \cup {r}
      BY <1>8, PutFacts DEF UpdateDevice
    <2> QED BY <1>8, <2>2, <2>3 DEF UpdateDevice
  <1>9. ASSUME NEW r \in Row, DeleteDevice(r) PROVE CatalogTypeOK'
    <2>1. dev' \in [DOMAIN dev' -> Device]
      BY <1>9, DropType DEF DeleteDevice
    <2>2. DOMAIN dev' \subseteq DOMAIN dev
      BY <1>9, DropFacts DEF DeleteDevice
    <2> QED BY <1>9, <2>1, <2>2 DEF DeleteDevice
  <1>10. ASSUME NEW e \in Env, NEW l \in Label, NEW p \in Parents
         PROVE [env |-> e, label |-> l, parent |-> p] \in Device
    BY DEF Device, Parents
  <1> QED
    BY <1>1, <1>2, <1>3, <1>4, <1>5, <1>6, <1>7, <1>8, <1>9, <1>10 DEF CatalogNext

\* The tables hold what their columns are declared to hold.
THEOREM CatalogTypeCorrect == CatalogSpec => []CatalogTypeOK
  BY CatalogTypeInit, CatalogTypeStep, PTL DEF CatalogSpec

-----------------------------------------------------------------------------
LEMMA IntegrityInit == CatalogInit => CatalogIntegrity
  BY DEF CatalogInit, CatalogIntegrity, IdsMinted, NothingOutlivesItsEnvironment,
         PathsUnique

(* Dropping rows and members, and nothing else, harms no part of it. *)
LEMMA IntegrityOfLess ==
    ASSUME CatalogIntegrity, minted' = minted, users' = users, envs' \subseteq envs,
           DOMAIN dev' \subseteq DOMAIN dev,
           \A r \in DOMAIN dev' : dev'[r] = dev[r] /\ dev[r].env \in envs',
           DOMAIN member' \subseteq DOMAIN member,
           \A k \in DOMAIN member' : k[1] \in envs'
    PROVE  CatalogIntegrity'
  <1>1. IdsMinted'
    BY DEF CatalogIntegrity, IdsMinted, Parents
  <1>2. NothingOutlivesItsEnvironment'
    BY DEF CatalogIntegrity, NothingOutlivesItsEnvironment
  <1>3. PathsUnique'
    BY DEF CatalogIntegrity, PathsUnique
  <1> QED BY <1>1, <1>2, <1>3 DEF CatalogIntegrity

LEMMA IntegrityStep ==
    CatalogTypeOK /\ CatalogIntegrity /\ [CatalogNext]_catVars => CatalogIntegrity'
  <1> SUFFICES ASSUME CatalogTypeOK, CatalogIntegrity, [CatalogNext]_catVars
               PROVE  CatalogIntegrity'
    OBVIOUS
  <1> USE DEF CatalogIntegrity
  <1>1. CASE UNCHANGED catVars
    BY <1>1 DEF catVars, IdsMinted, Parents, NothingOutlivesItsEnvironment, PathsUnique
  <1>2. ASSUME NEW u \in User, UpsertFromMe(u) PROVE CatalogIntegrity'
    BY <1>2 DEF UpsertFromMe, IdsMinted, Parents, NothingOutlivesItsEnvironment,
                PathsUnique
  <1>3. ASSUME NEW e \in Env, NEW u \in User, CreateEnvironment(e, u)
        PROVE CatalogIntegrity'
    <2>1. DOMAIN member' = DOMAIN member \cup {<<e, u>>}
      BY <1>3, PutFacts DEF CreateEnvironment
    <2>2. IdsMinted'
      BY <1>3 DEF CreateEnvironment, IdsMinted, Parents
    <2>3. NothingOutlivesItsEnvironment'
      BY <1>3, <2>1 DEF CreateEnvironment, NothingOutlivesItsEnvironment
    <2>4. PathsUnique'
      BY <1>3 DEF CreateEnvironment, PathsUnique
    <2> QED BY <2>2, <2>3, <2>4
  <1>4. ASSUME NEW e \in Env, DeleteEnvironment(e) PROVE CatalogIntegrity'
    <2>1. /\ DOMAIN member' = DOMAIN member \ ({e} \X User)
          /\ DOMAIN dev' = DOMAIN dev \ RowsIn(e)
          /\ \A r \in DOMAIN dev' : dev'[r] = dev[r]
      BY <1>4 DEF DeleteEnvironment, Drop, Restrict
    <2>2. \A r \in DOMAIN dev' : dev[r].env \in envs'
      BY <1>4, <2>1 DEF DeleteEnvironment, RowsIn, NothingOutlivesItsEnvironment
    <2>3. \A k \in DOMAIN member' : k[1] \in envs'
      BY <1>4, <2>1 DEF DeleteEnvironment, NothingOutlivesItsEnvironment, CatalogTypeOK
    <2> QED BY <1>4, <2>1, <2>2, <2>3, IntegrityOfLess DEF DeleteEnvironment
  <1>5. ASSUME NEW e \in Env, NEW u \in User, NEW role \in Role, UpsertMember(e, u, role)
        PROVE CatalogIntegrity'
    <2>1. DOMAIN member' = DOMAIN member \cup {<<e, u>>}
      BY <1>5, PutFacts DEF UpsertMember
    <2>2. IdsMinted' /\ PathsUnique'
      BY <1>5 DEF UpsertMember, IdsMinted, Parents, PathsUnique
    <2>3. NothingOutlivesItsEnvironment'
      BY <1>5, <2>1 DEF UpsertMember, NothingOutlivesItsEnvironment
    <2> QED BY <2>2, <2>3
  <1>6. ASSUME NEW e \in Env, NEW u \in User, RemoveMember(e, u) PROVE CatalogIntegrity'
    <2>1. DOMAIN member' \subseteq DOMAIN member
      BY <1>6 DEF RemoveMember, Drop, Restrict
    <2> QED BY <1>6, <2>1, IntegrityOfLess DEF RemoveMember, NothingOutlivesItsEnvironment
  <1>7. ASSUME NEW r \in Row, NEW d \in Device, InsertDevice(r, d), d.parent \in Parents
        PROVE CatalogIntegrity'
    <2>1. /\ DOMAIN dev' = DOMAIN dev \cup {r}
          /\ dev'[r] = d
          /\ \A s \in DOMAIN dev : s # r => dev'[s] = dev[s]
      BY <1>7 DEF InsertDevice, Put
    <2>2. IdsMinted'
      BY <1>7, <2>1 DEF InsertDevice, IdsMinted, Parents
    <2>3. NothingOutlivesItsEnvironment'
      BY <1>7, <2>1 DEF InsertDevice, NothingOutlivesItsEnvironment
    <2>4. PathsUnique'
      BY <1>7, <2>1 DEF InsertDevice, LabelFree, RowsIn, RowsLabelled, PathsUnique
    <2> QED BY <2>2, <2>3, <2>4
  <1>8. ASSUME NEW r \in Row, NEW l \in Label, NEW p \in Parents, UpdateDevice(r, l, p)
        PROVE CatalogIntegrity'
    <2>1. /\ DOMAIN dev' = DOMAIN dev
          /\ dev'[r] = [dev[r] EXCEPT !.label = l, !.parent = p]
          /\ \A s \in DOMAIN dev : s # r => dev'[s] = dev[s]
      BY <1>8 DEF UpdateDevice, Put
    <2>2. dev'[r].env = dev[r].env /\ dev'[r].label = l /\ dev'[r].parent = p
      BY <1>8, <2>1 DEF UpdateDevice, CatalogTypeOK, Device
    <2>3. IdsMinted'
      BY <1>8, <2>1, <2>2 DEF UpdateDevice, IdsMinted, Parents
    <2>4. NothingOutlivesItsEnvironment'
      BY <1>8, <2>1, <2>2 DEF UpdateDevice, NothingOutlivesItsEnvironment
    <2>5. PathsUnique'
      BY <1>8, <2>1, <2>2 DEF UpdateDevice, LabelFree, RowsIn, RowsLabelled, PathsUnique
    <2> QED BY <2>3, <2>4, <2>5
  <1>9. ASSUME NEW r \in Row, DeleteDevice(r) PROVE CatalogIntegrity'
    <2>1. DOMAIN dev' \subseteq DOMAIN dev /\ \A s \in DOMAIN dev' : dev'[s] = dev[s]
      BY <1>9 DEF DeleteDevice, Drop, Restrict
    <2> QED BY <1>9, <2>1, IntegrityOfLess DEF DeleteDevice, NothingOutlivesItsEnvironment
  <1>10. ASSUME NEW e \in Env, NEW l \in Label, NEW p \in Parents
         PROVE /\ [env |-> e, label |-> l, parent |-> p] \in Device
               /\ [env |-> e, label |-> l, parent |-> p].parent \in Parents
    BY DEF Device, Parents
  <1> QED
    BY <1>1, <1>2, <1>3, <1>4, <1>5, <1>6, <1>7, <1>8, <1>9, <1>10 DEF CatalogNext

\* Nothing the repositories do to the tables, in any order, leaves a member
\* or a device outside a living environment, or a device path ambiguous.
THEOREM CatalogSound == CatalogSpec => []CatalogIntegrity
  <1>1. CatalogTypeOK /\ CatalogIntegrity /\ [CatalogNext]_catVars => CatalogIntegrity'
    BY IntegrityStep
  <1> QED BY <1>1, IntegrityInit, CatalogTypeCorrect, PTL DEF CatalogSpec

=============================================================================
