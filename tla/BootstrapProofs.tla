-------------------------- MODULE BootstrapProofs --------------------------
(***************************************************************************)
(* What rewriting the env file does to it, for files of any length: the    *)
(* lemmas AuthApiProofs rests on.                                          *)
(***************************************************************************)
EXTENDS BootstrapAuth, TLAPS, WellFoundedInduction

LEMMA LessThan == OpToRel(<, Nat) = {p \in Nat \X Nat : p[1] < p[2]}
  BY Zenon DEF OpToRel

LEMMA Smallest ==
    ASSUME NEW S, S \subseteq Nat, S # {}
    PROVE  \E x \in S : \A y \in S : x <= y
  <1> DEFINE R == {p \in Nat \X Nat : p[1] < p[2]}
  <1>1. \E x \in S : \A y \in S : ~ (<<y, x>> \in R)
    <2>1. IsWellFoundedOn(R, Nat)
      BY NatLessThanWellFounded, LessThan
    <2> HIDE DEF R
    <2> QED BY <2>1, WFMin
  <1>2. PICK x \in S : \A y \in S : ~ (<<y, x>> \in R)
    BY <1>1, Zenon
  <1>3. ASSUME NEW y \in S PROVE x <= y
    <2>1. x \in Nat /\ y \in Nat
      OBVIOUS
    <2>2. y < x => <<y, x>> \in R
      BY <2>1
    <2> HIDE DEF R
    <2>3. ~ (y < x)
      BY <1>2, <2>2, Zenon
    <2> QED BY <2>1, <2>3
  <1> QED BY <1>3

-----------------------------------------------------------------------------
(* Files. *)

FileOK(f) ==
    /\ DOMAIN f \subseteq Slot
    /\ f \in [DOMAIN f -> Line]

\* Every line is one envLineKey knows, and the places at the end are taken
\* by the keys they are for.
FilePlain(f) ==
    /\ \A i \in DOMAIN f : f[i].form = "plain"
    /\ \A k \in BootKey : Appended(k) \in DOMAIN f => f[Appended(k)].key = k

LEMMA BootKeys == BootKey = {"token", "user", "password"}
  BY DEF BootKey, Order

LEMMA Slots ==
    /\ Slot \subseteq Nat
    /\ \A k \in BootKey : Appended(k) \in Slot /\ Appended(k) \notin OwnSlot
    /\ \A j, k \in BootKey : Appended(j) = Appended(k) => j = k
  BY FileConstants, BootKeys DEF Slot, OwnSlot, Appended, Order

LEMMA TextIs ==
    ASSUME NEW f, FileOK(f), NEW k, NEW i, Gives(f, k, i)
    PROVE  Text(f, k) = f[i].value
  <1>1. DOMAIN f \subseteq Nat
    BY Slots DEF FileOK
  <1>2. \A j : Gives(f, k, j) => j = i
    BY <1>1 DEF Gives
  <1>3. i \in DOMAIN f
    BY DEF Gives
  <1> QED BY <1>2, <1>3, Zenon DEF Text

LEMMA TextReal ==
    ASSUME NEW f, NEW k, Text(f, k) \in Real
    PROVE  \E i \in DOMAIN f : Gives(f, k, i) /\ Text(f, k) = f[i].value
  <1>1. Blank \notin Real
    BY FileConstants DEF Real
  <1>2. \E i \in DOMAIN f : Gives(f, k, i)
    BY <1>1 DEF Text
  <1> QED BY <1>2 DEF Text

LEMMA TextType ==
    ASSUME NEW f, FileOK(f), NEW k
    PROVE  Text(f, k) \in Value
  <1>1. CASE \E i \in DOMAIN f : Gives(f, k, i)
    <2>1. PICK i \in DOMAIN f : Gives(f, k, i)
      BY <1>1
    <2> QED BY <2>1, TextIs DEF FileOK, Line
  <1>2. CASE ~ \E i \in DOMAIN f : Gives(f, k, i)
    BY <1>2 DEF Text, Value
  <1> QED BY <1>1, <1>2

-----------------------------------------------------------------------------
(* Upsert. *)

LEMMA UpsertIs ==
    ASSUME NEW f, NEW up, NEW keys
    PROVE  LET appended == {Appended(k) : k \in Missing(f, keys)}
               g == Upsert(f, up, keys)
           IN  /\ DOMAIN g = Kept(f, keys) \cup appended
               /\ \A i \in Kept(f, keys) \ appended : g[i] = Rewritten(f[i], up, keys)
  BY DEF Upsert

LEMMA UpsertAppends ==
    ASSUME NEW f, NEW up, NEW keys, keys \subseteq BootKey, NEW k \in Missing(f, keys)
    PROVE  /\ Appended(k) \in DOMAIN Upsert(f, up, keys)
           /\ Upsert(f, up, keys)[Appended(k)] = [key |-> k, form |-> "plain", value |-> up[k]]
  <1>1. \A n \in Missing(f, keys) : Appended(k) = Appended(n) => n = k
    BY Slots DEF Missing
  <1>2. (CHOOSE n \in Missing(f, keys) : Appended(k) = Appended(n)) = k
    BY <1>1
  <1> QED BY <1>2 DEF Upsert

LEMMA UpsertType ==
    ASSUME NEW f, FileOK(f), NEW up, NEW keys, keys \subseteq BootKey,
           \A k \in keys : up[k] \in Value
    PROVE  FileOK(Upsert(f, up, keys))
  <1> DEFINE g == Upsert(f, up, keys)
             appended == {Appended(k) : k \in Missing(f, keys)}
  <1>1. /\ DOMAIN g = Kept(f, keys) \cup appended
        /\ \A i \in Kept(f, keys) \ appended : g[i] = Rewritten(f[i], up, keys)
    BY UpsertIs
  <1>2. Kept(f, keys) \subseteq DOMAIN f /\ Missing(f, keys) \subseteq keys
    BY DEF Kept, Missing
  <1>3. DOMAIN g \subseteq Slot
    BY <1>1, <1>2, Slots DEF FileOK
  <1>4. ASSUME NEW i \in appended PROVE g[i] \in Line
    <2>1. PICK k \in Missing(f, keys) : i = Appended(k)
      OBVIOUS
    <2>2. g[i] = [key |-> k, form |-> "plain", value |-> up[k]]
      BY <2>1, UpsertAppends
    <2> QED BY <1>2, <2>2 DEF Line, Key, Form
  <1>5. ASSUME NEW i \in Kept(f, keys) \ appended PROVE g[i] \in Line
    <2>1. f[i] \in Line
      BY <1>2 DEF FileOK
    <2> QED BY <1>1, <2>1 DEF Rewritten, Line
  <1>6. g = [i \in DOMAIN g |-> g[i]]
    BY DEF Upsert
  <1>7. \A i \in DOMAIN g : g[i] \in Line
    BY <1>1, <1>4, <1>5
  <1> HIDE DEF g
  <1> QED BY <1>3, <1>6, <1>7 DEF FileOK, g

LEMMA UpsertPlain ==
    ASSUME NEW f, FileOK(f), FilePlain(f), NEW up, NEW keys, keys \subseteq BootKey
    PROVE  FilePlain(Upsert(f, up, keys))
  <1> DEFINE g == Upsert(f, up, keys)
             appended == {Appended(k) : k \in Missing(f, keys)}
  <1>1. /\ DOMAIN g = Kept(f, keys) \cup appended
        /\ \A i \in Kept(f, keys) \ appended : g[i] = Rewritten(f[i], up, keys)
    BY UpsertIs
  <1>2. Kept(f, keys) \subseteq DOMAIN f /\ Missing(f, keys) \subseteq keys
    BY DEF Kept, Missing
  <1>3. ASSUME NEW k \in Missing(f, keys)
        PROVE  LET line == g[Appended(k)]
               IN  line.key = k /\ line.form = "plain" /\ line.value = up[k]
    <2>1. g[Appended(k)] = [key |-> k, form |-> "plain", value |-> up[k]]
      BY UpsertAppends
    <2> HIDE DEF g
    <2> QED BY <2>1
  <1>4. \A i \in Kept(f, keys) : f[i] \in Line
    BY <1>2 DEF FileOK
  <1>5. \A i \in Kept(f, keys) \ appended : g[i].form = f[i].form /\ g[i].key = f[i].key
    BY <1>1, <1>4 DEF Rewritten, Line
  <1> HIDE DEF g
  <1>6. \A i \in DOMAIN g : g[i].form = "plain"
    BY <1>1, <1>2, <1>3, <1>5 DEF FilePlain
  <1>7. ASSUME NEW k \in BootKey, Appended(k) \in DOMAIN g PROVE g[Appended(k)].key = k
    <2>1. CASE Appended(k) \in appended
      BY <1>2, <1>3, <2>1, Slots
    <2>2. CASE Appended(k) \in Kept(f, keys) \ appended
      BY <1>2, <1>5, <2>2 DEF FilePlain
    <2> QED BY <1>1, <1>7, <2>1, <2>2
  <1> QED BY <1>6, <1>7 DEF FilePlain, g

\* A key that is not written is read as before.
LEMMA UpsertLeaves ==
    ASSUME NEW f, FileOK(f), FilePlain(f), NEW up, NEW keys, keys \subseteq BootKey,
           \A k \in keys : up[k] \in Value,
           NEW n \in Key \ keys, Text(f, n) \in Real
    PROVE  Text(Upsert(f, up, keys), n) = Text(f, n)
  <1> DEFINE g == Upsert(f, up, keys)
             appended == {Appended(k) : k \in Missing(f, keys)}
  <1>1. /\ DOMAIN g = Kept(f, keys) \cup appended
        /\ \A i \in Kept(f, keys) \ appended : g[i] = Rewritten(f[i], up, keys)
    BY UpsertIs
  <1>2. Kept(f, keys) \subseteq DOMAIN f /\ Missing(f, keys) \subseteq keys
    BY DEF Kept, Missing
  <1>3. ASSUME NEW k \in Missing(f, keys)
        PROVE  LET line == g[Appended(k)]
               IN  line.key = k /\ line.form = "plain" /\ line.value = up[k]
    <2>1. g[Appended(k)] = [key |-> k, form |-> "plain", value |-> up[k]]
      BY UpsertAppends
    <2> HIDE DEF g
    <2> QED BY <2>1
  <1>4. PICK i \in DOMAIN f : Gives(f, n, i) /\ Text(f, n) = f[i].value
    BY TextReal
  <1>5. f[i].key = n /\ f[i] \in Line
    BY <1>4 DEF Gives, FileOK
  <1>6. i \in Kept(f, keys)
    BY <1>5 DEF Kept
  <1>7. i \notin appended
    <2> SUFFICES ASSUME NEW k \in Missing(f, keys), i = Appended(k) PROVE FALSE
      OBVIOUS
    <2>1. k \in BootKey /\ f[i].key = k
      BY <1>2 DEF FilePlain
    <2> QED BY <1>2, <1>5, <2>1
  <1>8. g[i] = f[i]
    BY <1>1, <1>5, <1>6, <1>7 DEF Rewritten
  <1>9. ASSUME NEW j \in DOMAIN g, g[j].key = n PROVE j <= i
    <2>1. j \notin appended
      BY <1>2, <1>3, <1>9
    <2>2. j \in Kept(f, keys) /\ g[j] = Rewritten(f[j], up, keys)
      BY <1>1, <2>1
    <2>3. f[j] \in Line
      BY <1>2, <2>2 DEF FileOK
    <2>4. f[j].key = n
      BY <1>9, <2>2, <2>3 DEF Rewritten, Line
    <2> QED BY <1>2, <1>4, <2>2, <2>4 DEF Gives
  <1>10. Gives(g, n, i)
    BY <1>1, <1>5, <1>6, <1>8, <1>9 DEF Gives
  <1>11. FileOK(g)
    BY UpsertType
  <1>12. Text(g, n) = g[i].value
    BY <1>10, <1>11, TextIs
  <1> QED BY <1>4, <1>8, <1>12

\* A key that is written is read back.
LEMMA UpsertWrites ==
    ASSUME NEW f, FileOK(f), FilePlain(f), NEW up, NEW keys, keys \subseteq BootKey,
           \A k \in keys : up[k] \in Value, NEW n \in keys
    PROVE  Text(Upsert(f, up, keys), n) = up[n]
  <1> DEFINE g == Upsert(f, up, keys)
             appended == {Appended(k) : k \in Missing(f, keys)}
             own == {i \in DOMAIN f : Plain(f, n, i)}
  <1>1. /\ DOMAIN g = Kept(f, keys) \cup appended
        /\ \A i \in Kept(f, keys) \ appended : g[i] = Rewritten(f[i], up, keys)
    BY UpsertIs
  <1>2. Kept(f, keys) \subseteq DOMAIN f /\ Missing(f, keys) \subseteq keys
    BY DEF Kept, Missing
  <1>3. ASSUME NEW k \in Missing(f, keys)
        PROVE  LET line == g[Appended(k)]
               IN  line.key = k /\ line.form = "plain" /\ line.value = up[k]
    <2>1. g[Appended(k)] = [key |-> k, form |-> "plain", value |-> up[k]]
      BY UpsertAppends
    <2> HIDE DEF g
    <2> QED BY <2>1
  <1>4. FileOK(g)
    BY UpsertType
  <1>5. \A i \in Kept(f, keys) \ appended : g[i].key = f[i].key /\ f[i] \in Line
    BY <1>1, <1>2 DEF Rewritten, Line, FileOK
  <1>6. CASE own = {}
    <2>1. n \in Missing(f, keys)
      BY <1>6 DEF Missing
    <2>2. ASSUME NEW j \in DOMAIN g, g[j].key = n PROVE j = Appended(n)
      <3>1. CASE j \in appended
        BY <1>3, <2>2, <3>1
      <3>2. CASE j \in Kept(f, keys) \ appended
        <4>1. j \in DOMAIN f /\ f[j].key = n
          BY <1>2, <1>5, <2>2, <3>2
        <4> QED BY <1>6, <4>1 DEF Plain, FilePlain
      <3> QED BY <1>1, <3>1, <3>2
    <2>3. Appended(n) \in DOMAIN g /\ Appended(n) \in Nat
      BY <1>1, <2>1, Slots
    <2>4. Gives(g, n, Appended(n))
      BY <1>3, <2>1, <2>2, <2>3 DEF Gives
    <2>5. Text(g, n) = g[Appended(n)].value
      BY <1>4, <2>4, TextIs
    <2> QED BY <1>3, <2>1, <2>5
  <1>7. CASE own # {}
    <2>1. own \subseteq Nat
      BY Slots DEF FileOK
    <2>2. PICK i \in own : \A j \in own : i <= j
      BY <1>7, <2>1, Smallest
    <2>3. IsFirst(f, n, i) /\ i \in DOMAIN f /\ f[i].key = n /\ f[i].form = "plain"
      BY <2>2 DEF IsFirst, Plain
    <2>4. i \in Kept(f, keys)
      BY <2>3 DEF Kept
    <2>5. i \notin appended
      <3> SUFFICES ASSUME NEW k \in Missing(f, keys), i = Appended(k) PROVE FALSE
        OBVIOUS
      <3>1. k \in BootKey /\ f[i].key = k
        BY <1>2, <2>3 DEF FilePlain
      <3> QED BY <2>3, <3>1 DEF Missing, Plain
    <2>6. g[i].key = n /\ g[i].value = up[n]
      BY <1>1, <1>5, <2>3, <2>4, <2>5 DEF Rewritten, Line
    <2>7. ASSUME NEW j \in DOMAIN g, g[j].key = n PROVE j = i
      <3>1. j \notin appended
        BY <1>3, <2>3, <2>7 DEF Missing, Plain
      <3>2. j \in Kept(f, keys) /\ j \in DOMAIN f /\ f[j].key = n
        BY <1>1, <1>2, <1>5, <2>7, <3>1
      <3>3. f[j].form = "plain"
        BY <3>2 DEF FilePlain
      <3>4. IsFirst(f, n, j)
        BY <3>2, <3>3 DEF Kept
      <3>5. i <= j /\ j <= i
        BY <2>3, <3>2, <3>3, <3>4 DEF IsFirst, Plain
      <3> QED BY <2>1, <2>2, <3>2, <3>5, Slots DEF FileOK
    <2>8. Gives(g, n, i)
      BY <1>1, <2>1, <2>2, <2>4, <2>6, <2>7 DEF Gives
    <2>9. Text(g, n) = g[i].value
      BY <1>4, <2>8, TextIs
    <2> QED BY <2>6, <2>9
  <1> QED BY <1>6, <1>7

-----------------------------------------------------------------------------
(* persistBootstrapEnv. *)

LEMMA WrittenFile ==
    ASSUME FileOK(file), NEW D, D \subseteq BootKey, NEW up \in [D -> Value],
           NEW g, g \in {file, NewFile(up)}
    PROVE  FileOK(g) /\ (FilePlain(file) => FilePlain(g))
  <1>1. FilterUpdates(file, up) \subseteq BootKey /\ \A k \in FilterUpdates(file, up) : up[k] \in Value
    BY DEF FilterUpdates
  <1> QED BY <1>1, UpsertType, UpsertPlain DEF NewFile

LEMMA CutFile ==
    ASSUME NEW f, FileOK(f), NEW n
    PROVE  FileOK(CutAfter(f, n)) /\ (FilePlain(f) => FilePlain(CutAfter(f, n)))
  BY DEF FileOK, FilePlain, CutAfter

LEMMA AfterPersist ==
    ASSUME FileOK(file), NEW D, D \subseteq BootKey, NEW up \in [D -> Value],
           Written(up) \/ UNCHANGED file \/ Torn(up)
    PROVE  FileOK(file') /\ (FilePlain(file) => FilePlain(file'))
  <1>1. CASE Written(up) \/ UNCHANGED file
    <2>1. file' \in {file, NewFile(up)}
      BY <1>1 DEF Written
    <2> QED BY <2>1, WrittenFile
  <1>2. CASE Torn(up)
    <2>1. PICK n : file' = CutAfter(NewFile(up), n)
      BY <1>2 DEF Torn
    <2>2. FileOK(NewFile(up)) /\ (FilePlain(file) => FilePlain(NewFile(up)))
      BY WrittenFile
    <2> QED BY <2>1, <2>2, CutFile
  <1> QED BY <1>1, <1>2

\* A value that is read is protected, ...
LEMMA RealIsProtected ==
    ASSUME NEW f, FilePlain(f), NEW n \in Key, Text(f, n) \in Real
    PROVE  Protected(f, n)
  <1>1. PICK i \in DOMAIN f : Gives(f, n, i) /\ Text(f, n) = f[i].value
    BY TextReal
  <1>2. IsLast(f, n, i)
    BY <1>1 DEF IsLast, Gives, Plain, FilePlain
  <1> QED BY <1>1, <1>2 DEF Protected

\* ... and what is protected is read, ...
LEMMA ProtectedIsReal ==
    ASSUME NEW f, FileOK(f), FilePlain(f), NEW n \in Key, Protected(f, n)
    PROVE  Text(f, n) \in Real
  <1>1. PICK i \in DOMAIN f : IsLast(f, n, i) /\ f[i].value \in Real
    BY DEF Protected
  <1>2. Gives(f, n, i)
    BY <1>1 DEF IsLast, Gives, Plain, FilePlain
  <1> QED BY <1>1, <1>2, TextIs

\* ... so that whatever is written, it stays.
LEMMA WrittenKeeps ==
    ASSUME FileOK(file), FilePlain(file), NEW D, D \subseteq BootKey, NEW up \in [D -> Value],
           Written(up) \/ UNCHANGED file, NEW n \in Key, Text(file, n) \in Real
    PROVE  Text(file', n) = Text(file, n)
  <1>1. CASE UNCHANGED file
    BY <1>1
  <1>2. CASE file' = NewFile(up)
    <2> DEFINE keys == FilterUpdates(file, up)
    <2>1. keys \subseteq BootKey /\ \A k \in keys : up[k] \in Value
      BY DEF FilterUpdates
    <2>2. n \in Key \ keys
      BY RealIsProtected DEF FilterUpdates
    <2> HIDE DEF keys
    <2>3. Text(Upsert(file, up, keys), n) = Text(file, n)
      BY <2>1, <2>2, UpsertLeaves
    <2> QED BY <1>2, <2>3 DEF NewFile, keys
  <1> QED BY <1>1, <1>2 DEF Written

\* persistBootstrapEnv writes no update twice: what it has written, or found
\* with a value already, counts as existing from then on, so that the next
\* start of the container finds nothing of it to write.
THEOREM PersistSettles ==
    ASSUME NEW f, FileOK(f), FilePlain(f), NEW D, D \subseteq BootKey, NEW up \in [D -> Value],
           \A k \in D : up[k] # Placeholder
    PROVE  FilterUpdates(Upsert(f, up, FilterUpdates(f, up)), up) = {}
  <1> DEFINE keys == FilterUpdates(f, up)
             g == Upsert(f, up, keys)
  <1>1. keys \subseteq D /\ \A k \in keys : up[k] \in Value
    BY DEF FilterUpdates
  <1>2. \A k \in D : up[k] # Blank => up[k] \in Real
    BY DEF Value
  <1>3. \A k \in D \ keys : up[k] # Blank => Protected(f, k)
    BY DEF FilterUpdates
  <1> HIDE DEF keys
  <1>4. FilePlain(g)
    BY <1>1, UpsertPlain
  <1>5. ASSUME NEW k \in D, up[k] # Blank PROVE Text(g, k) \in Real
    <2>1. CASE k \in keys
      BY <1>1, <1>2, <1>5, <2>1, UpsertWrites
    <2>2. CASE k \notin keys
      <3>1. Text(f, k) \in Real
        BY <1>3, <1>5, <2>2, ProtectedIsReal DEF Key
      <3> QED BY <1>1, <2>2, <3>1, UpsertLeaves DEF Key
    <2> QED BY <2>1, <2>2
  <1> HIDE DEF g
  <1>6. \A k \in D : up[k] # Blank => Protected(g, k)
    BY <1>4, <1>5, RealIsProtected DEF Key
  <1> QED BY <1>6 DEF FilterUpdates, g, keys

\* What godotenv reads as a value of the operator's is one to parseEnvValue
\* too, so it stays as well.
LEMMA LoadedReal ==
    ASSUME NEW f, FileOK(f), NEW k, Dotenv(f, k) \in Real
    PROVE  Text(f, k) \in Real
  BY TextType, FileConstants, LoadedConstants DEF Dotenv, Value, Real

LEMMA LoadedKeeps ==
    ASSUME FileOK(file), FilePlain(file), NEW D, D \subseteq BootKey, NEW up \in [D -> Value],
           Written(up) \/ UNCHANGED file, NEW n \in Key, Dotenv(file, n) \in Real
    PROVE  Dotenv(file', n) = Dotenv(file, n)
  <1>1. Text(file', n) = Text(file, n)
    BY LoadedReal, WrittenKeeps
  <1> QED BY <1>1 DEF Dotenv

-----------------------------------------------------------------------------
(* Types. *)

Registering == pc = "register" => run.user # Blank

BootInv == BootTypeOK /\ Registering

LEMMA TokenUpdate ==
    run \in Run => [token |-> run.token] \in [{"token"} -> Value]
  <1>1. run \in Run => run.token \in Value
    BY BootKeys DEF Run
  <1>2. ASSUME NEW v \in Value PROVE [token |-> v] \in [{"token"} -> Value]
    OBVIOUS
  <1> QED BY <1>1, <1>2

LEMMA AfterSystemIs ==
    ASSUME NEW r
    PROVE  /\ AfterSystem(r) \in {"done", "failed", "register"}
           /\ AfterSystem(r) = "register" => r.user # Blank
  BY DEF AfterSystem

LEMMA ReadType == BootTypeOK => \A k \in BootKey : Read(k) \in Value
  <1> SUFFICES ASSUME BootTypeOK, NEW k \in BootKey PROVE Read(k) \in Value
    OBVIOUS
  <1>1. conf.exported \in [BootKey -> Value \cup {Unset}]
    BY BootstrapConstants DEF BootTypeOK, Conf
  <1>2. Dotenv(file, k) \in Value
    BY TextType, LoadedConstants DEF BootTypeOK, FileOK, Dotenv
  <1>3. Blank \in Value
    BY DEF Value
  <1> QED BY <1>1, <1>2, <1>3 DEF Read

LEMMA BootInvInit == BootInit => BootInv
  <1> SUFFICES ASSUME BootInit PROVE BootInv
    OBVIOUS
  <1>1. DOMAIN file \subseteq Slot /\ file \in [DOMAIN file -> Line]
    <2>1. PICK n \in 0..MaxLines : file \in [1..n -> Lines]
      BY DEF BootInit
    <2> QED BY <2>1, FileConstants, BootstrapConstants DEF Slot, OwnSlot
  <1>2. system \in Real \cup {None} /\ run \in Run
    BY DEF BootInit, Real, Run, Nothing, Value
  <1> QED BY <1>1, <1>2 DEF BootInit, BootInv, BootTypeOK, Registering, Phase

LEMMA BootInvStep == BootInv /\ [BootNext]_bootVars => BootInv'
  <1> SUFFICES ASSUME BootInv, [BootNext]_bootVars PROVE BootInv'
    OBVIOUS
  <1> USE DEF BootInv, BootTypeOK, Registering, Phase, remote
  <1>1. CASE Start
    <2>1. run' \in Run
      BY <1>1, ReadType DEF Start, Run
    <2>2. pc' \in {"create", "done", "failed", "register"} /\ (pc' = "register" => run'.user # Blank)
      BY <1>1, AfterSystemIs DEF Start
    <2> QED BY <1>1, <2>1, <2>2 DEF Start
  <1>2. CASE SystemCreated
    <2>1. run' \in Run /\ Made \in Real
      BY <1>2, BootKeys DEF SystemCreated, Run, Real, Value
    <2> QED BY <1>2, <2>1 DEF SystemCreated
  <1>3. CASE SystemExists BY <1>3, AfterSystemIs DEF SystemExists
  <1>4. CASE CreateFails
    <2>1. Made \in Real
      BY DEF Real
    <2> QED BY <1>4, <2>1, AfterSystemIs DEF CreateFails
  <1>5. CASE Registered
    <2>1. run.user \in Value
      BY BootKeys DEF Run
    <2> QED BY <1>5, <2>1 DEF Registered
  <1>6. CASE RegisterFails
    <2>1. run.user \in Value
      BY BootKeys DEF Run
    <2> QED BY <1>6, <2>1 DEF RegisterFails
  <1>7. CASE PersistToken
    <2>1. [token |-> run.token] \in [{"token"} -> Value] /\ {"token"} \subseteq BootKey
      BY TokenUpdate, BootKeys
    <2>2. FileOK(file')
      BY <1>7, <2>1, AfterPersist DEF PersistToken, FileOK
    <2>3. faults' \subseteq {"torn", "lost"}
      BY <1>7 DEF PersistToken, Torn
    <2> QED BY <1>7, <2>2, <2>3, AfterSystemIs DEF PersistToken, FileOK
  <1>8. CASE PersistAll
    <2>1. FileOK(file')
      BY <1>8, AfterPersist DEF PersistAll, FileOK, Run
    <2>2. faults' \subseteq {"torn", "lost"}
      BY <1>8 DEF PersistAll, Torn
    <2> QED BY <1>8, <2>1, <2>2 DEF PersistAll, FileOK
  <1>9. CASE Serve
    <2>1. run' \in Run
      BY <1>9, ReadType, BootKeys DEF Serve, Run, Nothing, Value
    <2> QED BY <1>9, <2>1 DEF Serve
  <1>10. CASE Crash
    <2>1. run' \in Run
      BY <1>10 DEF Crash, Run, Nothing, Value
    <2> QED BY <1>10, <2>1 DEF Crash
  <1>11. CASE UNCHANGED bootVars
    BY <1>11 DEF bootVars
  <1> QED
    BY <1>1, <1>2, <1>3, <1>4, <1>5, <1>6, <1>7, <1>8, <1>9, <1>10, <1>11 DEF BootNext

-----------------------------------------------------------------------------
(* The file of an operator who writes no "export" lines. *)

OnlyPlain == \A line \in Lines : line.form = "plain"

LEMMA PlainInit == OnlyPlain /\ BootInit => FilePlain(file)
  <1> SUFFICES ASSUME OnlyPlain, BootInit PROVE FilePlain(file)
    OBVIOUS
  <1>1. PICK n \in 0..MaxLines : file \in [1..n -> Lines]
    BY DEF BootInit
  <1>2. \A k \in BootKey : Appended(k) \notin 1..n
    BY Slots, FileConstants DEF OwnSlot
  <1> QED BY <1>1, <1>2 DEF OnlyPlain, FilePlain

LEMMA PlainStep ==
    BootInv /\ FilePlain(file) /\ [BootNext]_bootVars => FilePlain(file')
  <1> SUFFICES ASSUME BootInv, FilePlain(file), [BootNext]_bootVars PROVE FilePlain(file')
    OBVIOUS
  <1>1. FileOK(file) /\ run \in Run
    BY DEF BootInv, BootTypeOK, FileOK
  <1>2. CASE PersistToken
    BY <1>1, <1>2, TokenUpdate, BootKeys, AfterPersist DEF PersistToken
  <1>3. CASE PersistAll
    BY <1>1, <1>3, AfterPersist DEF PersistAll, Run
  <1>4. CASE ~PersistToken /\ ~PersistAll
    <2>1. file' = file
      BY <1>4 DEF BootNext, Start, SystemCreated, SystemExists, CreateFails, Registered,
                  RegisterFails, Serve, Crash, bootVars
    <2> QED BY <2>1
  <1> QED BY <1>2, <1>3, <1>4

LEMMA OverwriteStep ==
    ASSUME BootInv, FilePlain(file), [BootNext]_bootVars, NEW k \in Key,
           "torn" \notin faults', Dotenv(file, k) \in Real
    PROVE  Dotenv(file', k) = Dotenv(file, k)
  <1>1. FileOK(file) /\ run \in Run
    BY DEF BootInv, BootTypeOK, FileOK
  <1>2. CASE PersistToken
    <2> DEFINE up == [token |-> run.token]
    <2>1. Written(up) \/ UNCHANGED file
      BY <1>2 DEF PersistToken, Torn
    <2>2. up \in [{"token"} -> Value] /\ {"token"} \subseteq BootKey
      BY <1>1, TokenUpdate, BootKeys
    <2> HIDE DEF up
    <2> QED BY <1>1, <2>1, <2>2, LoadedKeeps
  <1>3. CASE PersistAll
    <2>1. Written(run) \/ UNCHANGED file
      BY <1>3 DEF PersistAll, Torn
    <2> QED BY <1>1, <2>1, LoadedKeeps DEF Run
  <1>4. CASE ~PersistToken /\ ~PersistAll
    <2>1. file' = file
      BY <1>4 DEF BootNext, Start, SystemCreated, SystemExists, CreateFails, Registered,
                  RegisterFails, Serve, Crash, bootVars
    <2> QED BY <2>1
  <1> QED BY <1>2, <1>3, <1>4

\* A token that is written is read back.
LEMMA TokenWritten ==
    ASSUME FileOK(file), FilePlain(file), run \in Run, run.token = Made,
           Written([token |-> run.token]), ~NothingToWrite([token |-> run.token]),
           Loaded[Made] = Made
    PROVE  Dotenv(file', "token") = Made
  <1> DEFINE up == [token |-> run.token]
             keys == FilterUpdates(file, up)
  <1>1. up \in [{"token"} -> Value] /\ up["token"] = Made
    BY TokenUpdate
  <1>2. file' = Upsert(file, up, keys) /\ keys # {}
    BY DEF Written, NothingToWrite, NewFile
  <1> HIDE DEF up
  <1>3. keys = {"token"} /\ keys \subseteq BootKey
    BY <1>1, <1>2, BootKeys DEF FilterUpdates
  <1> HIDE DEF keys
  <1> QED BY <1>1, <1>2, <1>3, UpsertWrites DEF Dotenv

LEMMA TokenStep ==
    BootInv /\ FilePlain(file) /\ TokenKept /\ [BootNext]_bootVars => TokenKept'
  <1> SUFFICES ASSUME BootInv, FilePlain(file), TokenKept, [BootNext]_bootVars,
                      (system = Made /\ "lost" \notin faults)', Loaded[Made] = Made
               PROVE  /\ pc' = "persist token" \/ Dotenv(file', "token") = Made
                      /\ pc' = "persist token" => run'.token = Made
                      /\ pc' = "serve" /\ conf'.target = "dotenv" /\ conf'.exported.token = Unset
                            => run'.token = Made
    BY DEF TokenKept
  <1>1. FileOK(file) /\ run \in Run /\ Made \in Real /\ "token" \in Key
    BY BootKeys DEF BootInv, BootTypeOK, FileOK, Real, Key
  <1>2. CASE SystemCreated
    BY <1>1, <1>2, BootKeys DEF SystemCreated, Run
  <1>3. CASE CreateFails
    <2>1. system = Made /\ pc' # "persist token" /\ pc' # "serve" /\ UNCHANGED <<file, faults>>
      BY <1>3, AfterSystemIs DEF CreateFails
    <2> QED BY <1>3, <2>1 DEF TokenKept, CreateFails
  <1>4. CASE PersistToken
    <2>1. system = Made /\ "lost" \notin faults /\ pc = "persist token"
      BY <1>4 DEF PersistToken, Torn, remote
    <2>2. run.token = Made
      BY <2>1 DEF TokenKept
    <2>3. Written([token |-> run.token]) /\ ~NothingToWrite([token |-> run.token])
      BY <1>4 DEF PersistToken, Torn
    <2>4. Dotenv(file', "token") = Made
      BY <1>1, <2>2, <2>3, TokenWritten
    <2> QED BY <1>4, <2>4, AfterSystemIs DEF PersistToken
  <1>5. CASE PersistAll
    <2>1. system = Made /\ "lost" \notin faults /\ pc = "persist all" /\ pc' = "done"
      BY <1>5 DEF PersistAll, Torn, remote
    <2>2. Dotenv(file, "token") = Made
      BY <2>1 DEF TokenKept
    <2>3. Written(run) \/ UNCHANGED file
      BY <1>5 DEF PersistAll, Torn
    <2>4. Dotenv(file', "token") = Made
      BY <1>1, <2>2, <2>3, LoadedKeeps DEF Run
    <2> QED BY <2>1, <2>4
  <1>6. CASE Serve
    <2>1. system = Made /\ "lost" \notin faults /\ pc \in {"done", "failed"} /\ pc' = "serve"
      BY <1>6 DEF Serve, remote
    <2>2. Dotenv(file, "token") = Made /\ UNCHANGED <<file, conf>>
      BY <1>6, <2>1 DEF TokenKept, Serve
    <2>3. run'.token = Read("token")
      BY <1>6, BootKeys DEF Serve, Nothing
    <2> QED BY <2>1, <2>2, <2>3 DEF Read
  <1>7. CASE Crash
    <2>1. system = Made /\ "lost" \notin faults /\ pc # "persist token" /\ pc' = "down"
      BY <1>7 DEF Crash, remote
    <2> QED BY <1>7, <2>1 DEF TokenKept, Crash
  <1>8. CASE Start
    <2>1. system = Made /\ "lost" \notin faults /\ pc = "down" /\ file' = file
      BY <1>8 DEF Start, remote
    <2>2. pc' # "persist token" /\ pc' # "serve"
      BY <1>8, AfterSystemIs DEF Start
    <2> QED BY <2>1, <2>2 DEF TokenKept
  <1>9. CASE SystemExists \/ Registered \/ RegisterFails
    <2>1. /\ system = Made /\ "lost" \notin faults /\ pc # "persist token" /\ file' = file
          /\ pc' # "serve" /\ pc' # "persist token"
      BY <1>9, AfterSystemIs DEF SystemExists, Registered, RegisterFails, remote
    <2> QED BY <2>1 DEF TokenKept
  <1>10. CASE UNCHANGED bootVars
    BY <1>10 DEF TokenKept, bootVars, remote
  <1> QED
    BY <1>2, <1>3, <1>4, <1>5, <1>6, <1>7, <1>8, <1>9, <1>10 DEF BootNext

-----------------------------------------------------------------------------
(* A container that is set up: its file holds the token of its system.      *)

Supplied ==
    "lost" \notin faults =>
          /\ "torn" \notin faults
          /\ system # None /\ pc # "persist token" => Dotenv(file, "token") = system
          /\ system # None /\ pc = "create" => run.token = system
          /\ pc = "persist token" => system = Made
          /\ pc \in {"persist token", "register"} => run.token = system

Ready == Supplied /\ Loaded[Made] = Made /\ conf.create /\ conf.target = "dotenv" /\ conf.exported.token = Unset

LEMMA ReadyInit == BootInit /\ SetUp => Ready
  <1> SUFFICES ASSUME BootInit, SetUp PROVE Ready
    OBVIOUS
  <1>1. system # None => Dotenv(file, "token") = system
    BY DEF SetUp, Read
  <1> QED BY <1>1 DEF BootInit, SetUp, Supplied, Ready

LEMMA ReadyStep ==
    BootInv /\ FilePlain(file) /\ Ready /\ [BootNext]_bootVars => Ready'
  <1> SUFFICES ASSUME BootInv, FilePlain(file), Ready, [BootNext]_bootVars PROVE Ready'
    OBVIOUS
  <1>0. (conf.create /\ conf.target = "dotenv" /\ conf.exported.token = Unset)'
    <2>1. conf' = conf
      BY DEF BootNext, Start, SystemCreated, SystemExists, CreateFails, Registered,
             RegisterFails, PersistToken, PersistAll, Serve, Crash, bootVars
    <2> QED BY <2>1 DEF Ready
  <1> SUFFICES ASSUME "lost" \notin faults'
               PROVE  /\ "torn" \notin faults'
                      /\ system' # None /\ pc' # "persist token" => Dotenv(file', "token") = system'
                      /\ system' # None /\ pc' = "create" => run'.token = system'
                      /\ pc' = "persist token" => system' = Made
                      /\ pc' \in {"persist token", "register"} => run'.token = system'
    BY <1>0 DEF Ready, Supplied
  <1>1. /\ FileOK(file) /\ run \in Run /\ Made \in Real /\ "token" \in Key
        /\ system \in Real \cup {None}
    BY BootKeys DEF BootInv, BootTypeOK, FileOK, Real, Key
  <1>2. CASE SystemCreated
    BY <1>1, <1>2, BootKeys DEF SystemCreated, Run, Ready, Supplied
  <1>3. CASE CreateFails
    BY <1>3, AfterSystemIs DEF CreateFails, Ready, Supplied
  <1>4. CASE PersistToken
    <2>1. /\ system = Made /\ "lost" \notin faults /\ "torn" \notin faults
          /\ pc = "persist token" /\ run.token = Made /\ system' = system /\ run' = run
      BY <1>4 DEF PersistToken, Torn, remote, Ready, Supplied
    <2>2. Written([token |-> run.token]) /\ ~NothingToWrite([token |-> run.token])
      BY <1>4 DEF PersistToken, Torn
    <2>3. Dotenv(file', "token") = Made
      BY <1>1, <2>1, <2>2, TokenWritten DEF Ready
    <2>4. faults' = faults
      BY <1>4, <2>2 DEF PersistToken, Torn
    <2>5. pc' \in {"done", "failed", "register"}
      BY <1>4, AfterSystemIs DEF PersistToken
    <2> QED BY <2>1, <2>3, <2>4, <2>5
  <1>5. CASE PersistAll
    <2>1. /\ "lost" \notin faults /\ "torn" \notin faults /\ pc = "persist all"
          /\ pc' = "done" /\ system' = system /\ faults' = faults
      BY <1>5 DEF PersistAll, Torn, remote, Ready, Supplied
    <2>2. system # None => Dotenv(file, "token") = system
      BY <2>1 DEF Ready, Supplied
    <2>3. Written(run) \/ UNCHANGED file
      BY <1>5 DEF PersistAll, Torn
    <2>4. system # None => Dotenv(file', "token") = system
      BY <1>1, <2>2, <2>3, LoadedKeeps DEF Run
    <2> QED BY <2>1, <2>4
  <1>6. CASE Serve
    <2>1. pc # "persist token" /\ pc' = "serve" /\ UNCHANGED <<file, system, faults>>
      BY <1>6 DEF Serve, remote
    <2> QED BY <2>1 DEF Ready, Supplied
  <1>7. CASE Crash
    <2>1. /\ "lost" \notin faults /\ faults' = faults /\ pc # "persist token" /\ pc' = "down"
          /\ UNCHANGED <<file, system>>
      BY <1>7 DEF Crash, remote
    <2> QED BY <2>1 DEF Ready, Supplied
  <1>8. CASE Start
    <2>1. /\ "lost" \notin faults /\ faults' = faults /\ pc = "down" /\ pc' = "create"
          /\ UNCHANGED <<file, system>>
      BY <1>8 DEF Start, remote, Ready, Supplied
    <2>2. run'.token = Dotenv(file, "token")
      BY <1>8, BootKeys DEF Start, Read, Ready, Supplied
    <2> QED BY <2>1, <2>2 DEF Ready, Supplied
  <1>9. CASE SystemExists
    <2>1. /\ "lost" \notin faults /\ faults' = faults /\ pc = "create" /\ system # None
          /\ UNCHANGED <<file, system, run>>
      BY <1>9 DEF SystemExists, remote
    <2>2. pc' \in {"done", "failed", "register"}
      BY <1>9, AfterSystemIs DEF SystemExists
    <2> QED BY <2>1, <2>2 DEF Ready, Supplied
  <1>10. CASE Registered \/ RegisterFails
    <2>1. /\ faults' = faults /\ pc = "register" /\ pc' \in {"persist all", "failed"}
          /\ UNCHANGED <<file, system, run>>
      BY <1>10 DEF Registered, RegisterFails
    <2> QED BY <2>1 DEF Ready, Supplied
  <1>11. CASE UNCHANGED bootVars
    BY <1>11 DEF Ready, Supplied, bootVars, remote
  <1> QED
    BY <1>2, <1>3, <1>4, <1>5, <1>6, <1>7, <1>8, <1>9, <1>10, <1>11 DEF BootNext

=============================================================================
