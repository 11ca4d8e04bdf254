------------------------- MODULE MqttPublishProofs -------------------------
(***************************************************************************)
(* Publishing, for any numbers of devices, environments and requests in    *)
(* flight, and topics of any length.                                       *)
(***************************************************************************)
EXTENDS MqttPublish, CatalogProofs, SequenceTheorems, FiniteSetTheorems

TopicOK(topic) == topic \in Seq(STRING) /\ Len(topic) > 0

-----------------------------------------------------------------------------
(* Topics. *)

LEMMA Indices ==
    ASSUME NEW n \in Nat, NEW m \in Nat, m > 0, n > m
    PROVE  1 \in 1..n /\ m \in 1..n /\ n - 1 \in 1..n /\ n - 1 > 0
  OBVIOUS

LEMMA AfterFirst == ASSUME NEW n \in Nat, n > 1 PROVE 1 \in 1..n /\ n - 1 \in 1..n /\ n - 1 > 0
  OBVIOUS

LEMMA AtLeastOne == ASSUME NEW n \in Nat, n > 0 PROVE 1 \in 1..n
  OBVIOUS

LEMMA First ==
    ASSUME NEW n \in Nat, NEW S, S \subseteq 1..n, 1 \in S
    PROVE  (CHOOSE i \in S : \A j \in S : i <= j) = 1
  <1>1. \A j \in S : 1 <= j
    OBVIOUS
  <1>2. \A i \in S : (\A j \in S : i <= j) => i = 1
    OBVIOUS
  <1> QED BY <1>1, <1>2

LEMMA NotEmpty ==
    ASSUME NEW topic \in Seq(STRING) \ {<<>>}
    PROVE  TopicOK(topic)
  BY EmptySeq DEF TopicOK

LEMMA SubSeqOK ==
    ASSUME NEW topic, TopicOK(topic), NEW m \in 1..Len(topic), NEW n \in m..Len(topic)
    PROVE  TopicOK(SubSeq(topic, m, n)) /\ SubSeq(topic, m, n)[1] = topic[m]
  <1>1. Len(topic) \in Nat
    BY LenProperties DEF TopicOK
  <1>2. /\ SubSeq(topic, m, n) \in Seq(STRING)
        /\ Len(SubSeq(topic, m, n)) = n - m + 1
        /\ \A i \in 1 .. n-m+1 : SubSeq(topic, m, n)[i] = topic[m+i-1]
    BY <1>1, SubSeqProperties DEF TopicOK
  <1> QED BY <1>1, <1>2 DEF TopicOK

LEMMA TrimmedPrefixIs ==
    ASSUME NEW prefix, TopicOK(prefix)
    PROVE  TopicOK(TrimmedPrefix(prefix)) /\ TrimmedPrefix(prefix)[1] = prefix[1]
  <1>1. Len(prefix) \in Nat
    BY LenProperties DEF TopicOK
  <1>2. CASE Len(prefix) > 1 /\ prefix[Len(prefix)] = ""
    <2>1. TrimmedPrefix(prefix) = SubSeq(prefix, 1, Len(prefix) - 1)
      BY <1>2 DEF TrimmedPrefix
    <2>2. Len(prefix) > 1
      BY <1>2
    <2>3. 1 \in 1..Len(prefix) /\ Len(prefix) - 1 \in 1..Len(prefix)
      BY <1>1, <2>2, AfterFirst
    <2> QED BY <2>1, <2>3, SubSeqOK
  <1>3. CASE ~(Len(prefix) > 1 /\ prefix[Len(prefix)] = "")
    BY <1>3 DEF TrimmedPrefix
  <1> QED BY <1>2, <1>3

\* A topic that is normalised is in the prefix, if it is one at all.
LEMMA NormalIs ==
    ASSUME NEW topic \in Topic
    PROVE  /\ TopicOK(Normal(topic))
           /\ Normal(topic) # EmptyTopic =>
                 SubSeq(Normal(topic), 1, Len(PrefixLevels)) = PrefixLevels
  <1> DEFINE t == IF Len(topic) > 1 /\ topic[1] = "" THEN Tail(topic) ELSE topic
             p == TrimmedPrefix(Prefix)
  <1>1. TopicOK(topic) /\ TopicOK(Prefix)
    BY NotEmpty, PublishConstants
  <1>2. TopicOK(p)
    BY <1>1, TrimmedPrefixIs
  <1>3. TopicOK(t)
    <2>1. CASE Len(topic) > 1
      <3>1. Len(topic) \in Nat
        BY <1>1, LenProperties DEF TopicOK
      <3>2. topic # <<>> => Tail(topic) \in Seq(STRING) /\ Len(Tail(topic)) = Len(topic) - 1
        BY <1>1, HeadTailProperties DEF TopicOK
      <3>3. topic # <<>>
        BY <2>1
      <3>4. Len(Tail(topic)) > 0 /\ Tail(topic) \in Seq(STRING)
        BY <2>1, <3>1, <3>2, <3>3, AfterFirst
      <3>5. TopicOK(Tail(topic))
        BY <3>4 DEF TopicOK
      <3> HIDE DEF TopicOK
      <3> QED BY <1>1, <3>5
    <2>2. CASE ~(Len(topic) > 1)
      BY <1>1, <2>2
    <2> QED BY <2>1, <2>2
  <1>4. Normal(topic) = IF t = EmptyTopic \/ p = EmptyTopic \/ t = p \/ Under(t, p) THEN t ELSE p \o t
    BY DEF Normal, NormalizePublishTopic
  <1>5. PrefixLevels = IF p = EmptyTopic THEN <<>> ELSE p
    BY DEF PrefixLevels
  <1> HIDE DEF t, p
  <1>6. CASE t = EmptyTopic
    BY <1>3, <1>4, <1>6
  <1>7. CASE p = EmptyTopic
    <2>1. Normal(topic) = t /\ PrefixLevels = <<>>
      BY <1>4, <1>5, <1>7
    <2>2. SubSeq(t, 1, 0) = <<>> /\ Len(<<>>) = 0
      BY <1>3, SubSeqEmpty, EmptySeq DEF TopicOK
    <2> QED BY <1>3, <2>1, <2>2
  <1>8. CASE t # EmptyTopic /\ p # EmptyTopic
    <2>1. PrefixLevels = p
      BY <1>5, <1>8
    <2>2. CASE t = p
      <3>1. SubSeq(p, 1, Len(p)) = p
        BY <1>2, SubSeqFull DEF TopicOK
      <3> QED BY <1>3, <1>4, <2>1, <2>2, <3>1
    <2>3. CASE Under(t, p)
      BY <1>3, <1>4, <2>1, <2>3 DEF Under
    <2>4. CASE t # p /\ ~Under(t, p)
      <3>1. Normal(topic) = p \o t
        BY <1>4, <1>8, <2>4
      <3>2. p \o t \in Seq(STRING) /\ Len(p \o t) = Len(p) + Len(t)
        BY <1>2, <1>3, ConcatProperties DEF TopicOK
      <3>3. SubSeq(p \o t, 1, Len(p)) = p
        BY <1>2, <1>3, SubSeqOfConcat1, SubSeqFull, LenProperties DEF TopicOK
      <3>4. Len(p) \in Nat /\ Len(t) \in Nat
        BY <1>2, <1>3, LenProperties DEF TopicOK
      <3> QED BY <1>2, <1>3, <2>1, <3>1, <3>2, <3>3, <3>4 DEF TopicOK
    <2> QED BY <2>2, <2>3, <2>4
  <1> QED BY <1>6, <1>7, <1>8

\* The device that is checked is the one that a topic addresses, unless the
\* prefix begins with a slash.
LEMMA SegmentIs ==
    ASSUME Prefix[1] # "", NEW topic \in Topic, NEW l \in Addressed(Normal(topic))
    PROVE  Segment(topic) = l
  <1> DEFINE n == Normal(topic)
             p == TrimmedPrefix(Prefix)
  <1>1. TopicOK(Prefix) /\ TopicOK(n)
    BY NotEmpty, NormalIs, PublishConstants
  <1>2. TopicOK(p) /\ p[1] # ""
    BY <1>1, TrimmedPrefixIs
  <1>3. p # EmptyTopic /\ PrefixLevels = p
    <2>1. EmptyTopic[1] = ""
      BY DEF EmptyTopic
    <2>2. p # EmptyTopic
      <3> HIDE DEF p
      <3> QED BY <1>2, <2>1
    <2> QED BY <2>2 DEF PrefixLevels
  <1>4. Under(n, p) /\ l = After(n, p)[1]
    BY <1>3 DEF Addressed
  <1>5. Len(n) \in Nat /\ Len(p) \in Nat /\ DOMAIN n = 1..Len(n)
    BY <1>1, <1>2, LenProperties DEF TopicOK
  <1>6. n[1] = p[1]
    <2> HIDE DEF n, p
    <2>1. Len(p) > 0 /\ Len(n) > Len(p)
      BY <1>2, <1>4 DEF Under, TopicOK
    <2>2. 1 \in 1..Len(n) /\ Len(p) \in 1..Len(n)
      BY <1>5, <2>1, Indices
    <2> QED BY <1>1, <1>4, <2>2, SubSeqOK DEF Under
  <1>7. WithoutLeadingSlashes(n) = n
    <2> DEFINE filled == {i \in DOMAIN n : n[i] # ""}
    <2> HIDE DEF n, p
    <2>1. 1 \in DOMAIN n
      <3>1. Len(n) > 0
        BY <1>1 DEF TopicOK
      <3>2. 1 \in 1..Len(n)
        BY <1>5, <3>1, AtLeastOne
      <3> QED BY <1>5, <3>2
    <2>2. 1 \in filled /\ filled \subseteq 1..Len(n)
      BY <1>2, <1>5, <1>6, <2>1
    <2>3. (CHOOSE i \in filled : \A j \in filled : i <= j) = 1
      BY <1>5, <2>2, First
    <2>4. SubSeq(n, 1, Len(n)) = n
      BY <1>1, SubSeqFull DEF TopicOK
    <2> QED BY <2>2, <2>3, <2>4 DEF WithoutLeadingSlashes
  <1> HIDE DEF n, p
  <1>8. ParseDeviceRowIDFromTopic(n, Prefix) = After(n, p)[1]
    BY <1>3, <1>4, <1>7 DEF ParseDeviceRowIDFromTopic, p
  <1> QED BY <1>4, <1>8 DEF Segment, n

-----------------------------------------------------------------------------
(* Patterns. *)

\* The pattern asks for what comes right after the prefix.
PatternAfterPrefix ==
    Under(Pattern, PrefixLevels) /\ After(Pattern, PrefixLevels)[1] = "+"

LEMMA RankOfOne ==
    ASSUME NEW i \in Nat
    PROVE  Cardinality({j \in {i} : j <= i}) = 1
  <1>1. {j \in {i} : j <= i} = {i}
    OBVIOUS
  <1> QED BY <1>1, FS_Singleton

\* The only wildcard of a pattern stands for the level it stands at.
LEMMA OnlyWildcard ==
    ASSUME NEW pattern, TopicOK(pattern), NEW topic, TopicOK(topic),
           NEW i \in 1..Len(pattern), pattern[i] = "+",
           Len(ExtractWildcardSegments(pattern, topic)) = 1
    PROVE  /\ Len(pattern) = Len(topic)
           /\ \A k \in 1..Len(pattern) : pattern[k] \in {"+", topic[k]}
           /\ ExtractWildcardSegments(pattern, topic)[1] = topic[i]
  <1> DEFINE wild == {k \in DOMAIN pattern : pattern[k] = "+"}
             ith(k) == CHOOSE n \in wild : Cardinality({j \in wild : j <= n}) = k
             back == [k \in 1..Cardinality(wild) |-> topic[ith(k)]]
  <1>1. Len(pattern) \in Nat /\ DOMAIN pattern = 1..Len(pattern)
    BY LenProperties DEF TopicOK
  <1>2. /\ Len(pattern) = Len(topic)
        /\ \A k \in DOMAIN pattern : pattern[k] \in {"+", topic[k]}
        /\ ExtractWildcardSegments(pattern, topic) = back
    <2>1. Len(<<>>) = 0
      BY EmptySeq
    <2> QED BY <2>1 DEF ExtractWildcardSegments
  <1>3. IsFiniteSet(wild)
    <2>1. IsFiniteSet(1..Len(pattern))
      BY <1>1, FS_Interval
    <2>2. wild \subseteq 1..Len(pattern)
      BY <1>1
    <2> HIDE DEF wild
    <2> QED BY <2>1, <2>2, FS_Subset
  <1>4. Cardinality(wild) \in Nat
    <2> HIDE DEF wild
    <2> QED BY <1>3, FS_CardinalityType
  <1>5. Len(back) = Cardinality(wild)
    <2> HIDE DEF wild, ith
    <2> QED BY <1>4
  <1>6. i \in wild
    BY <1>1
  <1>7. wild = {i}
    <2> HIDE DEF wild, back
    <2>1. Cardinality(wild) = 1
      BY <1>2, <1>5
    <2>2. \E x : wild = {x}
      BY <1>3, <2>1, FS_Singleton
    <2> QED BY <1>6, <2>2
  <1>8. ith(1) = i
    <2>1. Cardinality({j \in {i} : j <= i}) = 1
      BY RankOfOne
    <2> HIDE DEF wild
    <2>2. \A n \in wild : n = i
      BY <1>7
    <2>3. Cardinality({j \in wild : j <= i}) = 1
      BY <1>7, <2>1
    <2> QED BY <1>6, <2>2, <2>3
  <1>9. back[1] = topic[i]
    <2> HIDE DEF ith, wild
    <2>1. Cardinality(wild) = 1
      BY <1>2, <1>5
    <2> QED BY <1>8, <2>1
  <1> HIDE DEF wild, ith, back
  <1> QED BY <1>1, <1>2, <1>9

\* What comes back with one wildcard is addressed to what it stands for.
LEMMA BackIsAddressed ==
    ASSUME PatternAfterPrefix, NEW topic, TopicOK(topic),
           SubSeq(topic, 1, Len(PrefixLevels)) = PrefixLevels,
           Len(ExtractWildcardSegments(Pattern, topic)) = 1
    PROVE  ExtractWildcardSegments(Pattern, topic)[1] \in Addressed(topic)
  <1> DEFINE n == Len(PrefixLevels)
  <1>1. TopicOK(Pattern) /\ Len(Pattern) \in Nat /\ TopicOK(Prefix)
    BY NotEmpty, PublishConstants, LenProperties DEF TopicOK
  <1>2. PrefixLevels \in Seq(STRING)
    BY <1>1, TrimmedPrefixIs, EmptySeq DEF PrefixLevels, TopicOK
  <1>3. n \in Nat /\ Len(Pattern) > n
    BY <1>2, LenProperties DEF PatternAfterPrefix, Under
  <1> HIDE DEF n
  <1>4. n + 1 \in 1..Len(Pattern) /\ Len(Pattern) \in n+1..Len(Pattern)
    BY <1>1, <1>3
  <1>5. Pattern[n + 1] = "+"
    BY <1>1, <1>4, SubSeqOK DEF PatternAfterPrefix, After, n
  <1>6. Len(Pattern) = Len(topic) /\ ExtractWildcardSegments(Pattern, topic)[1] = topic[n + 1]
    BY <1>1, <1>4, <1>5, OnlyWildcard
  <1>7. Under(topic, PrefixLevels)
    BY <1>3, <1>6 DEF Under, n
  <1>8. After(topic, PrefixLevels)[1] = topic[n + 1]
    BY <1>4, <1>6, SubSeqOK DEF After, n
  <1> QED BY <1>6, <1>7, <1>8 DEF Addressed

LEMMA PairIs ==
    ASSUME NEW S, NEW a \in S, NEW b \in S
    PROVE  <<a, b>> \in Seq(S) /\ Len(<<a, b>>) = 2 /\ <<a, b>>[1] = a
  OBVIOUS

\* The default pattern is such a pattern, unless the prefix ends in a slash.
LEMMA DefaultPattern ==
    ASSUME Prefix # EmptyTopic, TrimmedPrefix(Prefix) = Prefix,
           Pattern = DefaultSubscribeTopic(Prefix)
    PROVE  PatternAfterPrefix
  <1> DEFINE rest == <<"+", "heartbeat">>
             S == STRING \cup {"+", "heartbeat"}
  <1>1. TopicOK(Prefix) /\ Len(Prefix) \in Nat
    BY NotEmpty, PublishConstants, LenProperties DEF TopicOK
  <1>2. PrefixLevels = Prefix /\ Pattern = Prefix \o rest
    BY DEF PrefixLevels, DefaultSubscribeTopic
  <1>3. rest \in Seq(S) /\ Len(rest) = 2 /\ rest[1] = "+"
    BY PairIs
  <1>4. Prefix \in Seq(S)
    BY <1>1, SeqMonotonic DEF TopicOK
  <1> HIDE DEF rest, S
  <1>5. /\ TopicOK(Pattern) /\ Len(Pattern) = Len(Prefix) + 2
        /\ Pattern[Len(Prefix) + 1] = "+"
        /\ SubSeq(Pattern, 1, Len(Prefix)) = Prefix
    <2>1. \A i \in 1 .. Len(Prefix) + Len(rest) :
             (Prefix \o rest)[i] = IF i <= Len(Prefix) THEN Prefix[i] ELSE rest[i - Len(Prefix)]
      BY <1>3, <1>4, ConcatProperties
    <2>2. (Prefix \o rest)[Len(Prefix) + 1] = rest[1]
      BY <1>1, <1>3, <2>1
    <2>3. Len(Prefix \o rest) = Len(Prefix) + Len(rest)
      BY <1>3, <1>4, ConcatProperties
    <2>4. SubSeq(Prefix \o rest, 1, Len(Prefix)) = SubSeq(Prefix, 1, Len(Prefix))
      BY <1>1, <1>3, <1>4, SubSeqOfConcat1
    <2>5. SubSeq(Prefix, 1, Len(Prefix)) = Prefix
      BY <1>1, SubSeqFull DEF TopicOK
    <2>6. TopicOK(Pattern)
      BY NotEmpty, PublishConstants
    <2> QED BY <1>2, <1>3, <2>2, <2>3, <2>4, <2>5, <2>6
  <1>6. Len(Prefix) + 1 \in 1..Len(Pattern) /\ Len(Pattern) \in Len(Prefix)+1..Len(Pattern)
    BY <1>1, <1>5
  <1>7. After(Pattern, PrefixLevels)[1] = "+"
    BY <1>2, <1>5, <1>6, SubSeqOK DEF After
  <1> QED BY <1>1, <1>2, <1>5, <1>7 DEF PatternAfterPrefix, Under

-----------------------------------------------------------------------------
(* What a step does to a request. *)

Status == {"202", "400", "403", "500", "503", None}

\* The requests, with the flag in B.  (The SMT backend keeps formulas apart
\* from values, so what is to be proved of a flag is proved for any set B.)
RequestWith(B) ==
    [pc : {"idle", "resolve", "access", "check", "send", "done"},
     user : User \cup {ApiKey, None}, topic : Topic \cup {None},
     env : Env \cup {None}, badQoS : B, status : Status,
     sent : {Normal(topic) : topic \in Topic} \cup {None}]

LEMMA RequestIs == Request = RequestWith(BOOLEAN)
  BY DEF Request, RequestWith, Status

LEMMA UpdateIs ==
    ASSUME NEW B, pub \in [Pub -> RequestWith(B)], NEW q \in Pub, NEW n \in RequestWith(B),
           pub' = [pub EXCEPT ![q] = n]
    PROVE  /\ pub' \in [Pub -> RequestWith(B)]
           /\ pub'[q] = n
           /\ \A p \in Pub : p # q => pub'[p] = pub[p]
  OBVIOUS

LEMMA IdleIs ==
    ASSUME NEW B, FALSE \in B
    PROVE  Idle \in RequestWith(B) /\ Idle.pc = "idle" /\ Idle.sent = None
  BY DEF Idle, RequestWith, Status

\* What a new request is, before it has asked for anything.
Begun(n) ==
    /\ n.pc \in {"resolve", "check", "done"}
    /\ n.topic \in Topic /\ n.sent = None
    /\ n.pc # "done" => n.topic # EmptyTopic
    /\ n.pc = "resolve" => n.user # ApiKey
    /\ n.pc = "check" => n.user = ApiKey

LEMMA BeginIs ==
    ASSUME NEW B, BOOLEAN \subseteq B, CatalogTypeOK,
           pub \in [Pub -> RequestWith(B)], NEW q \in Pub, Begin(q)
    PROVE  /\ pub' \in [Pub -> RequestWith(B)]
           /\ Begun(pub'[q])
           /\ \A p \in Pub : p # q => pub'[p] = pub[p]
  <1>1. PICK u \in users \cup {ApiKey}, topic \in Topic, bad \in BOOLEAN :
           LET r == [Idle EXCEPT !.user = u, !.topic = topic, !.badQoS = bad]
               to(pc, status) == [r EXCEPT !.pc = pc, !.status = status]
           IN  pub' = [pub EXCEPT ![q] =
                 CASE topic = EmptyTopic -> to("done", "400")
                   [] topic # EmptyTopic /\ u = ApiKey -> to("check", None)
                   [] OTHER -> IF Normal(topic) = EmptyTopic \/ Segment(topic) = ""
                                 THEN to("done", "403")
                                 ELSE to("resolve", None)]
    BY DEF Begin
  <1> DEFINE to(pc, status) == [[Idle EXCEPT !.user = u, !.topic = topic, !.badQoS = bad]
                                  EXCEPT !.pc = pc, !.status = status]
  <1>2. u \in User \cup {ApiKey} /\ bad \in B
    BY DEF CatalogTypeOK
  <1>3. ASSUME NEW pc \in {"resolve", "check", "done"}, NEW status \in {"400", "403", None}
        PROVE  /\ to(pc, status) \in RequestWith(B)
               /\ to(pc, status).pc = pc /\ to(pc, status).user = u
               /\ to(pc, status).topic = topic /\ to(pc, status).sent = None
    BY <1>2 DEF Idle, RequestWith, Status
  <1>4. PICK pc \in {"resolve", "check", "done"}, status \in {"400", "403", None} :
           /\ pub' = [pub EXCEPT ![q] = to(pc, status)]
           /\ pc # "done" => topic # EmptyTopic
           /\ pc = "resolve" => u # ApiKey
           /\ pc = "check" => u = ApiKey
    <2> DEFINE G(pc, status) ==
           /\ pub' = [pub EXCEPT ![q] = to(pc, status)]
           /\ pc # "done" => topic # EmptyTopic
           /\ pc = "resolve" => u # ApiKey
           /\ pc = "check" => u = ApiKey
    <2>1. pub' = [pub EXCEPT ![q] =
             CASE topic = EmptyTopic -> to("done", "400")
               [] topic # EmptyTopic /\ u = ApiKey -> to("check", None)
               [] OTHER -> IF Normal(topic) = EmptyTopic \/ Segment(topic) = ""
                             THEN to("done", "403")
                             ELSE to("resolve", None)]
      BY <1>1
    <2> HIDE DEF to
    <2>2. CASE topic = EmptyTopic
      <3>1. G("done", "400")
        BY <2>1, <2>2
      <3> QED BY <3>1
    <2>3. CASE topic # EmptyTopic /\ u = ApiKey
      <3>1. G("check", None)
        BY <2>1, <2>3
      <3> QED BY <3>1
    <2>4. CASE topic # EmptyTopic /\ u # ApiKey
      <3>1. G("done", "403") \/ G("resolve", None)
        BY <2>1, <2>4
      <3> QED BY <3>1
    <2> QED BY <2>2, <2>3, <2>4
  <1> DEFINE n == to(pc, status)
  <1>5. n \in RequestWith(B) /\ Begun(n)
    <2>1. /\ n \in RequestWith(B)
          /\ n.pc = pc /\ n.user = u /\ n.topic = topic /\ n.sent = None
      <3> HIDE DEF to
      <3> QED BY <1>3
    <2> HIDE DEF n
    <2> QED BY <1>4, <2>1 DEF Begun
  <1> HIDE DEF n
  <1>6. pub' = [pub EXCEPT ![q] = n]
    BY <1>4 DEF n
  <1> QED BY <1>5, <1>6, UpdateIs

\* Request q goes on to pc, or is answered: nothing else of it changes.
LEMMA ResolveIs ==
    ASSUME NEW B, CatalogTypeOK, pub \in [Pub -> RequestWith(B)], NEW q \in Pub,
           NEW r \in DOMAIN dev, pub' = [pub EXCEPT ![q].pc = "access", ![q].env = dev[r].env]
    PROVE  /\ pub' \in [Pub -> RequestWith(B)]
           /\ \A p \in Pub : p # q => pub'[p] = pub[p]
           /\ pub'[q].pc = "access" /\ pub'[q].env = dev[r].env
           /\ pub'[q].user = pub[q].user /\ pub'[q].topic = pub[q].topic
           /\ pub'[q].sent = pub[q].sent
  <1> DEFINE n == [pub[q] EXCEPT !.pc = "access", !.env = dev[r].env]
  <1>1. pub' = [pub EXCEPT ![q] = n]
    OBVIOUS
  <1>2. dev[r].env \in Env
    BY DEF CatalogTypeOK, Device
  <1>3. /\ n \in RequestWith(B)
        /\ n.pc = "access" /\ n.env = dev[r].env
        /\ n.user = pub[q].user /\ n.topic = pub[q].topic /\ n.sent = pub[q].sent
    BY <1>2 DEF RequestWith
  <1> HIDE DEF n
  <1> QED BY <1>1, <1>3, UpdateIs

LEMMA GoesOn ==
    ASSUME NEW B, pub \in [Pub -> RequestWith(B)], NEW q \in Pub,
           NEW pc \in {"check", "send"}, pub' = [pub EXCEPT ![q].pc = pc]
    PROVE  /\ pub' \in [Pub -> RequestWith(B)]
           /\ \A p \in Pub : p # q => pub'[p] = pub[p]
           /\ pub'[q].pc = pc
           /\ pub'[q].user = pub[q].user /\ pub'[q].topic = pub[q].topic
           /\ pub'[q].sent = pub[q].sent
  <1> DEFINE n == [pub[q] EXCEPT !.pc = pc]
  <1>1. pub' = [pub EXCEPT ![q] = n]
    OBVIOUS
  <1>2. /\ n \in RequestWith(B) /\ n.pc = pc
        /\ n.user = pub[q].user /\ n.topic = pub[q].topic /\ n.sent = pub[q].sent
    BY DEF RequestWith
  <1> HIDE DEF n
  <1> QED BY <1>1, <1>2, UpdateIs

LEMMA AnswerIs ==
    ASSUME NEW B, pub \in [Pub -> RequestWith(B)], NEW q \in Pub,
           NEW status \in Status, Answer(q, status)
    PROVE  /\ pub' \in [Pub -> RequestWith(B)]
           /\ \A p \in Pub : p # q => pub'[p] = pub[p]
           /\ pub'[q].pc = "done"
           /\ pub'[q].user = pub[q].user /\ pub'[q].topic = pub[q].topic
           /\ pub'[q].sent = pub[q].sent
  <1> DEFINE n == [pub[q] EXCEPT !.pc = "done", !.status = status]
  <1>1. pub' = [pub EXCEPT ![q] = n]
    BY DEF Answer
  <1>2. /\ n \in RequestWith(B) /\ n.pc = "done"
        /\ n.user = pub[q].user /\ n.topic = pub[q].topic /\ n.sent = pub[q].sent
    BY DEF RequestWith
  <1> HIDE DEF n
  <1> QED BY <1>1, <1>2, UpdateIs

LEMMA SendIs ==
    ASSUME NEW B, pub \in [Pub -> RequestWith(B)], NEW q \in Pub, pub[q].topic \in Topic,
           Send(q)
    PROVE  /\ pub' \in [Pub -> RequestWith(B)]
           /\ \A p \in Pub : p # q => pub'[p] = pub[p]
           /\ pub'[q].pc = "done"
           /\ pub'[q].user = pub[q].user /\ pub'[q].topic = pub[q].topic
           /\ pub'[q].sent \in {Normal(pub[q].topic), None}
  <1>1. PICK status \in {"202", "500"}, sent \in {Normal(pub[q].topic), None} :
           pub' = [pub EXCEPT ![q].pc = "done", ![q].status = status, ![q].sent = sent]
    BY DEF Send
  <1> DEFINE n == [pub[q] EXCEPT !.pc = "done", !.status = status, !.sent = sent]
  <1>2. pub' = [pub EXCEPT ![q] = n]
    BY <1>1
  <1>3. sent \in {Normal(topic) : topic \in Topic} \cup {None}
    OBVIOUS
  <1>4. /\ n \in RequestWith(B) /\ n.pc = "done"
        /\ n.user = pub[q].user /\ n.topic = pub[q].topic /\ n.sent = sent
    BY <1>3 DEF RequestWith, Status
  <1> HIDE DEF n
  <1> QED BY <1>2, <1>4, UpdateIs

-----------------------------------------------------------------------------
(* The invariant. *)

Topical(q) == Addressed(Normal(pub[q].topic)) # {}

RequestOK(q) ==
    /\ pub[q].pc # "idle" => pub[q].topic \in Topic
    /\ pub[q].pc \in {"resolve", "access"} => pub[q].user # ApiKey
    /\ pub[q].pc \in {"resolve", "access", "check", "send"} =>
          pub[q].sent = None /\ pub[q].topic # EmptyTopic
    /\ pub[q].pc = "idle" => pub[q].sent = None
    /\ pub[q].pc = "send" => Normal(pub[q].topic) # EmptyTopic
    /\ pub[q].sent # None =>
          /\ pub[q].sent = Normal(pub[q].topic)
          /\ Normal(pub[q].topic) # EmptyTopic /\ pub[q].topic # EmptyTopic

\* What has been checked for a request was seen to be so.
Licensed(q) ==
    /\ pub[q].pc = "access" /\ Topical(q) => pub[q].env \in seen[q].owners
    /\ /\ pub[q].pc \in {"check", "send"} \/ pub[q].sent # None
       /\ pub[q].user # ApiKey /\ Topical(q)
       => seen[q].licensed # {}

SeenOK == seen \in [Pub -> [owners : SUBSET Env, licensed : SUBSET Env]]

Typed == CatalogTypeOK /\ connected \in BOOLEAN /\ pub \in [Pub -> Request] /\ SeenOK

Inv ==
    /\ Typed /\ CatalogIntegrity
    /\ \A q \in Pub : RequestOK(q) /\ (Prefix[1] # "" => Licensed(q))

LEMMA WatchIs ==
    ASSUME SeenOK, Watch, NEW q \in Pub, pub'[q].pc # "idle", pub'[q].topic # EmptyTopic
    PROVE  /\ seen[q].owners \subseteq seen'[q].owners
           /\ Owners(pub[q].topic)' \subseteq seen'[q].owners
           /\ seen[q].licensed \subseteq seen'[q].licensed
           /\ seen'[q].owners \cap {e \in envs : CanWriteRole(GetMembership(e, pub[q].user))}'
                 \subseteq seen'[q].licensed
  <1> DEFINE now == Sight(pub[q])'
             owners == seen[q].owners \cup now.owners
             licensed == seen[q].licensed \cup (owners \cap now.editor)
  <1>1. seen'[q] = Extended(seen[q], now)
    BY DEF Watch
  <1>2. /\ now.owners = Owners(pub[q].topic)'
        /\ now.editor = {e \in envs : CanWriteRole(GetMembership(e, pub[q].user))}'
    BY DEF Sight
  <1>3. seen'[q].owners = owners /\ seen'[q].licensed = licensed
    BY <1>1 DEF Extended
  <1> HIDE DEF now
  <1> QED BY <1>2, <1>3

LEMMA SeenType ==
    ASSUME SeenOK, Watch, CatalogTypeOK'
    PROVE  SeenOK'
  <1> DEFINE Sights == [owners : SUBSET Env, licensed : SUBSET Env]
  <1>1. NothingSeen \in Sights
    BY DEF NothingSeen
  <1>2. ASSUME NEW q \in Pub
        PROVE  Extended(seen[q], Sight(pub[q])') \in Sights
    <2> DEFINE now == Sight(pub[q])'
               owners == seen[q].owners \cup now.owners
               licensed == seen[q].licensed \cup (owners \cap now.editor)
    <2>1. now.owners \subseteq Env
      <3>1. now.owners = Owners(pub[q].topic)'
        BY DEF Sight
      <3> QED BY <3>1 DEF Owners, CatalogTypeOK, Device
    <2>2. now.editor \subseteq Env
      <3>1. now.editor = {e \in envs : CanWriteRole(GetMembership(e, pub[q].user))}'
        BY DEF Sight
      <3> QED BY <3>1 DEF CatalogTypeOK
    <2>3. seen[q] \in Sights
      BY DEF SeenOK
    <2>4. Extended(seen[q], now) = [owners |-> owners, licensed |-> licensed]
      BY DEF Extended
    <2> HIDE DEF now
    <2>5. Extended(seen[q], now) \in Sights
      BY <2>1, <2>2, <2>3, <2>4
    <2> QED BY <2>5 DEF now
  <1> QED BY <1>1, <1>2 DEF Watch, SeenOK

\* A request that does not take a step keeps its licence.
LEMMA RequestStays ==
    ASSUME Inv, Watch, NEW q \in Pub, pub'[q] = pub[q]
    PROVE  RequestOK(q)' /\ (Prefix[1] # "" => Licensed(q)')
  <1>1. RequestOK(q) /\ (Prefix[1] # "" => Licensed(q)) /\ SeenOK
    BY DEF Inv, Typed
  <1>2. RequestOK(q)'
    BY <1>1 DEF RequestOK
  <1>3. ASSUME Licensed(q) PROVE Licensed(q)'
    <2>1. CASE pub[q].pc = "access" \/ pub[q].pc \in {"check", "send"} \/ pub[q].sent # None
      <3>1. pub'[q].pc # "idle" /\ pub'[q].topic # EmptyTopic
        BY <1>1, <2>1 DEF RequestOK
      <3>2. seen[q].owners \subseteq seen'[q].owners /\ seen[q].licensed \subseteq seen'[q].licensed
        BY <1>1, <3>1, WatchIs
      <3> QED BY <1>3, <3>2 DEF Licensed, Topical
    <2>2. CASE ~(pub[q].pc = "access" \/ pub[q].pc \in {"check", "send"} \/ pub[q].sent # None)
      BY <2>2 DEF Licensed
    <2> QED BY <2>1, <2>2
  <1> QED BY <1>1, <1>2, <1>3

\* One that is over without having sent anything needs none.
LEMMA RequestRests ==
    ASSUME NEW q \in Pub, pub'[q].pc \in {"idle", "done"}, pub'[q].sent = None,
           pub'[q].pc = "done" => pub'[q].topic \in Topic
    PROVE  RequestOK(q)' /\ Licensed(q)'
  BY DEF RequestOK, Licensed

LEMMA AnswerSound ==
    ASSUME Inv, NEW q \in Pub, pub[q].pc \in {"resolve", "access", "check"},
           NEW status \in Status, Answer(q, status)
    PROVE  /\ pub' \in [Pub -> Request]
           /\ \A p \in Pub : p # q => pub'[p] = pub[p]
           /\ RequestOK(q)' /\ Licensed(q)'
  <1>1. pub \in [Pub -> RequestWith(BOOLEAN)] /\ RequestOK(q)
    BY RequestIs DEF Inv, Typed
  <1>2. pub[q].sent = None /\ pub[q].topic \in Topic
    BY <1>1 DEF RequestOK
  <1> QED BY <1>1, <1>2, AnswerIs, RequestRests, RequestIs

-----------------------------------------------------------------------------
(* What one step of request q comes to. *)

Keeps(q) ==
    /\ pub' \in [Pub -> Request]
    /\ \A p \in Pub : p # q => pub'[p] = pub[p]
    /\ RequestOK(q)' /\ (Prefix[1] # "" => Licensed(q)')

LEMMA BeginKeeps ==
    ASSUME Inv, NEW q \in Pub, Begin(q)
    PROVE  Keeps(q)
  <1>1. pub \in [Pub -> RequestWith(BOOLEAN)] /\ CatalogTypeOK
    BY RequestIs DEF Inv, Typed
  <1>2. /\ pub' \in [Pub -> Request] /\ Begun(pub'[q])
        /\ \A p \in Pub : p # q => pub'[p] = pub[p]
    BY <1>1, BeginIs, RequestIs
  <1>3. RequestOK(q)' /\ Licensed(q)'
    BY <1>2 DEF Begun, RequestOK, Licensed
  <1> QED BY <1>2, <1>3 DEF Keeps

LEMMA ResolveKeeps ==
    ASSUME Inv, Watch, NEW q \in Pub, Resolve(q)
    PROVE  Keeps(q)
  <1>1. /\ pub \in [Pub -> RequestWith(BOOLEAN)] /\ CatalogTypeOK /\ RequestOK(q) /\ SeenOK
        /\ pub[q].pc = "resolve"
    BY RequestIs DEF Inv, Typed, Resolve
  <1>2. CASE Answer(q, "403")
    BY <1>1, <1>2, AnswerSound DEF Keeps, Status
  <1>3. ASSUME NEW r \in Row, RowsLabelled(Segment(pub[q].topic)) = {r},
               pub' = [pub EXCEPT ![q].pc = "access", ![q].env = dev[r].env]
        PROVE  Keeps(q)
    <2>1. r \in DOMAIN dev
      BY <1>3 DEF RowsLabelled
    <2>2. /\ pub' \in [Pub -> Request]
          /\ \A p \in Pub : p # q => pub'[p] = pub[p]
          /\ pub'[q].pc = "access" /\ pub'[q].env = dev[r].env
          /\ pub'[q].user = pub[q].user /\ pub'[q].topic = pub[q].topic
          /\ pub'[q].sent = pub[q].sent
      BY <1>1, <1>3, <2>1, ResolveIs, RequestIs
    <2>3. RequestOK(q)'
      BY <1>1, <2>2 DEF RequestOK
    <2>4. ASSUME Prefix[1] # "", Topical(q)' PROVE pub'[q].env \in seen'[q].owners
      <3>1. PICK l \in Addressed(Normal(pub[q].topic)) : TRUE
        BY <2>2, <2>4 DEF Topical
      <3>2. Segment(pub[q].topic) = l
        BY <1>1, <2>4, SegmentIs DEF RequestOK
      <3>3. dev' = dev
        BY DEF Resolve, catVars
      <3>4. dev[r].env \in Owners(pub[q].topic)'
        BY <1>3, <2>1, <2>2, <3>1, <3>2, <3>3 DEF Owners, RowsLabelled
      <3>5. pub'[q].pc # "idle" /\ pub'[q].topic # EmptyTopic
        BY <1>1, <2>2 DEF RequestOK
      <3> QED BY <1>1, <2>2, <3>4, <3>5, WatchIs
    <2>5. Prefix[1] # "" => Licensed(q)'
      BY <1>1, <2>2, <2>4 DEF Licensed, RequestOK
    <2> QED BY <2>2, <2>3, <2>5 DEF Keeps
  <1> QED BY <1>2, <1>3 DEF Resolve

LEMMA AccessKeeps ==
    ASSUME Inv, Watch, NEW q \in Pub, Access(q)
    PROVE  Keeps(q)
  <1>1. /\ pub \in [Pub -> RequestWith(BOOLEAN)] /\ CatalogTypeOK /\ RequestOK(q) /\ SeenOK
        /\ pub[q].pc = "access" /\ (Prefix[1] # "" => Licensed(q))
    BY RequestIs DEF Inv, Typed, Access
  <1>2. CASE Answer(q, "403")
    BY <1>1, <1>2, AnswerSound DEF Keeps, Status
  <1>3. CASE /\ CanWriteRole(GetMembership(pub[q].env, pub[q].user))
             /\ pub' = [pub EXCEPT ![q].pc = "check"]
    <2>1. /\ pub' \in [Pub -> Request]
          /\ \A p \in Pub : p # q => pub'[p] = pub[p]
          /\ pub'[q].pc = "check"
          /\ pub'[q].user = pub[q].user /\ pub'[q].topic = pub[q].topic
          /\ pub'[q].sent = pub[q].sent
      BY <1>1, <1>3, GoesOn, RequestIs
    <2>2. RequestOK(q)'
      BY <1>1, <2>1 DEF RequestOK
    <2>3. ASSUME Prefix[1] # "", Topical(q)' PROVE seen'[q].licensed # {}
      <3>1. pub[q].env \in seen[q].owners
        BY <1>1, <2>1, <2>3 DEF Licensed, Topical
      <3>2. pub[q].env \in envs
        BY <1>3, ConstantsApart DEF CanWriteRole, GetMembership, Inv, CatalogIntegrity,
                                    NothingOutlivesItsEnvironment
      <3>3. UNCHANGED <<envs, member>>
        BY DEF Access, catVars
      <3>4. pub[q].env \in {e \in envs : CanWriteRole(GetMembership(e, pub[q].user))}'
        BY <1>3, <2>1, <3>2, <3>3 DEF GetMembership
      <3>5. pub'[q].pc # "idle" /\ pub'[q].topic # EmptyTopic
        BY <1>1, <2>1 DEF RequestOK
      <3> QED BY <1>1, <3>1, <3>4, <3>5, WatchIs
    <2>4. Prefix[1] # "" => Licensed(q)'
      BY <1>1, <2>1, <2>3 DEF Licensed, RequestOK
    <2> QED BY <2>1, <2>2, <2>4 DEF Keeps
  <1> QED BY <1>2, <1>3 DEF Access

\* A licence that a request has is not taken away.
LEMMA LicenceStays ==
    ASSUME Inv, Watch, NEW q \in Pub, pub[q].pc \in {"check", "send"}, Licensed(q),
           pub'[q].pc \in {"send", "done"},
           pub'[q].user = pub[q].user, pub'[q].topic = pub[q].topic
    PROVE  Licensed(q)'
  <1>1. SeenOK /\ pub'[q].pc # "idle" /\ pub'[q].topic # EmptyTopic
    BY DEF Inv, Typed, RequestOK
  <1>2. seen[q].licensed \subseteq seen'[q].licensed
    BY <1>1, WatchIs
  <1> QED BY <1>2 DEF Licensed, Topical

LEMMA CheckKeeps ==
    ASSUME Inv, Watch, NEW q \in Pub, Check(q)
    PROVE  Keeps(q)
  <1>1. /\ pub \in [Pub -> RequestWith(BOOLEAN)] /\ RequestOK(q)
        /\ pub[q].pc = "check" /\ (Prefix[1] # "" => Licensed(q))
    BY RequestIs DEF Inv, Typed, Check
  <1>2. CASE Answer(q, "503") \/ Answer(q, "400")
    BY <1>1, <1>2, AnswerSound DEF Keeps, Status
  <1>3. CASE /\ Normal(pub[q].topic) # EmptyTopic
             /\ pub' = [pub EXCEPT ![q].pc = "send"]
    <2>1. /\ pub' \in [Pub -> Request]
          /\ \A p \in Pub : p # q => pub'[p] = pub[p]
          /\ pub'[q].pc = "send"
          /\ pub'[q].user = pub[q].user /\ pub'[q].topic = pub[q].topic
          /\ pub'[q].sent = pub[q].sent
      BY <1>1, <1>3, GoesOn, RequestIs
    <2>2. RequestOK(q)'
      BY <1>1, <1>3, <2>1 DEF RequestOK
    <2> QED BY <1>1, <2>1, <2>2, LicenceStays DEF Keeps
  <1> QED BY <1>2, <1>3 DEF Check

LEMMA SendKeeps ==
    ASSUME Inv, Watch, NEW q \in Pub, Send(q)
    PROVE  Keeps(q)
  <1>1. /\ pub \in [Pub -> RequestWith(BOOLEAN)] /\ RequestOK(q)
        /\ pub[q].pc = "send" /\ (Prefix[1] # "" => Licensed(q))
    BY RequestIs DEF Inv, Typed, Send
  <1>2. pub[q].topic \in Topic /\ pub[q].topic # EmptyTopic /\ Normal(pub[q].topic) # EmptyTopic
    BY <1>1 DEF RequestOK
  <1>3. /\ pub' \in [Pub -> Request]
        /\ \A p \in Pub : p # q => pub'[p] = pub[p]
        /\ pub'[q].pc = "done"
        /\ pub'[q].user = pub[q].user /\ pub'[q].topic = pub[q].topic
        /\ pub'[q].sent \in {Normal(pub[q].topic), None}
    BY <1>1, <1>2, SendIs, RequestIs
  <1>4. RequestOK(q)'
    BY <1>2, <1>3 DEF RequestOK
  <1> QED BY <1>1, <1>3, <1>4, LicenceStays DEF Keeps

LEMMA FinishKeeps ==
    ASSUME Inv, NEW q \in Pub, Finish(q)
    PROVE  Keeps(q)
  <1>1. pub \in [Pub -> RequestWith(BOOLEAN)] /\ FALSE \in BOOLEAN
    BY RequestIs DEF Inv, Typed
  <1>2. Idle \in RequestWith(BOOLEAN) /\ Idle.pc = "idle" /\ Idle.sent = None
    BY <1>1, IdleIs
  <1>3. pub' = [pub EXCEPT ![q] = Idle]
    BY DEF Finish
  <1>4. /\ pub' \in [Pub -> Request] /\ pub'[q] = Idle
        /\ \A p \in Pub : p # q => pub'[p] = pub[p]
    BY <1>1, <1>2, <1>3, UpdateIs, RequestIs
  <1> QED BY <1>2, <1>4, RequestRests DEF Keeps

-----------------------------------------------------------------------------
LEMMA InvInit == Init => Inv
  <1> SUFFICES ASSUME Init PROVE Inv
    OBVIOUS
  <1>1. CatalogTypeOK /\ CatalogIntegrity
    BY CatalogTypeInit, IntegrityInit DEF Init
  <1>2. Idle \in Request /\ Idle.pc = "idle" /\ Idle.sent = None
    BY IdleIs, RequestIs
  <1>3. pub \in [Pub -> Request] /\ \A q \in Pub : pub[q] = Idle
    BY <1>2 DEF Init
  <1>4. SeenOK /\ connected \in BOOLEAN
    BY DEF Init, SeenOK, NothingSeen
  <1>5. \A q \in Pub : RequestOK(q) /\ Licensed(q)
    BY <1>2, <1>3 DEF RequestOK, Licensed
  <1> QED BY <1>1, <1>3, <1>4, <1>5 DEF Inv, Typed

LEMMA InvStep == Inv /\ [Next]_vars => Inv'
  <1> SUFFICES ASSUME Inv, [Next]_vars PROVE Inv'
    OBVIOUS
  <1>1. CASE UNCHANGED vars
    <2>1. CatalogTypeOK' /\ CatalogIntegrity'
      BY <1>1, CatalogTypeStep, IntegrityStep DEF vars, Inv, Typed
    <2>2. Typed'
      BY <1>1, <2>1 DEF vars, Inv, Typed, SeenOK
    <2>3. \A q \in Pub : RequestOK(q)' /\ (Prefix[1] # "" => Licensed(q)')
      BY <1>1 DEF vars, Inv, RequestOK, Licensed, Topical
    <2> QED BY <2>1, <2>2, <2>3 DEF Inv
  <1>2. ASSUME Watch, [CatalogNext]_catVars, connected' \in BOOLEAN,
               pub' \in [Pub -> Request],
               \A q \in Pub : \/ pub'[q] = pub[q]
                              \/ RequestOK(q)' /\ (Prefix[1] # "" => Licensed(q)')
        PROVE  Inv'
    <2>1. CatalogTypeOK' /\ CatalogIntegrity'
      BY <1>2, CatalogTypeStep, IntegrityStep DEF Inv, Typed
    <2>2. SeenOK'
      BY <1>2, <2>1, SeenType DEF Inv, Typed
    <2>3. \A q \in Pub : RequestOK(q)' /\ (Prefix[1] # "" => Licensed(q)')
      BY <1>2, RequestStays
    <2> QED BY <1>2, <2>1, <2>2, <2>3 DEF Inv, Typed
  <1>3. CASE CatalogNext /\ UNCHANGED <<connected, pub>> /\ Watch
    BY <1>2, <1>3 DEF Inv, Typed
  <1>4. CASE LinkChanges /\ Watch
    BY <1>2, <1>4 DEF LinkChanges, Inv, Typed
  <1>5. ASSUME NEW q \in Pub, Publishing(q), Watch
        PROVE  Inv'
    <2>1. Keeps(q)
      BY <1>5, BeginKeeps, ResolveKeeps, AccessKeeps, CheckKeeps, SendKeeps, FinishKeeps
         DEF Publishing
    <2>2. UNCHANGED <<catVars, connected>>
      BY <1>5 DEF Publishing, Begin, Resolve, Access, Check, Send, Finish
    <2> QED BY <1>2, <1>5, <2>1, <2>2 DEF Keeps, Inv, Typed
  <1> QED BY <1>1, <1>3, <1>4, <1>5 DEF Next

LEMMA Invariant == Spec => []Inv
  BY InvInit, InvStep, PTL DEF Spec

-----------------------------------------------------------------------------
\* Requests, the connection and what is seen keep their types, and whatever
\* is sent is sent inside the prefix.
THEOREM PublishTypeCorrect == Spec => []TypeOK
  <1>1. Inv => TypeOK
    <2> SUFFICES ASSUME Inv PROVE TypeOK
      OBVIOUS
    <2>1. ASSUME NEW q \in Pub, pub[q].sent # None
          PROVE  SubSeq(pub[q].sent, 1, Len(PrefixLevels)) = PrefixLevels
      <3>1. pub[q].topic \in Topic /\ pub[q].sent = Normal(pub[q].topic)
            /\ Normal(pub[q].topic) # EmptyTopic
        BY <2>1 DEF Inv, RequestOK
      <3> QED BY <3>1, NormalIs
    <2> QED BY <2>1 DEF Inv, Typed, SeenOK, TypeOK
  <1> QED BY <1>1, Invariant, PTL

\* With a prefix that does not begin with a slash, a user's message reaches
\* the device that a topic addresses only if the user was an editor of the
\* environment of its only row, while the request ran.
THEOREM PublishingIsLicensed ==
    ASSUME Prefix[1] # ""
    PROVE  Spec => []PublishLicensed
  <1>1. Inv => PublishLicensed
    <2> SUFFICES ASSUME Inv, NEW q \in Pub, pub[q].user \in User, pub[q].sent # None,
                        Addressed(pub[q].sent) # {}
                 PROVE  seen[q].licensed # {}
      BY DEF PublishLicensed
    <2>1. pub[q].sent = Normal(pub[q].topic) /\ Licensed(q)
      BY DEF Inv, RequestOK
    <2>2. pub[q].user # ApiKey
      BY PublishConstants
    <2> QED BY <2>1, <2>2 DEF Licensed, Topical
  <1> QED BY <1>1, Invariant, PTL

\* With such a prefix, and a pattern that asks for what comes right after it
\* (the default one does, DefaultPattern), publishing and ingest name the same
\* device.
THEOREM LoopbackNamesTheDevice ==
    ASSUME Prefix[1] # "", PatternAfterPrefix
    PROVE  Spec => []LoopbackSameDevice
  <1>1. Inv => LoopbackSameDevice
    <2> SUFFICES ASSUME Inv, NEW q \in Pub, pub[q].sent # None,
                        Len(ExtractWildcardSegments(Pattern, pub[q].sent)) = 1
                 PROVE  ExtractWildcardSegments(Pattern, pub[q].sent)[1] = Segment(pub[q].topic)
      BY DEF LoopbackSameDevice
    <2>1. /\ pub[q].topic \in Topic /\ pub[q].sent = Normal(pub[q].topic)
          /\ Normal(pub[q].topic) # EmptyTopic
      BY DEF Inv, RequestOK
    <2>2. /\ TopicOK(Normal(pub[q].topic))
          /\ SubSeq(Normal(pub[q].topic), 1, Len(PrefixLevels)) = PrefixLevels
      BY <2>1, NormalIs
    <2>3. ExtractWildcardSegments(Pattern, pub[q].sent)[1] \in Addressed(Normal(pub[q].topic))
      BY <2>1, <2>2, BackIsAddressed
    <2> QED BY <2>1, <2>3, SegmentIs
  <1> QED BY <1>1, Invariant, PTL

=============================================================================
