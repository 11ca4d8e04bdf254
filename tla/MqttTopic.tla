------------------------------ MODULE MqttTopic ------------------------------
(***************************************************************************)
(* The functions of internal/domain/mqtttopic/topic.go.                    *)
(*                                                                         *)
(* A topic is the sequence of its levels: "flora/d1/commands" is           *)
(* <<"flora", "d1", "commands">>, a leading "/" is a first level "", and   *)
(* the empty string is <<"">>.  So a string prefix that ends in "/" is a   *)
(* prefix of levels with something after it.  Blanks around a string,      *)
(* which the code trims, are left out.                                     *)
(***************************************************************************)
EXTENDS Naturals, Sequences, FiniteSets

EmptyTopic == <<"">>

\* TrimSuffix(prefix, "/").
TrimmedPrefix(prefix) ==
    IF Len(prefix) > 1 /\ prefix[Len(prefix)] = ""
      THEN SubSeq(prefix, 1, Len(prefix) - 1)
      ELSE prefix

\* topic starts with prefix + "/".
Under(topic, prefix) ==
    Len(topic) > Len(prefix) /\ SubSeq(topic, 1, Len(prefix)) = prefix

After(topic, prefix) == SubSeq(topic, Len(prefix) + 1, Len(topic))

\* Faulty variant: the prefix is never put in front.
NormalizeOnlyTrimming(topic, prefix) ==
    IF Len(topic) > 1 /\ topic[1] = "" THEN Tail(topic) ELSE topic

\* EmptyTopic stands for the error ErrEmptyTopic.
NormalizePublishTopic(topic, prefix) ==
    LET t == IF Len(topic) > 1 /\ topic[1] = "" THEN Tail(topic) ELSE topic
        p == TrimmedPrefix(prefix)
    IN  IF t = EmptyTopic \/ p = EmptyTopic \/ t = p \/ Under(t, p)
          THEN t
          ELSE p \o t

\* TrimLeft(topic, "/").
WithoutLeadingSlashes(topic) ==
    LET filled == {i \in DOMAIN topic : topic[i] # ""}
    IN  IF filled = {}
          THEN EmptyTopic
          ELSE SubSeq(topic, CHOOSE i \in filled : \A j \in filled : i <= j, Len(topic))

\* Faulty variant: the first level, be it the prefix.
ParseKeepingPrefix(topic, prefix) == WithoutLeadingSlashes(topic)[1]

\* The level that names the device, "" if it is missing.
ParseDeviceRowIDFromTopic(topic, prefix) ==
    LET t == WithoutLeadingSlashes(topic)
        p == TrimmedPrefix(prefix)
    IN  IF p # EmptyTopic /\ Under(t, p) THEN After(t, p)[1] ELSE t[1]

\* The levels of topic where pattern has "+"; <<>>, for nil, if the pattern
\* does not match.
ExtractWildcardSegments(pattern, topic) ==
    LET wild == {i \in DOMAIN pattern : pattern[i] = "+"}
        ith(k) == CHOOSE i \in wild : Cardinality({j \in wild : j <= i}) = k
    IN  IF /\ Len(pattern) = Len(topic)
           /\ \A i \in DOMAIN pattern : pattern[i] \in {"+", topic[i]}
          THEN [k \in 1..Cardinality(wild) |-> topic[ith(k)]]
          ELSE <<>>

\* The pattern that LoadEnv makes of the prefix when none is configured.
DefaultSubscribeTopic(prefix) ==
    IF prefix = EmptyTopic THEN <<"+", "heartbeat">> ELSE prefix \o <<"+", "heartbeat">>

=============================================================================
