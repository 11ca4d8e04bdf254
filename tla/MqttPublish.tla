----------------------------- MODULE MqttPublish -----------------------------
(***************************************************************************)
(* POST /v1/mqtt/publish over a catalogue that anybody may be changing:    *)
(* postMqttPublish, assertMqttPublishAllowed and Service.Publish.          *)
(*                                                                         *)
(* For a user the device is looked up by the topic, then the user's role   *)
(* in its environment; then the connection is looked at, under the lock,   *)
(* and the message is handed to the MQTT client.  The four steps are four  *)
(* moments.  An API key goes straight to the third.                        *)
(*                                                                         *)
(* The connection may come and go at any time; of a message handed to the  *)
(* client the program learns nothing when it does not answer in 10 s.      *)
(***************************************************************************)
EXTENDS Catalog, MqttTopic

CONSTANTS
    Pub,      \* publish requests that can be in flight at the same time
    ApiKey,   \* the principal of a request with an X-API-Key
    Topic,    \* the topics clients send
    Prefix,   \* FLORA_TOPIC_PREFIX
    Pattern   \* FLORA_DEVICES_SUBSCRIBE_TOPIC

ASSUME PublishConstants ==
    /\ ApiKey \notin User \cup {None}
    /\ Topic \cup {Prefix, Pattern} \subseteq Seq(STRING) \ {<<>>}

VARIABLES
    connected,   \* Service.connected
    pub,         \* the local variables of each request
    seen         \* observation: what the topic of a request named meanwhile

vars == <<catVars, connected, pub, seen>>

Normal(topic) == NormalizePublishTopic(topic, Prefix)
Segment(topic) == ParseDeviceRowIDFromTopic(Normal(topic), Prefix)

Idle == [pc |-> "idle", user |-> None, topic |-> None, env |-> None,
         badQoS |-> FALSE, status |-> None, sent |-> None]

Request ==
    [pc : {"idle", "resolve", "access", "check", "send", "done"},
     user : User \cup {ApiKey, None}, topic : Topic \cup {None},
     env : Env \cup {None}, badQoS : BOOLEAN,
     status : {"202", "400", "403", "500", "503", None},
     sent : {Normal(topic) : topic \in Topic} \cup {None}]

-----------------------------------------------------------------------------
Answer(q, status) == pub' = [pub EXCEPT ![q].pc = "done", ![q].status = status]

\* What postMqttPublish and assertMqttPublishAllowed decide without a call.
Begin(q) ==
    /\ pub[q].pc = "idle"
    /\ \E u \in users \cup {ApiKey}, topic \in Topic, bad \in BOOLEAN :
         LET r == [Idle EXCEPT !.user = u, !.topic = topic, !.badQoS = bad]
             to(pc, status) == [r EXCEPT !.pc = pc, !.status = status]
         IN  pub' = [pub EXCEPT ![q] =
                 CASE topic = EmptyTopic -> to("done", "400")
                   [] topic # EmptyTopic /\ u = ApiKey -> to("check", None)
                   [] OTHER -> IF Normal(topic) = EmptyTopic \/ Segment(topic) = ""
                                 THEN to("done", "403")
                                 ELSE to("resolve", None)]
    /\ UNCHANGED <<catVars, connected>>

\* Faulty variant: of several rows with the device_id the first is taken.
ResolveFirst(q) ==
    /\ pub[q].pc = "resolve"
    /\ \/ \E r \in RowsLabelled(Segment(pub[q].topic)) :
             pub' = [pub EXCEPT ![q].pc = "access", ![q].env = dev[r].env]
       \/ Answer(q, "403")
    /\ UNCHANGED <<catVars, connected>>

\* No row, several rows and a failed query are all answered 403.
Resolve(q) ==
    /\ pub[q].pc = "resolve"
    /\ \/ \E r \in Row :
             /\ RowsLabelled(Segment(pub[q].topic)) = {r}
             /\ pub' = [pub EXCEPT ![q].pc = "access", ![q].env = dev[r].env]
       \/ Answer(q, "403")
    /\ UNCHANGED <<catVars, connected>>

\* RequireEnvAccess for writing; a failed query is answered 403, too.
Access(q) ==
    /\ pub[q].pc = "access"
    /\ \/ /\ CanWriteRole(GetMembership(pub[q].env, pub[q].user))
          /\ pub' = [pub EXCEPT ![q].pc = "check"]
       \/ Answer(q, "403")
    /\ UNCHANGED <<catVars, connected>>

\* The client and connected are read under the lock; what the rest of
\* Publish refuses, it refuses without looking at them again.
Check(q) ==
    /\ pub[q].pc = "check"
    /\ IF ~connected
         THEN Answer(q, "503")
         ELSE IF Normal(pub[q].topic) = EmptyTopic \/ pub[q].badQoS
           THEN Answer(q, "400")
           ELSE pub' = [pub EXCEPT ![q].pc = "send"]
    /\ UNCHANGED <<catVars, connected>>

\* The client sends the message or does not; it may report an error, and its
\* silence counts as success.
Send(q) ==
    /\ pub[q].pc = "send"
    /\ \E status \in {"202", "500"}, sent \in {Normal(pub[q].topic), None} :
         pub' = [pub EXCEPT ![q].pc = "done", ![q].status = status, ![q].sent = sent]
    /\ UNCHANGED <<catVars, connected>>

Finish(q) ==
    /\ pub[q].pc = "done"
    /\ pub' = [pub EXCEPT ![q] = Idle]
    /\ UNCHANGED <<catVars, connected>>

\* The OnConnect and ConnectionLost handlers.
LinkChanges ==
    /\ connected' = ~connected
    /\ UNCHANGED <<catVars, pub>>

-----------------------------------------------------------------------------
(* Observation: no action reads seen.  A device listens to the topics with  *)
(* its device_id right after the prefix (README.md).                        *)

PrefixLevels == IF TrimmedPrefix(Prefix) = EmptyTopic THEN <<>> ELSE TrimmedPrefix(Prefix)

Addressed(topic) ==
    IF Under(topic, PrefixLevels) THEN {After(topic, PrefixLevels)[1]} ELSE {}

\* Environments of the only row that the topic addresses.
Owners(topic) ==
    {dev[r].env : r \in {s \in DOMAIN dev :
        \E l \in Addressed(Normal(topic)) : RowsLabelled(l) = {s}}}

NothingSeen == [owners |-> {}, licensed |-> {}]

Sight(r) ==
    [owners |-> Owners(r.topic),
     editor |-> {e \in envs : CanWriteRole(GetMembership(e, r.user))}]

Extended(s, now) ==
    LET owners == s.owners \cup now.owners
    IN  [owners |-> owners, licensed |-> s.licensed \cup (owners \cap now.editor)]

Watch ==
    seen' = [q \in Pub |->
        IF pub'[q].pc = "idle" \/ pub'[q].topic = EmptyTopic
          THEN NothingSeen
          ELSE Extended(seen[q], Sight(pub[q])')]

-----------------------------------------------------------------------------
Init ==
    /\ CatalogInit
    /\ connected = FALSE
    /\ pub = [q \in Pub |-> Idle]
    /\ seen = [q \in Pub |-> NothingSeen]

Publishing(q) ==
    Begin(q) \/ Resolve(q) \/ Access(q) \/ Check(q) \/ Send(q) \/ Finish(q)

Next ==
    /\ \/ CatalogNext /\ UNCHANGED <<connected, pub>>
       \/ \E q \in Pub : Publishing(q)
       \/ LinkChanges
    /\ Watch

Spec == Init /\ [][Next]_vars

-----------------------------------------------------------------------------
\* Whatever is sent is sent inside the prefix.
TypeOK ==
    /\ CatalogTypeOK
    /\ connected \in BOOLEAN
    /\ pub \in [Pub -> Request]
    /\ \A q \in Pub : pub[q].sent # None =>
          SubSeq(pub[q].sent, 1, Len(PrefixLevels)) = PrefixLevels
    /\ seen \in [Pub -> [owners : SUBSET Env, licensed : SUBSET Env]]

\* A user's message reaches the device that a topic addresses only if, since
\* the request began, that device_id had a single row at some moment, and the
\* user was an editor of its environment at that moment or later (README.md:86:
\* editor on the device's environment; README.md:75: a duplicate is rejected).
PublishLicensed ==
    \A q \in Pub :
        pub[q].user \in User /\ pub[q].sent # None /\ Addressed(pub[q].sent) # {} =>
            seen[q].licensed # {}

\* Publishing and ingest agree on who a topic is about: a user's message that
\* comes back through the subscription is registered under the very device_id
\* that was checked when it was sent.
LoopbackSameDevice ==
    \A q \in Pub :
        LET back == ExtractWildcardSegments(Pattern, pub[q].sent)
        IN  pub[q].user \in User /\ pub[q].sent # None /\ Len(back) = 1 =>
                back[1] = Segment(pub[q].topic)

=============================================================================
