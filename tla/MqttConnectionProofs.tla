------------------------ MODULE MqttConnectionProofs ------------------------
(***************************************************************************)
(* The MQTT connection, for any number of connections.  The type invariant *)
(* carries what the locks are for: one subscribeLocked at a time, and no   *)
(* handler of a connection before the connection.  On it rest the safety   *)
(* halves of what the connection promises in the long run.                 *)
(***************************************************************************)
EXTENDS MqttConnection, TLAPS

LEMMA NoLinkYet == 0 \in 0..MaxLinks /\ \A n \in Link : n > 0
  BY ConnectionConstants DEF Link

LEMMA TypeInit == Init => TypeOK
  BY NoLinkYet, Zenon DEF Init, TypeOK

LEMMA TypeHooks == TypeOK /\ Hooks => TypeOK'
  <1> SUFFICES ASSUME TypeOK, Hooks PROVE TypeOK'
    OBVIOUS
  <1> USE ConnectionConstants DEF TypeOK, Link
  <1>1. CASE Connect BY <1>1 DEF Connect, handlers
  <1>2. CASE ConnectReturns BY <1>2 DEF ConnectReturns, handlers, broker
  <1>3. CASE StartTimesOut BY <1>3 DEF StartTimesOut, handlers, broker
  <1>4. CASE Disconnect BY <1>4 DEF Disconnect, handlers
  <1>5. CASE DisconnectReturns BY <1>5 DEF DisconnectReturns, handlers, broker
  <1>6. CASE Restart
    BY <1>6, NoLinkYet, Zenon DEF Restart
  <1> QED BY <1>1, <1>2, <1>3, <1>4, <1>5, <1>6 DEF Hooks

LEMMA TypeNetwork == TypeOK /\ Network => TypeOK'
  <1> SUFFICES ASSUME TypeOK, Network PROVE TypeOK'
    OBVIOUS
  <1> USE ConnectionConstants DEF TypeOK, Link
  <1>1. CASE Opens
    <2>1. links + 1 \in Link /\ links' = links + 1 /\ links' \in 0..MaxLinks
      BY <1>1 DEF Opens
    <2>2. /\ onConnect' \in [Link -> {"none", "flag", "subscribe", "wait", "done"}]
          /\ \A n \in Link : onConnect'[n] = IF n = links + 1 THEN "flag" ELSE onConnect[n]
      BY <1>1 DEF Opens
    <2>3. \A n \in Link : /\ onConnect'[n] = "none" <=> n > links'
                          /\ n > links' => onLost[n] = "none"
      BY <2>1, <2>2
    <2>4. \A m, n \in Link : onConnect'[m] = "wait" /\ onConnect'[n] = "wait" => m = n
      BY <2>2
    <2> QED BY <1>1, <2>1, <2>2, <2>3, <2>4, Zenon DEF Opens
  <1>2. CASE DialFails BY <1>2 DEF DialFails, service, handlers
  <1>3. CASE ConnectionLost
    <2>1. onLost' = [onLost EXCEPT ![links] = "flag"]
      BY <1>3 DEF ConnectionLost
    <2>2. onLost' \in [Link -> {"none", "flag", "done"}]
      BY <2>1
    <2>3. \A n \in Link : n > links => onLost'[n] = "none"
      <3>1. \A n \in Link : n > links => n # links
        BY DEF TypeOK
      <3>2. \A n \in Link : n # links => onLost'[n] = onLost[n]
        BY <2>1
      <3> QED BY <3>1, <3>2, Zenon
    <2>4. /\ UNCHANGED <<hook, connected, failed, onConnect, msg, stale, links>>
          /\ link' = "lost"
          /\ asked' \in BOOLEAN /\ subscribed' \in BOOLEAN /\ refused' \in BOOLEAN
      BY <1>3, Zenon DEF ConnectionLost
    <2> QED BY <2>2, <2>3, <2>4
  <1>4. CASE BrokerAccepts \/ BrokerRefuses
    <2>1. /\ UNCHANGED <<service, link, links>>
          /\ asked' \in BOOLEAN /\ subscribed' \in BOOLEAN /\ refused' \in BOOLEAN
      BY <1>4, Zenon DEF BrokerAccepts, BrokerRefuses
    <2> QED BY <2>1 DEF service, handlers
  <1>5. CASE Deliver BY <1>5 DEF Deliver, broker, handlers
  <1> QED
    BY <1>1, <1>2, <1>3, <1>4, <1>5 DEF Network, DialSucceeds, Reconnects

LEMMA TypeHandling ==
    ASSUME TypeOK, NEW n \in Link, Handling(n)
    PROVE  TypeOK'
  <1> USE ConnectionConstants DEF TypeOK, Link
  <1>1. CASE OnConnect(n) BY <1>1 DEF OnConnect, broker
  <1>2. CASE SubscribeLocked(n) BY <1>2 DEF SubscribeLocked
  <1>3. CASE SubscribeReturns(n) BY <1>3 DEF SubscribeReturns, broker
  <1>4. CASE OnConnectionLost(n) BY <1>4 DEF OnConnectionLost, broker
  <1> QED BY <1>1, <1>2, <1>3, <1>4 DEF Handling

LEMMA TypeStep == TypeOK /\ [Next]_vars => TypeOK'
  <1> SUFFICES ASSUME TypeOK, [Next]_vars PROVE TypeOK'
    OBVIOUS
  <1>1. CASE Hooks \/ Network BY <1>1, TypeHooks, TypeNetwork
  <1>2. CASE MessageStored
    BY <1>2 DEF MessageStored, TypeOK, broker, handlers
  <1>3. CASE \E n \in Link : Handling(n) BY <1>3, TypeHandling
  <1>4. CASE UNCHANGED vars
    BY <1>4 DEF vars, service, broker, handlers, TypeOK
  <1> QED BY <1>1, <1>2, <1>3, <1>4 DEF Next

\* Types, and: no two goroutines are in subscribeLocked (subscribeMu), and a
\* handler runs only for a connection that was made.
THEOREM ConnectionTypeCorrect == Spec => []TypeOK
  BY TypeInit, TypeStep, PTL DEF Spec

-----------------------------------------------------------------------------
(* Who is responsible for the connection there is.  Every connection but   *)
(* the current one has had its ConnectionLost; the current one has had it  *)
(* if it is lost, and not before.                                          *)

Latest ==
    /\ link = "open" => links \in Link /\ onLost[links] = "none"
    /\ link = "lost" => links \in Link /\ onLost[links] # "none"
    /\ link \in {"none", "dialing", "dead"} => links = 0
    /\ \A n \in Link : n < links => onLost[n] # "none"
    /\ hook = "off" => link = "none"
    /\ hook = "disconnect" => link = "closed"

Inv == TypeOK /\ Latest /\ NobodyForgotten /\ WrongStatusIsOwed

LEMMA InvInit == Init => Inv
  <1> SUFFICES ASSUME Init PROVE Inv
    OBVIOUS
  <1>1. TypeOK
    BY TypeInit
  <1>2. Latest
    BY NoLinkYet DEF Init, Latest, Link
  <1>3. NobodyForgotten /\ WrongStatusIsOwed
    BY DEF Init, NobodyForgotten, WrongStatusIsOwed
  <1> QED BY <1>1, <1>2, <1>3 DEF Inv

\* A new connection, which is the first one or follows a lost one.
LEMMA InvOpens ==
    ASSUME Inv, Opens, link \in {"dialing", "lost"}
    PROVE  Latest' /\ NobodyForgotten' /\ WrongStatusIsOwed'
  <1> USE ConnectionConstants
  <1>1. /\ links \in Nat /\ links' = links + 1 /\ links' \in Link
        /\ link' = "open" /\ onLost' = onLost /\ hook' = hook
    BY DEF Opens, Inv, TypeOK, Link
  <1>2. onConnect'[links'] = "flag"
    BY <1>1 DEF Opens, Inv, TypeOK
  <1>3. onLost[links'] = "none"
    BY <1>1 DEF Inv, TypeOK
  <1>4. \A n \in Link : n < links' => onLost[n] # "none"
    BY <1>1 DEF Inv, Latest, Link
  <1>5. hook \notin {"off", "disconnect"}
    BY DEF Inv, Latest
  <1> QED BY <1>1, <1>2, <1>3, <1>4, <1>5 DEF Latest, NobodyForgotten, WrongStatusIsOwed

LEMMA InvHooks ==
    ASSUME Inv, Hooks
    PROVE  Latest' /\ NobodyForgotten' /\ WrongStatusIsOwed'
  <1> USE DEF Inv, Latest, NobodyForgotten, WrongStatusIsOwed
  <1>1. CASE Connect BY <1>1 DEF Connect, handlers
  <1>2. CASE ConnectReturns BY <1>2 DEF ConnectReturns, handlers, broker
  <1>3. CASE StartTimesOut BY <1>3 DEF StartTimesOut, handlers, broker
  <1>4. CASE Disconnect BY <1>4 DEF Disconnect, handlers
  <1>5. CASE DisconnectReturns BY <1>5 DEF DisconnectReturns, handlers, broker
  <1>6. CASE Restart BY <1>6, NoLinkYet DEF Restart, Link
  <1> QED BY <1>1, <1>2, <1>3, <1>4, <1>5, <1>6 DEF Hooks

LEMMA InvNetwork ==
    ASSUME Inv, Network
    PROVE  Latest' /\ NobodyForgotten' /\ WrongStatusIsOwed'
  <1> USE DEF Inv, Latest, NobodyForgotten, WrongStatusIsOwed
  <1>1. CASE DialSucceeds \/ Reconnects
    BY <1>1, InvOpens DEF DialSucceeds, Reconnects
  <1>2. CASE DialFails BY <1>2 DEF DialFails, service, handlers
  <1>3. CASE ConnectionLost
    <2>1. /\ links \in Link /\ onLost' = [onLost EXCEPT ![links] = "flag"]
          /\ link' = "lost" /\ UNCHANGED <<hook, links>>
      BY <1>3 DEF ConnectionLost
    <2>2. onLost'[links] = "flag" /\ \A n \in Link : n # links => onLost'[n] = onLost[n]
      BY <2>1 DEF TypeOK
    <2>3. links' = links /\ hook # "disconnect" /\ hook # "off"
      BY <1>3, <2>1, NoLinkYet DEF ConnectionLost, Link
    <2> QED BY <2>1, <2>2, <2>3
  <1>4. CASE BrokerAccepts \/ BrokerRefuses
    BY <1>4 DEF BrokerAccepts, BrokerRefuses, service, handlers
  <1>5. CASE Deliver BY <1>5 DEF Deliver, broker, handlers
  <1> QED BY <1>1, <1>2, <1>3, <1>4, <1>5 DEF Network

\* A handler that runs late is seen to: what it says of the connection is
\* right, or will be corrected, or counts as stale.
LEMMA InvHandling ==
    ASSUME Inv, NEW n \in Link, Handling(n)
    PROVE  Latest' /\ NobodyForgotten' /\ WrongStatusIsOwed'
  <1> USE DEF Inv, Latest, NobodyForgotten, WrongStatusIsOwed
  <1>1. CASE OnConnect(n)
    <2>1. /\ connected' = TRUE /\ stale' = (onLost[n] = "done")
          /\ UNCHANGED <<hook, onLost, link, links, asked, subscribed, refused>>
      BY <1>1 DEF OnConnect, broker
    <2>2. /\ onConnect'[n] = "subscribe"
          /\ \A m \in Link : m # n => onConnect'[m] = onConnect[m]
      BY <1>1 DEF OnConnect, TypeOK
    <2>3. n <= links
      BY <1>1 DEF OnConnect, TypeOK, Link
    <2>4. ASSUME link = "lost", onLost[n] # "done" PROVE onLost[n] = "flag"
      BY <2>3, <2>4 DEF TypeOK, Link
    <2>5. NobodyForgotten'
      BY <2>1, <2>2
    <2> QED BY <2>1, <2>4, <2>5
  <1>2. CASE SubscribeLocked(n)
    <2>1. /\ asked' = (asked \/ link = "open")
          /\ UNCHANGED <<hook, connected, onLost, stale, link, links, subscribed, refused>>
      BY <1>2 DEF SubscribeLocked
    <2>2. /\ onConnect[n] = "subscribe" /\ onConnect'[n] = "wait"
          /\ \A m \in Link : m # n => onConnect'[m] = onConnect[m]
      BY <1>2 DEF SubscribeLocked, TypeOK
    <2> QED BY <2>1, <2>2
  <1>3. CASE SubscribeReturns(n)
    <2>1. UNCHANGED <<hook, connected, onLost, stale, link, links, asked, subscribed, refused>>
      BY <1>3 DEF SubscribeReturns, broker
    <2>2. /\ onConnect[n] = "wait" /\ onConnect'[n] = "done"
          /\ \A m \in Link : m # n => onConnect'[m] = onConnect[m]
      BY <1>3 DEF SubscribeReturns, TypeOK
    <2> QED BY <2>1, <2>2
  <1>4. CASE OnConnectionLost(n)
    <2>1. /\ connected' = FALSE
          /\ stale' = (\E m \in Link : m > n /\ onConnect[m] \notin {"none", "flag"})
          /\ UNCHANGED <<hook, onConnect, link, links, asked, subscribed, refused>>
      BY <1>4 DEF OnConnectionLost, broker
    <2>2. /\ onLost[n] = "flag" /\ onLost'[n] = "done"
          /\ \A m \in Link : m # n => onLost'[m] = onLost[m]
      BY <1>4 DEF OnConnectionLost, TypeOK
    <2>3. Latest'
      BY <2>1, <2>2
    <2>4. ASSUME link = "open", ~stale' PROVE onConnect[links] = "flag"
      <3>1. n < links
        BY <2>2, <2>4 DEF TypeOK, Link
      <3>2. onConnect[links] \in {"none", "flag"} /\ onConnect[links] # "none"
        BY <2>1, <2>4, <3>1 DEF TypeOK, Link
      <3> QED BY <3>2
    <2> QED BY <2>1, <2>3, <2>4
  <1> QED BY <1>1, <1>2, <1>3, <1>4 DEF Handling

LEMMA InvStep == Inv /\ [Next]_vars => Inv'
  <1> SUFFICES ASSUME Inv, [Next]_vars PROVE Inv'
    OBVIOUS
  <1>1. TypeOK'
    BY TypeStep DEF Inv
  <1>2. Latest' /\ NobodyForgotten' /\ WrongStatusIsOwed'
    <2>1. CASE Hooks \/ Network BY <2>1, InvHooks, InvNetwork
    <2>2. CASE \E n \in Link : Handling(n) BY <2>2, InvHandling
    <2>3. CASE MessageStored \/ UNCHANGED vars
      BY <2>3 DEF MessageStored, vars, service, broker, handlers,
                  Inv, Latest, NobodyForgotten, WrongStatusIsOwed
    <2> QED BY <2>1, <2>2, <2>3 DEF Next
  <1> QED BY <1>1, <1>2 DEF Inv

LEMMA Invariant == Spec => []Inv
  BY InvInit, InvStep, PTL DEF Spec

\* Whenever a connection lacks a subscription that the broker has not
\* refused, somebody is about to ask for it.  (With the fairness of LiveSpec
\* that gives HearsAgain.)
THEOREM ConnectionIsNotForgotten == Spec => []NobodyForgotten
  <1>1. Inv => NobodyForgotten
    BY DEF Inv
  <1> QED BY <1>1, Invariant, PTL

\* Whenever connected disagrees with the connection, a handler that will
\* correct it is still to come, or an overtaken one has set it.
THEOREM StatusIsOwed == Spec => []WrongStatusIsOwed
  <1>1. Inv => WrongStatusIsOwed
    BY DEF Inv
  <1> QED BY <1>1, Invariant, PTL

=============================================================================
