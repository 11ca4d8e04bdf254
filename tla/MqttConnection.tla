---------------------------- MODULE MqttConnection ----------------------------
(***************************************************************************)
(* The MQTT connection of Flora Hive (internal/infrastructure/mqtt/        *)
(* service.go): the lifecycle hooks Connect and Disconnect, the handlers   *)
(* the client library calls, and the lock s.mu they all want.              *)
(*                                                                         *)
(* The hooks hold s.mu while they wait for the client.  The client starts  *)
(* a goroutine for every OnConnect and every ConnectionLost, and nothing   *)
(* orders these goroutines; it hands messages over one at a time.  A       *)
(* critical section without a wait in it is one step.                      *)
(*                                                                         *)
(* Of the client library (paho), the broker and fx only what the service   *)
(* relies on is here: a first connection is tried once, a lost one is made *)
(* again, a clean session forgets its subscription with the connection.    *)
(***************************************************************************)
EXTENDS Naturals

CONSTANTS
    MaxLinks,   \* connections a process makes, at most
    Refusals    \* whether the broker may refuse the subscription

ASSUME ConnectionConstants == MaxLinks \in Nat /\ Refusals \in BOOLEAN

VARIABLES
    hook,        \* what the lifecycle of the process is at
    connected,   \* Service.connected
    failed,      \* Service.lastError # ""
    onConnect,   \* the OnConnect goroutine of each connection
    onLost,      \* the ConnectionLost goroutine of each connection
    msg,         \* a message has been handed to messageHandler
    link,        \* the client's connection...
    links,       \* ... and which one of this process it is
    asked,       \* a SUBSCRIBE is on its way on this connection
    subscribed,  \* the broker has accepted one
    refused,     \* the broker has refused one
    stale        \* observation: connected was last set by the wrong goroutine

handlers == <<onConnect, onLost>>
service == <<hook, connected, failed, handlers, msg, stale>>
broker == <<link, links, asked, subscribed, refused>>
vars == <<service, broker>>

Link == 1..MaxLinks

\* s.mu is free: no hook holds it.
LockFree == hook \notin {"connect", "disconnect"}
Running == hook # "exited"

-----------------------------------------------------------------------------
(* The hooks of NewService. *)

Init ==
    /\ hook = "off"
    /\ connected = FALSE
    /\ failed = FALSE
    /\ onConnect = [n \in Link |-> "none"]
    /\ onLost = [n \in Link |-> "none"]
    /\ msg = FALSE
    /\ link = "none"
    /\ links = 0
    /\ asked = FALSE
    /\ subscribed = FALSE
    /\ refused = FALSE
    /\ stale = FALSE

\* OnStart: Connect takes s.mu and starts the client.
Connect ==
    /\ hook = "off"
    /\ hook' = "connect"
    /\ link' = "dialing"
    /\ UNCHANGED <<connected, failed, handlers, msg, stale, links, asked, subscribed, refused>>

\* Faulty variant: token.Wait, without a time limit.
ConnectWaits ==
    /\ hook = "connect"
    /\ link # "dialing"
    /\ hook' = "serving"
    /\ failed' = (failed \/ link = "dead")
    /\ UNCHANGED <<connected, handlers, msg, stale, broker>>

\* The token has a result, or 35 s are over; the HTTP server starts next.
ConnectReturns ==
    /\ hook = "connect"
    /\ hook' = "serving"
    /\ failed' = (failed \/ link = "dead")
    /\ UNCHANGED <<connected, handlers, msg, stale, broker>>

\* fx gives up on a start after 15 s, and the process ends.
StartTimesOut ==
    /\ hook = "connect"
    /\ link = "dialing"
    /\ hook' = "exited"
    /\ UNCHANGED <<connected, failed, handlers, msg, stale, broker>>

\* OnStop: Disconnect takes s.mu and tells the client to close.
Disconnect ==
    /\ hook = "serving"
    /\ hook' = "disconnect"
    /\ link' = "closed"
    /\ asked' = FALSE
    /\ subscribed' = FALSE
    /\ UNCHANGED <<connected, failed, handlers, msg, stale, links, refused>>

\* Faulty variant: the client is given all the time its handler needs.
DisconnectWaits ==
    /\ hook = "disconnect"
    /\ ~msg
    /\ hook' = "stopped"
    /\ connected' = FALSE
    /\ UNCHANGED <<failed, handlers, msg, stale, broker>>

\* The client has closed, or 250 ms are over.
DisconnectReturns ==
    /\ hook = "disconnect"
    /\ hook' = "stopped"
    /\ connected' = FALSE
    /\ UNCHANGED <<failed, handlers, msg, stale, broker>>

\* The container starts the process again.
Restart ==
    /\ hook \in {"stopped", "exited"}
    /\ hook' = "off"
    /\ connected' = FALSE
    /\ failed' = FALSE
    /\ onConnect' = [n \in Link |-> "none"]
    /\ onLost' = [n \in Link |-> "none"]
    /\ msg' = FALSE
    /\ link' = "none"
    /\ links' = 0
    /\ asked' = FALSE
    /\ subscribed' = FALSE
    /\ refused' = FALSE
    /\ stale' = FALSE

-----------------------------------------------------------------------------
(* The client's connection, and the broker. *)

\* A connection is there: its OnConnect goroutine starts.
Opens ==
    /\ links < MaxLinks
    /\ link' = "open"
    /\ links' = links + 1
    /\ onConnect' = [onConnect EXCEPT ![links + 1] = "flag"]
    /\ UNCHANGED <<hook, connected, failed, onLost, msg, stale, asked, subscribed, refused>>

DialSucceeds == Running /\ link = "dialing" /\ Opens

\* Without SetConnectRetry the client gives up.
DialFails ==
    /\ Running
    /\ link = "dialing"
    /\ link' = "dead"
    /\ UNCHANGED <<service, links, asked, subscribed, refused>>

ConnectionLost ==
    /\ Running
    /\ link = "open"
    /\ link' = "lost"
    /\ asked' = FALSE
    /\ subscribed' = FALSE
    /\ refused' = FALSE
    /\ onLost' = [onLost EXCEPT ![links] = "flag"]
    /\ UNCHANGED <<hook, connected, failed, onConnect, msg, stale, links>>

\* SetAutoReconnect.
Reconnects == Running /\ link = "lost" /\ Opens

BrokerAccepts ==
    /\ asked
    /\ asked' = FALSE
    /\ subscribed' = TRUE
    /\ UNCHANGED <<service, link, links, refused>>

BrokerRefuses ==
    /\ Refusals
    /\ asked
    /\ asked' = FALSE
    /\ refused' = TRUE
    /\ UNCHANGED <<service, link, links, subscribed>>

-----------------------------------------------------------------------------
(* The handlers of the service. *)

\* Faulty variant: only a service without an error counts as connected.
OnConnectUnlessFailed(n) ==
    /\ Running /\ LockFree
    /\ onConnect[n] = "flag"
    /\ connected' = ~failed
    /\ failed' = FALSE
    /\ stale' = (onLost[n] = "done")
    /\ onConnect' = [onConnect EXCEPT ![n] = "subscribe"]
    /\ UNCHANGED <<hook, onLost, msg, broker>>

\* The n-th connection was made: the first half of its handler.
OnConnect(n) ==
    /\ Running /\ LockFree
    /\ onConnect[n] = "flag"
    /\ connected' = TRUE
    /\ failed' = FALSE
    /\ stale' = (onLost[n] = "done")
    /\ onConnect' = [onConnect EXCEPT ![n] = "subscribe"]
    /\ UNCHANGED <<hook, onLost, msg, broker>>

\* Faulty variant: only the first connection subscribes.
SubscribeOnce(n) ==
    /\ Running
    /\ onConnect[n] = "subscribe"
    /\ \A m \in Link : onConnect[m] # "wait"
    /\ onConnect' = [onConnect EXCEPT ![n] = "wait"]
    /\ asked' = (asked \/ (link = "open" /\ n = 1))
    /\ UNCHANGED <<hook, connected, failed, onLost, msg, stale, link, links, subscribed, refused>>

\* Faulty variant: no subscribeMu.
SubscribeUnlocked(n) ==
    /\ Running
    /\ onConnect[n] = "subscribe"
    /\ onConnect' = [onConnect EXCEPT ![n] = "wait"]
    /\ asked' = (asked \/ link = "open")
    /\ UNCHANGED <<hook, connected, failed, onLost, msg, stale, link, links, subscribed, refused>>

\* subscribeLocked, under subscribeMu: on whatever connection there is now,
\* which need not be the n-th any more.
SubscribeLocked(n) ==
    /\ Running
    /\ onConnect[n] = "subscribe"
    /\ \A m \in Link : onConnect[m] # "wait"
    /\ onConnect' = [onConnect EXCEPT ![n] = "wait"]
    /\ asked' = (asked \/ link = "open")
    /\ UNCHANGED <<hook, connected, failed, onLost, msg, stale, link, links, subscribed, refused>>

\* Answered, failed or 10 s over: it is only logged.
SubscribeReturns(n) ==
    /\ Running
    /\ onConnect[n] = "wait"
    /\ onConnect' = [onConnect EXCEPT ![n] = "done"]
    /\ UNCHANGED <<hook, connected, failed, onLost, msg, stale, broker>>

\* The n-th connection was lost.
OnConnectionLost(n) ==
    /\ Running /\ LockFree
    /\ onLost[n] = "flag"
    /\ connected' = FALSE
    /\ failed' = TRUE
    /\ stale' = (\E m \in Link : m > n /\ onConnect[m] \notin {"none", "flag"})
    /\ onLost' = [onLost EXCEPT ![n] = "done"]
    /\ UNCHANGED <<hook, onConnect, msg, broker>>

Deliver ==
    /\ Running
    /\ link = "open" /\ subscribed /\ ~msg
    /\ msg' = TRUE
    /\ UNCHANGED <<hook, connected, failed, handlers, stale, broker>>

\* messageHandler stores the entry under s.mu (module LiveDevices).
MessageStored ==
    /\ Running /\ LockFree
    /\ msg
    /\ msg' = FALSE
    /\ UNCHANGED <<hook, connected, failed, handlers, stale, broker>>

-----------------------------------------------------------------------------
Hooks ==
    Connect \/ ConnectReturns \/ StartTimesOut \/ Disconnect \/ DisconnectReturns \/ Restart

Network ==
    \/ DialSucceeds \/ DialFails \/ ConnectionLost \/ Reconnects
    \/ BrokerAccepts \/ BrokerRefuses \/ Deliver

Handling(n) ==
    OnConnect(n) \/ SubscribeLocked(n) \/ SubscribeReturns(n) \/ OnConnectionLost(n)

Next == Hooks \/ Network \/ MessageStored \/ \E n \in Link : Handling(n)

Spec == Init /\ [][Next]_vars

\* Goroutines run, time passes, and the broker answers a SUBSCRIBE; nothing
\* is assumed of the network, nor of when the process is stopped.
Fairness ==
    /\ WF_vars(ConnectReturns)
    /\ WF_vars(DisconnectReturns)
    /\ WF_vars(MessageStored)
    /\ WF_vars(BrokerAccepts \/ BrokerRefuses)
    /\ \A n \in Link : /\ WF_vars(OnConnect(n))
                       /\ WF_vars(SubscribeLocked(n))
                       /\ WF_vars(SubscribeReturns(n))
                       /\ WF_vars(OnConnectionLost(n))

LiveSpec == Spec /\ Fairness

-----------------------------------------------------------------------------
\* One subscribeLocked at a time; a connection is lost after it was made.
TypeOK ==
    /\ hook \in {"off", "connect", "serving", "disconnect", "stopped", "exited"}
    /\ link \in {"none", "dialing", "open", "lost", "dead", "closed"}
    /\ connected \in BOOLEAN /\ failed \in BOOLEAN /\ msg \in BOOLEAN
    /\ asked \in BOOLEAN /\ subscribed \in BOOLEAN /\ refused \in BOOLEAN
    /\ stale \in BOOLEAN
    /\ links \in 0..MaxLinks
    /\ onConnect \in [Link -> {"none", "flag", "subscribe", "wait", "done"}]
    /\ onLost \in [Link -> {"none", "flag", "done"}]
    /\ \A n \in Link : /\ onConnect[n] = "none" <=> n > links
                       /\ n > links => onLost[n] = "none"
    /\ \A m, n \in Link : onConnect[m] = "wait" /\ onConnect[n] = "wait" => m = n

\* service.go:105 and 416: the hooks hold s.mu while they wait for the
\* client, whose handlers wait for s.mu; still both hooks come to an end,
\* and whoever wants the lock gets it.
NobodyWaitsForever ==
    /\ hook = "connect" ~> hook # "connect"
    /\ hook = "disconnect" ~> hook # "disconnect"
    /\ msg ~> ~msg
    /\ \A n \in Link : /\ onConnect[n] = "flag" ~> onConnect[n] # "flag"
                       /\ onLost[n] = "flag" ~> onLost[n] # "flag"

\* service.go:128: whatever connections came and went, and in whatever order
\* their handlers ran, one that lasts has a subscription in the end, unless
\* the broker has refused it.  (Then nothing asks again: line 157 only logs.)
HearsAgain == <>[](link = "open" /\ ~refused) => <>[]subscribed

\* service.go:128: at no moment is a connection left without a subscription
\* and without anybody who will ask for one, unless the broker has refused.
NobodyForgotten ==
    link = "open" /\ ~subscribed /\ ~refused =>
        asked \/ onConnect[links] \in {"flag", "subscribe"}

\* service.go:125 and 133: where connected disagrees with the connection, the
\* goroutine that will set it right has yet to run, or one that had been
\* overtaken has set it.
WrongStatusIsOwed ==
    /\ link = "open" /\ ~connected /\ ~stale => onConnect[links] = "flag"
    /\ link = "lost" /\ connected /\ ~stale => \E n \in Link : onLost[n] = "flag"

\* service.go:125 and 133: connected comes to agree with a connection that
\* lasts, unless the goroutine that set it last had been overtaken.
StatusCatchesUp == <>[](link = "open" /\ ~stale) => <>[]connected

=============================================================================
