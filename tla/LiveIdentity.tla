----------------------------- MODULE LiveIdentity -----------------------------
(***************************************************************************)
(* What the registry entry of a device_id says of its row, with an         *)
(* observation beside LiveDevices: no action reads it.                     *)
(***************************************************************************)
EXTENDS LiveDevices

VARIABLE overtaken   \* observation: what the device_id of the message belongs
                     \* to has changed since the message was looked up

idVars == <<vars, overtaken>>

\* row is the only row that has device_id l, or None if there is not just one.
Belongs(l, row) == \A r \in Row : RowsLabelled(l) = {r} <=> row = r

LookedUp == msg # None /\ msg.at = "store"

Overtake ==
    overtaken' =
        /\ LookedUp /\ LookedUp'
        /\ \/ overtaken
           \/ \E l \in Label, row \in Row \cup {None} :
                 l = msg.label /\ Belongs(l, row) /\ ~Belongs(l, row)'

IdInit == Init /\ overtaken = FALSE

IdNext == Next /\ Overtake

IdSpec == IdInit /\ [][IdNext]_idVars

-----------------------------------------------------------------------------
\* The entry of device_id l names what l belongs to.
Right(l, row) == Belongs(l, row) /\ l \in DOMAIN registry /\ registry[l].row = row

\* The message in hand is stored, and is one of device_id l.
Stored(l) == Store /\ msg.label = l

\* messageHandler, service.go:175 and 209: a message that is stored makes the
\* entry of its device_id right, whatever that said before: it names the only
\* row of the device_id, or none where there is not just one.  An entry that
\* is right stays so until another message is stored for it, or what the
\* device_id belongs to changes.  The one exception, where no query fails and
\* the process does not start again, is a message that was overtaken: what it
\* was looked up for changed before it was stored, so it may make an entry
\* wrong, even one that was right.
IdentityHolds ==
    [][\A l \in Label, row \in Row \cup {None} :
          /\ Belongs(l, row)'
          /\ IF Stored(l) THEN ~overtaken ELSE Right(l, row)
          => Right(l, row)']_idVars

=============================================================================
