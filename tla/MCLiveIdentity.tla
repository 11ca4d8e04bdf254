--------------------------- MODULE MCLiveIdentity ---------------------------
(* A small instance of LiveIdentity, with the catalogue of MCLiveDevices. *)
EXTENDS LiveIdentity

\* Nothing here depends on the parent of a device or on its members' roles.
PlainCatalog ==
    /\ \A k \in DOMAIN member : member[k] = "editor"
    /\ \A r \in DOMAIN dev : dev[r].parent = None

MCNext == IdNext /\ PlainCatalog'

MCLiveSpec == IdInit /\ [][MCNext]_idVars /\ Fairness

=============================================================================
