--------------------------- MODULE MCLiveDevices ---------------------------
(* Small instances of LiveDevices. *)
EXTENDS LiveDevices, TLC

\* Nothing here depends on the parent of a device or on which role a member
\* has, so the catalogue only has editors and devices without a parent.
PlainCatalog ==
    /\ \A k \in DOMAIN member : member[k] = "editor"
    /\ \A r \in DOMAIN dev : dev[r].parent = None

MCNext == Next /\ PlainCatalog'

MCSpec == Init /\ [][MCNext]_vars

Symmetry == Permutations(User) \cup Permutations(Env) \cup Permutations(Row)
              \cup Permutations(Viewer) \cup Permutations(Label)

=============================================================================
