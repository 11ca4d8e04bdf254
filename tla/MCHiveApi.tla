----------------------------- MODULE MCHiveApi -----------------------------
(* Small instances of HiveApi. *)
EXTENDS HiveApi, TLC

MembershipOps ==
    {"postEnvironment", "getEnvironment", "deleteEnvironment",
     "listMembers", "postMember", "patchMember", "deleteMember"}

DeviceOps ==
    {"postEnvironment", "patchEnvironment", "deleteEnvironment",
     "listDevices", "postDevice", "getDevice", "patchDevice", "deleteDevice"}

TreeOps == {"postEnvironment", "deleteEnvironment", "postDevice", "patchDevice",
            "deleteDevice"}

Symmetry ==
    Permutations(User) \cup Permutations(Env) \cup Permutations(Row)
      \cup Permutations(Label \ (Padded \cup {Blank})) \cup Permutations(Req)

=============================================================================
