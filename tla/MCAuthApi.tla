------------------------------ MODULE MCAuthApi ------------------------------
(* Small instances of AuthApi, and of BootstrapAuth within it. *)
EXTENDS AuthApi

CONSTANTS a, b

MCOwn == {a, b}

\* A value of the operator's that is expanded to another one.
MCLoaded == [v \in Value |-> IF v = b THEN a ELSE v]

Env(t, u, p) == [token |-> t, user |-> u, password |-> p]

\* All from the file, all from outside, a token that is there but empty (an
\* env_file with the line of .env.example), and half an account.
MCExports ==
    {Env(Unset, Unset, Unset), Env(Unset, a, a), Env(Blank, a, a), Env(Unset, Unset, a)}

Lined(form, k, values) == {[key |-> k, form |-> form, value |-> v] : v \in values}

PlainLines ==
    Lined("plain", "token", {Blank, Placeholder, a, b})
      \cup Lined("plain", "user", {a})
      \cup Lined("plain", "other", {Placeholder})

\* A file for a shell.
ShellLines == Lined("plain", "token", {Blank}) \cup Lined("export", "token", {a})

=============================================================================
