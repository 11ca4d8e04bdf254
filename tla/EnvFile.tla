------------------------------- MODULE EnvFile -------------------------------
(***************************************************************************)
(* The env file as internal/bootstrapauth/persist.go reads and rewrites it,*)
(* and as godotenv reads it when a process starts.                         *)
(*                                                                         *)
(* A file is a function from line numbers to lines.  Its order matters     *)
(* only among the lines of one key, so a line that is dropped leaves a gap,*)
(* and each key has a place of its own at the end for the line appended    *)
(* for it.  USERVER_AUTH_BOOTSTRAP_IS_ADMIN is treated like the password,  *)
(* and "other" stands for every key bootstrap:auth does not know.          *)
(***************************************************************************)
EXTENDS Naturals

CONSTANTS
    MaxLines,     \* lines of the file the operator wrote, at most
    Own,          \* values an operator may have given to a key
    Made,         \* the token uServer-Auth made for the system
    Blank,        \* the empty value
    Placeholder,  \* a value like <token>
    Loaded        \* what godotenv makes of the text of a value

ASSUME FileConstants ==
    /\ MaxLines \in Nat
    /\ Blank # Placeholder /\ Made \notin {Blank, Placeholder}
    /\ Own \cap {Made, Blank, Placeholder} = {}

Order == [token |-> 1, user |-> 2, password |-> 3]
BootKey == DOMAIN Order
Key == BootKey \cup {"other"}
Real == Own \cup {Made}
Value == Real \cup {Blank, Placeholder}

\* What is written as v may be read as something else: formatEnvValue leaves
\* a $ as it is, in double quotes, where godotenv expands it; and what the
\* operator has written may have single quotes or a comment after it, which
\* are part of the value to parseEnvValue.
ASSUME LoadedConstants ==
    /\ Loaded \in [Value -> Value]
    /\ Loaded[Blank] = Blank
    /\ Loaded[Placeholder] \notin Real

\* "export K=v", or a line that is indented, is a line to godotenv and to a
\* shell, but not to envLineKey.
Form == {"plain", "export"}
Line == [key : Key, form : Form, value : Value]

OwnSlot == 1..MaxLines
Appended(k) == MaxLines + Order[k]
Slot == OwnSlot \cup {Appended(k) : k \in BootKey}

-----------------------------------------------------------------------------
\* Line i of f is one of key k to envLineKey.
Plain(f, k, i) == i \in DOMAIN f /\ f[i].key = k /\ f[i].form = "plain"

\* The first of them is the one that is rewritten ...
IsFirst(f, k, i) == Plain(f, k, i) /\ \A j \in DOMAIN f : Plain(f, k, j) => j >= i

\* ... and the last is the one that is read.
IsLast(f, k, i) == Plain(f, k, i) /\ \A j \in DOMAIN f : Plain(f, k, j) => j <= i

\* Key k has a value that is not to be overwritten.
Protected(f, k) == \E i \in DOMAIN f : IsLast(f, k, i) /\ f[i].value \in Real

\* The keys of the updates up that may be written.
FilterUpdates(f, up) == {k \in DOMAIN up : up[k] # Blank /\ ~Protected(f, k)}

\* The lines that stay: of a key that is written, only the first.
Kept(f, keys) ==
    {i \in DOMAIN f : f[i].form = "plain" /\ f[i].key \in keys => IsFirst(f, f[i].key, i)}

\* The keys that have no line yet.
Missing(f, keys) == {k \in keys : \A i \in DOMAIN f : ~Plain(f, k, i)}

Rewritten(line, up, keys) ==
    IF line.form = "plain" /\ line.key \in keys
      THEN [line EXCEPT !.value = up[line.key]]
      ELSE line

\* A key is rewritten in its first line and its other lines are dropped; a
\* key without a line is appended.  Everything else stays.
Upsert(f, up, keys) ==
    LET appended == {Appended(k) : k \in Missing(f, keys)}
    IN  [i \in Kept(f, keys) \cup appended |->
            IF i \in appended
              THEN LET k == CHOOSE n \in Missing(f, keys) : i = Appended(n)
                   IN  [key |-> k, form |-> "plain", value |-> up[k]]
              ELSE Rewritten(f[i], up, keys)]

\* What is left of f when the write stops after line n.
CutAfter(f, n) == [i \in {j \in DOMAIN f : j <= n} |-> f[i]]

-----------------------------------------------------------------------------
\* godotenv.Load: line i is the one that gives key k its value.
Gives(f, k, i) ==
    /\ i \in DOMAIN f /\ f[i].key = k
    /\ \A j \in DOMAIN f : f[j].key = k => j <= i

Text(f, k) ==
    IF \E i \in DOMAIN f : Gives(f, k, i)
      THEN f[CHOOSE i \in DOMAIN f : Gives(f, k, i)].value
      ELSE Blank

Dotenv(f, k) == Loaded[Text(f, k)]

=============================================================================
