------------------------------ MODULE Tenancy ------------------------------
(***************************************************************************)
(* What Flora Hive promises of an environment, whatever the interleaving   *)
(* of the requests: it is created empty but for its creator, as editor, by *)
(* a request of that user; and from then on it changes only by the act of  *)
(* a request that holds a licence for it itself, which it has only if its  *)
(* user was an editor of that very environment at some moment since the    *)
(* request began.  No step changes two environments, or is the act of two  *)
(* requests.                                                               *)
(***************************************************************************)
CONSTANTS User, Env, Req, None

VARIABLES
    life,      \* [Env -> {"unborn", "live", "dead"}]
    role,      \* [Env -> [User -> role or None]]
    content,   \* [Env -> what is in it], only compared for equality
    caller,    \* [Req -> the user it acts for, or anything that is no user]
    licence,   \* [Req -> SUBSET Env]
    stage      \* [Req -> how far it has come], only compared for equality

state == <<life, role, content>>

NoRoles == [u \in User |-> None]
Editors(e) == {u \in User : role[e][u] = "editor"}

Init ==
    /\ life = [e \in Env |-> "unborn"]
    /\ role = [e \in Env |-> NoRoles]
    /\ licence = [q \in Req |-> {}]   \* any content, any caller, any stage

Untouched(e) ==
    /\ life'[e] = life[e]
    /\ role'[e] = role[e]
    /\ content'[e] = content[e]

\* The step is one of request q, and of no other.
Acts(q) ==
    /\ stage'[q] # stage[q]
    /\ \A p \in Req \ {q} : stage'[p] = stage[p]

Create(q, e) ==
    /\ Acts(q)
    /\ caller[q] \in User
    /\ life[e] = "unborn"
    /\ life'[e] = "live"
    /\ role'[e] = [NoRoles EXCEPT ![caller[q]] = "editor"]
    /\ content'[e] = content[e]

\* Request q, with a licence of its own, changes or deletes e; nothing
\* revives it.
Change(q, e) ==
    /\ Acts(q)
    /\ e \in licence[q]
    /\ life[e] = "live"
    /\ life'[e] \in {"live", "dead"}
    /\ life'[e] = "dead" => role'[e] = NoRoles

\* A licence is earned by being an editor, and is not handed on.
LicencesEarned ==
    \A q \in Req : \A e \in licence'[q] :
        \/ caller'[q] \in Editors(e)'
        \/ caller'[q] = caller[q] /\ e \in licence[q]

Next ==
    /\ \/ UNCHANGED state
       \/ \E q \in Req, e \in Env :
             /\ Change(q, e) \/ Create(q, e)
             /\ \A f \in Env \ {e} : Untouched(f)
    /\ LicencesEarned

Spec == Init /\ [][Next]_<<state, caller, licence, stage>>

-----------------------------------------------------------------------------
Orphaned(e) ==
    /\ life[e] = "live"
    /\ Editors(e) = {}
    /\ \A q \in Req : e \notin licence[q]

\* An environment whose last editor has gone, with no request still acting
\* for one, stays for ever as it is: nobody can change it or delete it.
OrphansAreFrozen ==
    [][\A e \in Env : Orphaned(e) => Orphaned(e)' /\ Untouched(e)]_<<state, caller, licence, stage>>

=============================================================================
