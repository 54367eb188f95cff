------------------------ MODULE TransactionalOutbox ------------------------
(***************************************************************************)
(* What the outbox promises, as atomic steps: only what a committed job or *)
(* an authorised post asked for becomes a fact, the first fact under an    *)
(* event id stays until it is forgotten, and an entry is acknowledged only *)
(* when its own payload has been a fact.  An acknowledgement may be taken  *)
(* back; the fact is not.                                                  *)
(***************************************************************************)
CONSTANTS Entry, Payload, Context, NoPayload, None

VARIABLES
    job,      \* the payload that the job committed for each entry asks for
    wanted,   \* the payloads asked for by committed jobs and authorised posts
    fact,     \* what is stored under the event id of each entry
    seen,     \* every content that was ever stored there
    told      \* the entries that are acknowledged
vars == <<job, wanted, fact, seen, told>>

Content == [payload : Payload, context : Context]

Init ==
    /\ job = [e \in Entry |-> NoPayload]
    /\ wanted = [e \in Entry |-> {}]
    /\ fact = [e \in Entry |-> None]
    /\ seen = [e \in Entry |-> {}]
    /\ told = {}

Commit(e, p) ==
    /\ job[e] = NoPayload
    /\ job' = [job EXCEPT ![e] = p]
    /\ wanted' = [wanted EXCEPT ![e] = @ \cup {p}]
    /\ UNCHANGED <<fact, seen, told>>

Ask(e, p) ==
    /\ wanted' = [wanted EXCEPT ![e] = @ \cup {p}]
    /\ UNCHANGED <<job, fact, seen, told>>

Store(e, c) ==
    /\ c.payload \in wanted[e]
    /\ fact[e] = None
    /\ fact' = [fact EXCEPT ![e] = c]
    /\ seen' = [seen EXCEPT ![e] = @ \cup {c}]
    /\ UNCHANGED <<job, wanted, told>>

Forget(e) ==
    /\ fact' = [fact EXCEPT ![e] = None]
    /\ UNCHANGED <<job, wanted, seen, told>>

Acknowledge(e) ==
    /\ \E c \in seen[e] : c.payload = job[e]
    /\ told' = told \cup {e}
    /\ UNCHANGED <<job, wanted, fact, seen>>

Retract(e) ==
    /\ told' = told \ {e}
    /\ UNCHANGED <<job, wanted, fact, seen>>

Next ==
    \E e \in Entry :
        \/ \E p \in Payload : Commit(e, p) \/ Ask(e, p)
        \/ \E c \in Content : Store(e, c)
        \/ Forget(e) \/ Acknowledge(e) \/ Retract(e)

Spec == Init /\ [][Next]_vars
=============================================================================
