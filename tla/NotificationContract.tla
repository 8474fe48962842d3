------------------------ MODULE NotificationContract ------------------------
(***************************************************************************)
(* What the outbox promises to the code that enqueues events, without the  *)
(* workers, leases and retries that keep the promise: the audience of a    *)
(* message is fixed once, whoever was told stays told, and a message is    *)
(* done only when its whole audience has been told.  A message given back  *)
(* is taken again; a late worker may give back a message already done.     *)
(***************************************************************************)
CONSTANTS
    Message,
    User,
    None    \* the audience is not fixed yet

VARIABLES
    state,     \* state[m]: "none", "waiting", "taken" or "done"
    audience,  \* audience[m]: who is to be told, None while nobody knows
    told,      \* the pairs <<m, u>> such that u was told m
    late       \* has a claim been taken from a worker that goes on?

contractVars == <<state, audience, told, late>>

ContractInit ==
    /\ state = [m \in Message |-> "none"]
    /\ audience = [m \in Message |-> None]
    /\ told = {}
    /\ late = FALSE

Submit(m) ==
    /\ state[m] = "none"
    /\ state' = [state EXCEPT ![m] = "waiting"]
    /\ UNCHANGED <<audience, told, late>>

Take(m) ==
    /\ state[m] = "waiting"
    /\ state' = [state EXCEPT ![m] = "taken"]
    /\ UNCHANGED <<audience, told, late>>

InHand(m) == state[m] = "taken" \/ (late /\ state[m] # "none")

Address(m, group) ==
    /\ InHand(m) /\ audience[m] = None
    /\ audience' = [audience EXCEPT ![m] = group]
    /\ UNCHANGED <<state, told, late>>

Tell(m, u) ==
    /\ audience[m] # None /\ u \in audience[m]
    /\ told' = told \cup {<<m, u>>}
    /\ UNCHANGED <<state, audience, late>>

\* Messages are given back one by one or, after a crash, together.
GiveBack(group) ==
    /\ \A m \in group : InHand(m)
    /\ state' = [m \in Message |-> IF m \in group THEN "waiting" ELSE state[m]]
    /\ UNCHANGED <<audience, told, late>>

Finish(m) ==
    /\ InHand(m) /\ audience[m] # None
    /\ \A u \in audience[m] : <<m, u>> \in told
    /\ state' = [state EXCEPT ![m] = "done"]
    /\ UNCHANGED <<audience, told, late>>

\* A worker is taken for dead and goes on.
Overtake ==
    /\ late' = TRUE
    /\ UNCHANGED <<state, audience, told>>

ContractNext ==
    \/ Overtake
    \/ \E group \in SUBSET Message : GiveBack(group)
    \/ \E m \in Message :
          \/ Submit(m) \/ Take(m) \/ Finish(m)
          \/ \E group \in SUBSET User : Address(m, group)
          \/ \E u \in User : Tell(m, u)

Contract == ContractInit /\ [][ContractNext]_contractVars
=============================================================================
