-------------------------------- MODULE Store --------------------------------
(***************************************************************************)
(* What a store of the SPECTRE server promises (the interface Store of     *)
(* internal/server/storage/storage.go), as the in-memory store does it:    *)
(* every operation is one critical section of m.mu                         *)
(* (internal/server/storage/memory.go).                                    *)
(*                                                                         *)
(* A mirror is the service environment that stateKey names.  A quarantine  *)
(* is known by the time at which it began, 0 standing for none.            *)
(***************************************************************************)
EXTENDS Integers

CONSTANTS
    Mirrors,     \* service environments
    Directions,  \* model.Direction
    Reports,     \* what a mirror may report: model.State
    Forgotten,   \* no state is stored
    TTL          \* ServeConfig.StateTTL

ASSUME StoreAssumption == Forgotten \notin [state : Reports, received : Nat] /\ TTL \in Nat

VARIABLES
    now,          \* the clock of the servers and the mirrors
    states,       \* m.states
    divergences,  \* m.divergences: when the quarantine of each source began
    cleared       \* m.cleared

storeVars == <<states, divergences, cleared>>

Received == [state : Reports, received : Nat]

StoreInit ==
    /\ now = 1
    /\ states = [m \in Mirrors |-> Forgotten]
    /\ divergences = [m \in Mirrors |-> [d \in Directions |-> 0]]
    /\ cleared = [m \in Mirrors |-> 0]

-----------------------------------------------------------------------------
\* ignored: the quarantine began before the stored one, or not after the last clear.
ignored(stored, clear, since) == stored > since \/ (clear # 0 /\ since <= clear)

Put(m, state, at) ==
    /\ states' = [states EXCEPT ![m] = [state |-> state, received |-> at]]
    /\ UNCHANGED <<now, divergences, cleared>>

\* States forgets what was received before the time that the caller gave.
Forget(m, since) ==
    /\ states[m] # Forgotten
    /\ states[m].received < since
    /\ states' = [states EXCEPT ![m] = Forgotten]
    /\ UNCHANGED <<now, divergences, cleared>>

Record(m, d, since) ==
    /\ ~ignored(divergences[m][d], cleared[m], since)
    /\ divergences' = [divergences EXCEPT ![m][d] = since]
    /\ UNCHANGED <<now, states, cleared>>

Clear(m, at) ==
    /\ divergences' = [divergences EXCEPT ![m] = [d \in Directions |-> 0]]
    /\ cleared' = [cleared EXCEPT ![m] = at]
    /\ UNCHANGED <<now, states>>

Tick ==
    /\ now' = now + 1
    /\ UNCHANGED storeVars

\* Nobody gives a time that has not come yet.
StoreNext ==
    \/ \E m \in Mirrors, state \in Reports, at \in 1 .. now : Put(m, state, at)
    \/ \E m \in Mirrors : Forget(m, now - TTL)
    \/ \E m \in Mirrors, d \in Directions, since \in 1 .. now : Record(m, d, since)
    \/ \E m \in Mirrors, at \in 1 .. now : Clear(m, at)
    \/ Tick

StoreSpec == StoreInit /\ [][StoreNext]_<<now, storeVars>>

=============================================================================
