---------------------------- MODULE EgressShutdown ----------------------------
(***************************************************************************)
(* The engine's shutdown beside a running egress queue: egressQueue.shutdown*)
(* reads the idle channel under q.mu and waits on that channel outside it,  *)
(* while requests keep arriving and may replace the channel.                *)
(***************************************************************************)
EXTENDS EgressQueue

VARIABLE shutdown  \* its caller: whether it waits, the channel it read, the hashes it awaits

allVars == <<vars, shutdown>>

NoShutdown == [waiting |-> FALSE, idle |-> 0, awaits |-> {}]

ShutdownInit ==
    /\ Init
    /\ shutdown = NoShutdown

StartShutdown ==
    /\ ~shutdown.waiting
    /\ shutdown' = [waiting |-> TRUE, idle |-> idle, awaits |-> InProgress]
    /\ UNCHANGED vars

\* The select: the channel is closed and shutdown returns nil.
ShutdownIdle ==
    /\ shutdown.waiting
    /\ shutdown.idle \in closed
    /\ shutdown' = NoShutdown
    /\ UNCHANGED vars

\* Its context is done first.
ShutdownTimeout ==
    /\ shutdown.waiting
    /\ shutdown' = NoShutdown
    /\ UNCHANGED vars

ShutdownNext ==
    \/ Next /\ UNCHANGED shutdown
    \/ StartShutdown
    \/ ShutdownIdle
    \/ ShutdownTimeout

ShutdownSpec == ShutdownInit /\ [][ShutdownNext]_allVars

-----------------------------------------------------------------------------
\* shutdown can return nil only when every hash in progress at its call has ended, even
\* if later requests have replaced the idle channel meanwhile.
ShutdownWaits ==
    shutdown.waiting /\ shutdown.idle \in closed => \A r \in shutdown.awaits : stage[r] = "finished"

=============================================================================
