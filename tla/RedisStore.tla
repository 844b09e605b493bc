------------------------------ MODULE RedisStore ------------------------------
(***************************************************************************)
(* The Redis store (internal/server/storage/redis.go).  Servers share one  *)
(* database, and their handlers call it at the same time.  One action is   *)
(* one command, one script or one transaction, which Redis runs            *)
(* atomically; between the commands of a call other handlers act.          *)
(*                                                                         *)
(* The hash spectre:states is the variable states; spectre:divergences is  *)
(* divergences together with cleared, and is watched as a whole.           *)
(***************************************************************************)
EXTENDS Store, Functions

CONSTANTS
    Handlers,  \* the handlers of all servers that call Record
    Listers    \* those that call States

VARIABLES
    record,  \* the Record call of each handler
    list     \* each States call: the stale values that it has read

callVars == <<record, list>>

NoRecord == [phase |-> "none"]
NoList == <<>>

RedisInit ==
    /\ StoreInit
    /\ record = [h \in Handlers |-> NoRecord]
    /\ list = [h \in Listers |-> NoList]

\* Whoever has read spectre:divergences under WATCH finds it changed.
Touched(calls) ==
    [h \in Handlers |->
        IF calls[h].phase = "exec" THEN [calls[h] EXCEPT !.intact = FALSE] ELSE calls[h]]

-----------------------------------------------------------------------------
\* Put is one HSET.
PutField(m, state, at) ==
    /\ Put(m, state, at)
    /\ UNCHANGED callVars

\* WATCH and HMGET of Record; an ignored divergence ends the call.
ReadWatched(h, m, d, since) ==
    /\ record' = [record EXCEPT ![h] =
                     IF ignored(divergences[m][d], cleared[m], since) THEN NoRecord
                     ELSE [phase |-> "exec", mirror |-> m, direction |-> d, since |-> since,
                           intact |-> TRUE]]
    /\ UNCHANGED <<now, storeVars, list>>

\* Mutant: MULTI without WATCH.
ExecUnwatched(h) ==
    /\ record[h].phase = "exec"
    /\ LET call == record[h]
       IN  divergences' = [divergences EXCEPT ![call.mirror][call.direction] = call.since]
    /\ record' = [Touched(record) EXCEPT ![h] = NoRecord]
    /\ UNCHANGED <<now, states, cleared, list>>

\* EXEC of the pipelined HSET, unless the hash has changed.
Exec(h) ==
    /\ record[h].phase = "exec" /\ record[h].intact
    /\ LET call == record[h]
       IN  divergences' = [divergences EXCEPT ![call.mirror][call.direction] = call.since]
    /\ record' = [Touched(record) EXCEPT ![h] = NoRecord]
    /\ UNCHANGED <<now, states, cleared, list>>

\* EXEC fails, and Record reads again.
RetryRecord(h) ==
    /\ record[h].phase = "exec" /\ ~record[h].intact
    /\ LET call == record[h]
       IN  ReadWatched(h, call.mirror, call.direction, call.since)

\* Clear is one transaction of HDEL and HSET.
ClearFields(m, at) ==
    /\ Clear(m, at)
    /\ record' = Touched(record)
    /\ UNCHANGED list

\* States reads the whole hash and keeps the values received before its time; a call that
\* finds none changes nothing.
ReadStates(h) ==
    LET stale == {m \in Mirrors : states[m] # Forgotten /\ states[m].received < now - TTL}
    IN  /\ list[h] = NoList /\ stale # {}
        /\ list' = [list EXCEPT ![h] = [m \in stale |-> states[m]]]
        /\ UNCHANGED <<now, storeVars, record>>

\* The script forgetIfUnchanged compares the value and deletes the field.
ForgetIfUnchanged(h, m) ==
    /\ m \in DOMAIN list[h]
    /\ states' = IF states[m] = list[h][m] THEN [states EXCEPT ![m] = Forgotten] ELSE states
    /\ list' = [list EXCEPT ![h] = Restrict(@, DOMAIN @ \ {m})]
    /\ UNCHANGED <<now, divergences, cleared, record>>

\* The script fails, and States returns with the other fields unforgotten.
StatesFails(h) ==
    /\ list[h] # NoList
    /\ list' = [list EXCEPT ![h] = NoList]
    /\ UNCHANGED <<now, storeVars, record>>

\* A command of Record fails.
RecordFails(h) ==
    /\ record' = [record EXCEPT ![h] = NoRecord]
    /\ UNCHANGED <<now, storeVars, list>>

-----------------------------------------------------------------------------
\* Any number of servers, each call made with a time that has come.
RedisNext ==
    \/ \E m \in Mirrors, state \in Reports, at \in 1 .. now : PutField(m, state, at)
    \/ \E h \in Handlers, m \in Mirrors, d \in Directions, since \in 1 .. now :
          record[h] = NoRecord /\ ReadWatched(h, m, d, since)
    \/ \E h \in Handlers : Exec(h) \/ RetryRecord(h) \/ RecordFails(h)
    \/ \E m \in Mirrors, at \in 1 .. now : ClearFields(m, at)
    \/ \E h \in Listers : ReadStates(h) \/ StatesFails(h)
    \/ \E h \in Listers, m \in Mirrors : ForgetIfUnchanged(h, m)
    \/ Tick /\ UNCHANGED callVars

RedisSpec == RedisInit /\ [][RedisNext]_<<now, storeVars, callVars>>

\* What Record read under WATCH still decides as it did, as long as no other command has
\* touched the hash: an EXEC that succeeds stores nothing that the hash by then tells
\* Record to ignore.
WatchHolds ==
    \A h \in Handlers :
        record[h].phase = "exec" /\ record[h].intact =>
            ~ignored(divergences[record[h].mirror][record[h].direction], cleared[record[h].mirror], record[h].since)

\* The commands of concurrent Record, Put, Clear and States calls act on the hashes as
\* the in-memory store's critical sections do: each call takes effect at one command, a
\* late transaction stores no ignored divergence and a late script forgets no fresh state.
AtomicStore == StoreSpec

=============================================================================
