---------------------------- MODULE ReportingProofs ----------------------------
(***************************************************************************)
(* The Redis store implements the in-memory one: every command of          *)
(* RedisStore is a step of Store or leaves its variables unchanged, for    *)
(* any number of servers, service environments and reports; and so does    *)
(* every step of the mirror and the servers that report through it.        *)
(*                                                                         *)
(* Two facts make it so.  Between the read and the EXEC of Record nothing  *)
(* that decides it changes unless its watch is broken (WatchHolds), and    *)
(* what States read as stale is still stale when its script deletes it,    *)
(* because the script compares the value and the clock never goes back.    *)
(* That the servers keep to RedisStore rests on a third: no message,       *)
(* state or clear carries a time that has not come (Timely).  Its          *)
(* quarantines did begin when they say, which StoreGenuine carries on to   *)
(* the store.                                                              *)
(***************************************************************************)
EXTENDS Reporting, TLAPS

USE SMTT(60)

\* A Record call between its read and its EXEC.
WatchedCall ==
    [phase : {"exec"}, mirror : Mirrors, direction : Directions, since : 1 .. now, intact : BOOLEAN]

\* The types of the store's variables and of the calls in progress.
RedisTypeOK ==
    /\ now \in Nat
    /\ states \in [Mirrors -> Received \cup {Forgotten}]
    /\ divergences \in [Mirrors -> [Directions -> Nat]]
    /\ cleared \in [Mirrors -> Nat]
    /\ record \in [Handlers -> {NoRecord} \cup WatchedCall]

\* What a States call has still to forget was received before its time.
StaleStaysStale ==
    /\ list \in [Listers -> UNION {[S -> Received] : S \in SUBSET Mirrors}]
    /\ \A h \in Listers : \A m \in DOMAIN list[h] : list[h][m].received < now - TTL

RedisInv == RedisTypeOK /\ WatchHolds /\ StaleStaysStale

\* A record of Handlers that was touched keeps its call and loses its watch.
LEMMA TouchedCalls ==
    ASSUME RedisTypeOK
    PROVE  /\ Touched(record) \in [Handlers -> {NoRecord} \cup WatchedCall]
           /\ \A h \in Handlers : Touched(record)[h].phase = "exec" => ~Touched(record)[h].intact
  <1> SUFFICES ASSUME NEW h \in Handlers
               PROVE  /\ Touched(record)[h] \in {NoRecord} \cup WatchedCall
                      /\ Touched(record)[h].phase = "exec" => ~Touched(record)[h].intact
    BY DEF Touched
  <1>1. CASE record[h] = NoRecord
    <2>1. Touched(record)[h] = NoRecord
      BY <1>1 DEF Touched, NoRecord
    <2> QED
      BY <2>1 DEF NoRecord
  <1>2. CASE record[h] \in WatchedCall
    <2>1. Touched(record)[h] = [record[h] EXCEPT !.intact = FALSE]
      BY <1>2 DEF Touched, WatchedCall
    <2> QED
      BY Zenon, <1>2, <2>1 DEF WatchedCall
  <1> QED
    BY <1>1, <1>2 DEF RedisTypeOK

\* The value of a Record call is NoRecord or a watched call.
LEMMA CallCases ==
    ASSUME RedisTypeOK, NEW h \in Handlers, record[h].phase = "exec"
    PROVE  record[h] \in WatchedCall
  BY DEF RedisTypeOK, NoRecord

\* Nothing is stored and no call is made at first.
LEMMA RedisInitial == RedisInit => RedisInv
  <1> SUFFICES ASSUME RedisInit PROVE RedisInv
    OBVIOUS
  <1>1. RedisTypeOK
    BY DEF RedisInit, StoreInit, RedisTypeOK
  <1>2. WatchHolds
    BY DEF RedisInit, WatchHolds, NoRecord
  <1>3. StaleStaysStale
    <2>1. NoList \in [{} -> Received]
      BY DEF NoList
    <2>2. \A h \in Listers : list[h] = NoList
      BY DEF RedisInit
    <2> QED
      BY <2>1, <2>2, SMT DEF RedisInit, StaleStaysStale
  <1> QED
    BY <1>1, <1>2, <1>3 DEF RedisInv

\* A States call that keeps stale values only, while the clock stands.
LEMMA StaleKept ==
    ASSUME StaleStaysStale, NEW h \in Listers, NEW S \in SUBSET Mirrors, NEW f \in [S -> Received],
           \A m \in S : f[m].received < now - TTL,
           list' = [list EXCEPT ![h] = f], now' = now
    PROVE  StaleStaysStale'
  <1> DEFINE Values == UNION {[T -> Received] : T \in SUBSET Mirrors}
  <1>1. f \in Values
    OBVIOUS
  <1>2. list' \in [Listers -> Values]
    <2> HIDE DEF Values
    <2>1. list \in [Listers -> Values]
      BY DEF StaleStaysStale, Values
    <2> QED
      BY <1>1, <2>1
  <1>3. ASSUME NEW g \in Listers, NEW m \in DOMAIN list'[g]
        PROVE  list'[g][m].received < now' - TTL
    <2>1. CASE g = h
      BY <2>1, <1>3 DEF StaleStaysStale
    <2>2. CASE g # h
      BY <2>2, <1>3 DEF StaleStaysStale
    <2> QED
      BY <2>1, <2>2
  <1> QED
    BY <1>2, <1>3 DEF StaleStaysStale

-----------------------------------------------------------------------------
\* Every command preserves the invariant.
LEMMA RedisInductive == RedisInv /\ [RedisNext]_redisVars => RedisInv'
  <1> SUFFICES ASSUME RedisInv, [RedisNext]_redisVars PROVE RedisInv'
    OBVIOUS
  <1> USE DEF RedisInv
  <1>a. ASSUME record' = record, divergences' = divergences, cleared' = cleared
        PROVE  WatchHolds'
    BY <1>a DEF WatchHolds
  <1>b. ASSUME list' = list, now' = now
        PROVE  StaleStaysStale'
    BY <1>b DEF StaleStaysStale
  <1>1. ASSUME NEW m \in Mirrors, NEW state \in Reports, NEW at \in 1 .. now, PutField(m, state, at)
        PROVE  RedisInv'
    <2>1. RedisTypeOK'
      BY <1>1 DEF PutField, Put, callVars, RedisTypeOK, WatchedCall, Received
    <2> QED
      BY <1>1, <1>a, <1>b, <2>1 DEF PutField, Put, callVars
  <1>2. ASSUME NEW h \in Handlers, NEW m \in Mirrors, NEW d \in Directions, NEW since \in 1 .. now,
               ReadWatched(h, m, d, since)
        PROVE  RedisInv'
    <2> DEFINE call ==
                  [phase |-> "exec", mirror |-> m, direction |-> d, since |-> since,
                   intact |-> TRUE]
    <2>1. call \in WatchedCall
      BY DEF WatchedCall
    <2>2. \/ record' = [record EXCEPT ![h] = NoRecord]
          \/ record' = [record EXCEPT ![h] = call] /\ ~ignored(divergences[m][d], cleared[m], since)
      BY Zenon, <1>2 DEF ReadWatched
    <2>3. RedisTypeOK'
      BY <1>2, <2>1, <2>2 DEF ReadWatched, storeVars, RedisTypeOK, WatchedCall
    <2>4. WatchHolds'
      <3> SUFFICES ASSUME NEW g \in Handlers, record'[g].phase = "exec", record'[g].intact
                   PROVE  ~ignored(divergences[record'[g].mirror][record'[g].direction],
                                   cleared[record'[g].mirror], record'[g].since)
        BY <1>2 DEF WatchHolds, ReadWatched, storeVars, ignored
      <3>1. CASE g = h
        BY <2>2, <3>1 DEF RedisTypeOK, NoRecord
      <3>2. CASE g # h
        BY <2>2, <3>2 DEF RedisTypeOK, WatchHolds
      <3> QED
        BY <3>1, <3>2
    <2> QED
      BY <1>2, <1>b, <2>3, <2>4 DEF ReadWatched
  <1>3. ASSUME NEW h \in Handlers, Exec(h)
        PROVE  RedisInv'
    <2>1. record[h] \in WatchedCall
      BY <1>3, CallCases DEF Exec
    <2>2. RedisTypeOK'
      BY <1>3, <2>1, TouchedCalls DEF Exec, RedisTypeOK, WatchedCall
    <2>3. WatchHolds'
      BY <1>3, TouchedCalls DEF Exec, WatchHolds, NoRecord
    <2> QED
      BY <1>3, <1>b, <2>2, <2>3 DEF Exec
  <1>4. ASSUME NEW h \in Handlers, RetryRecord(h)
        PROVE  RedisInv'
    <2>1. record[h] \in WatchedCall
      BY <1>4, CallCases DEF RetryRecord
    <2> QED
      BY <1>2, <1>4, <2>1 DEF RetryRecord, WatchedCall
  <1>5. ASSUME NEW h \in Handlers, RecordFails(h)
        PROVE  RedisInv'
    <2>1. RedisTypeOK'
      BY <1>5 DEF RecordFails, storeVars, RedisTypeOK, WatchedCall
    <2>2. WatchHolds'
      BY <1>5 DEF RecordFails, storeVars, RedisTypeOK, WatchHolds, NoRecord
    <2> QED
      BY <1>5, <1>b, <2>1, <2>2 DEF RecordFails
  <1>6. ASSUME NEW m \in Mirrors, NEW at \in 1 .. now, ClearFields(m, at)
        PROVE  RedisInv'
    <2>1. RedisTypeOK'
      BY <1>6, TouchedCalls DEF ClearFields, Clear, RedisTypeOK, WatchedCall
    <2>2. WatchHolds'
      BY <1>6, TouchedCalls DEF ClearFields, WatchHolds
    <2> QED
      BY <1>6, <1>b, <2>1, <2>2 DEF ClearFields, Clear
  <1>7. ASSUME NEW h \in Listers, ReadStates(h)
        PROVE  RedisInv'
    <2> DEFINE stale == {m \in Mirrors : states[m] # Forgotten /\ states[m].received < now - TTL}
               found == [m \in stale |-> states[m]]
    <2>1. list' = [list EXCEPT ![h] = found] /\ now' = now
      BY <1>7 DEF ReadStates
    <2>2. found \in [stale -> Received] /\ \A m \in stale : found[m].received < now - TTL
      BY DEF RedisTypeOK
    <2>3. stale \in SUBSET Mirrors
      OBVIOUS
    <2>4. StaleStaysStale'
      <3> HIDE DEF stale, found
      <3> QED
        BY Zenon, <2>1, <2>2, <2>3, StaleKept
    <2>5. RedisTypeOK'
      BY <1>7 DEF ReadStates, storeVars, RedisTypeOK, WatchedCall
    <2> QED
      BY <1>7, <1>a, <2>4, <2>5 DEF ReadStates, storeVars
  <1>8. ASSUME NEW h \in Listers, StatesFails(h)
        PROVE  RedisInv'
    <2>1. NoList \in [{} -> Received] /\ DOMAIN NoList = {}
      BY DEF NoList
    <2>2. StaleStaysStale'
      BY Zenon, <1>8, <2>1 DEF StatesFails, StaleStaysStale
    <2>3. RedisTypeOK'
      BY <1>8 DEF StatesFails, storeVars, RedisTypeOK, WatchedCall
    <2> QED
      BY <1>8, <1>a, <2>2, <2>3 DEF StatesFails, storeVars
  <1>9. ASSUME NEW h \in Listers, NEW m \in Mirrors, ForgetIfUnchanged(h, m)
        PROVE  RedisInv'
    <2>1. StaleStaysStale'
      <3> DEFINE rest == DOMAIN list[h] \ {m}
                 left == [x \in rest |-> list[h][x]]
      <3>1. list' = [list EXCEPT ![h] = left] /\ now' = now
        BY <1>9 DEF ForgetIfUnchanged, Restrict
      <3>2. rest \in SUBSET Mirrors /\ left \in [rest -> Received]
        BY DEF StaleStaysStale
      <3>3. \A x \in rest : left[x].received < now - TTL
        BY DEF StaleStaysStale
      <3> HIDE DEF rest, left
      <3> QED
        BY Zenon, <3>1, <3>2, <3>3, StaleKept
    <2>2. RedisTypeOK'
      BY <1>9 DEF ForgetIfUnchanged, RedisTypeOK, WatchedCall
    <2> QED
      BY <1>9, <1>a, <2>1, <2>2 DEF ForgetIfUnchanged
  <1>10. ASSUME Tick, UNCHANGED callVars
         PROVE  RedisInv'
    <2>1. StaleStaysStale'
      BY <1>10, StoreAssumption DEF Tick, callVars, StaleStaysStale, RedisTypeOK, Received
    <2>2. RedisTypeOK'
      BY <1>10 DEF Tick, storeVars, callVars, RedisTypeOK, WatchedCall
    <2> QED
      BY <1>10, <1>a, <2>1, <2>2 DEF Tick, storeVars, callVars
  <1>11. ASSUME UNCHANGED redisVars
         PROVE  RedisInv'
    BY <1>11, <1>a, <1>b DEF redisVars, storeVars, callVars, RedisTypeOK, WatchedCall
  <1> QED
    BY <1>1, <1>2, <1>3, <1>4, <1>5, <1>6, <1>7, <1>8, <1>9, <1>10, <1>11 DEF RedisNext

-----------------------------------------------------------------------------
\* Every command is a step of the in-memory store, or none: an EXEC that succeeds is
\* Record, and a script that deletes is Forget.
LEMMA RedisSteps == RedisInv /\ [RedisNext]_redisVars => [StoreNext]_<<now, storeVars>>
  <1> SUFFICES ASSUME RedisInv, RedisNext PROVE StoreNext \/ UNCHANGED <<now, storeVars>>
    BY DEF redisVars, storeVars
  <1> USE DEF RedisInv
  <1>1. ASSUME NEW h \in Handlers, Exec(h)
        PROVE  StoreNext
    <2>1. record[h] \in WatchedCall
      BY <1>1, CallCases DEF Exec
    <2> DEFINE m == record[h].mirror
               d == record[h].direction
               since == record[h].since
    <2>2. m \in Mirrors /\ d \in Directions /\ since \in 1 .. now
      BY <2>1 DEF WatchedCall
    <2>3. Record(m, d, since)
      BY <1>1, <2>2 DEF Exec, WatchHolds, Record
    <2> QED
      BY <2>2, <2>3 DEF StoreNext
  <1>2. ASSUME NEW h \in Listers, NEW m \in Mirrors, ForgetIfUnchanged(h, m)
        PROVE  StoreNext \/ UNCHANGED <<now, storeVars>>
    <2>1. CASE states[m] = list[h][m]
      <3>1. m \in DOMAIN list[h] /\ list[h][m] \in Received
        BY <1>2 DEF ForgetIfUnchanged, StaleStaysStale
      <3>2. states[m] # Forgotten /\ states[m].received < now - TTL
        BY <2>1, <3>1, StoreAssumption DEF StaleStaysStale, Received
      <3>3. Forget(m, now - TTL)
        BY <1>2, <2>1, <3>2 DEF ForgetIfUnchanged, Forget
      <3> QED
        BY <3>3 DEF StoreNext
    <2>2. CASE states[m] # list[h][m]
      BY <1>2, <2>2 DEF ForgetIfUnchanged, storeVars
    <2> QED
      BY <2>1, <2>2
  <1>3. ASSUME NEW m \in Mirrors, NEW state \in Reports, NEW at \in 1 .. now, PutField(m, state, at)
        PROVE  StoreNext
    BY <1>3 DEF PutField, StoreNext
  <1>4. ASSUME NEW m \in Mirrors, NEW at \in 1 .. now, ClearFields(m, at)
        PROVE  StoreNext
    BY <1>4 DEF ClearFields, StoreNext
  <1>5. ASSUME NEW h \in Handlers, RetryRecord(h) \/ RecordFails(h)
        PROVE  UNCHANGED <<now, storeVars>>
    BY <1>5 DEF RetryRecord, ReadWatched, RecordFails
  <1>6. ASSUME NEW h \in Listers, ReadStates(h) \/ StatesFails(h)
        PROVE  UNCHANGED <<now, storeVars>>
    BY <1>6 DEF ReadStates, StatesFails
  <1>7. ASSUME NEW h \in Handlers, NEW m \in Mirrors, NEW d \in Directions, NEW since \in 1 .. now,
               ReadWatched(h, m, d, since)
        PROVE  UNCHANGED <<now, storeVars>>
    BY <1>7 DEF ReadWatched
  <1> QED
    BY <1>1, <1>2, <1>3, <1>4, <1>5, <1>6, <1>7 DEF RedisNext, StoreNext

\* Between the read and the EXEC of Record, what decided it is unchanged unless the
\* watch is broken, whatever the other servers do.
THEOREM WatchesHold == RedisSpec => []WatchHolds
  <1>1. RedisInit => RedisInv
    BY RedisInitial
  <1>2. RedisInv /\ [RedisNext]_redisVars => RedisInv'
    BY RedisInductive
  <1>3. RedisInv => WatchHolds
    BY DEF RedisInv
  <1> QED
    BY <1>1, <1>2, <1>3, PTL DEF RedisSpec, redisVars

\* The commands of concurrent calls on any number of servers act on the hashes as the
\* critical sections of the in-memory store do.
THEOREM RedisIsAtomic == RedisSpec => AtomicStore
  <1>1. RedisInit => RedisInv /\ StoreInit
    BY RedisInitial DEF RedisInit
  <1>2. RedisInv /\ [RedisNext]_redisVars => RedisInv'
    BY RedisInductive
  <1>3. RedisInv /\ [RedisNext]_redisVars => [StoreNext]_<<now, storeVars>>
    BY RedisSteps
  <1> QED
    BY <1>1, <1>2, <1>3, PTL DEF RedisSpec, redisVars, AtomicStore, StoreSpec

-----------------------------------------------------------------------------
(* Reporting.                                                              *)

\* The states of quarantines that did begin, and by now.
PastStates == {state \in [Directions -> 0 .. now] : Genuine(state)}

PastQuarantines ==
    {message \in [kind : {"quarantine"}, direction : Directions, since : 1 .. now] :
        message.since \in history[message.direction]}

PastMessages ==
    [kind : {"state"}, state : PastStates]
        \cup PastQuarantines
        \cup {Keepalive}

PastHandlers ==
    [phase : {"none", "receive", "put", "record", "ended", "failed"},
     state : PastStates \cup {Forgotten}, todo : SUBSET Directions, received : 0 .. now]

\* The mirror's quarantines began by now, and forward passed on those that did.
MirrorTimely ==
    /\ now \in 1 .. MaxTime
    /\ history \in [Directions -> SUBSET (0 .. now)]
    /\ \A d \in Directions : 0 \in history[d]
    /\ began \in PastStates
    /\ reported \in PastStates
    /\ channel \subseteq {d \in Directions : began[d] # 0}
    /\ reporter \in {"opening", "streaming", "closing", "retrying"}
    /\ current \in Handlers

\* So did those in flight.
PastConns == [client : {"none", "open", "closed", "lost"}, messages : Seq(PastMessages)]

StreamsTimely == conn \in [Handlers -> PastConns]

\* A handler that is to store a state has one, received by now, and records quarantines
\* that it holds.
HandlersTimely ==
    /\ handler \in [Handlers -> PastHandlers]
    /\ \A s \in Handlers :
          /\ handler[s].phase \in {"put", "record"} =>
                /\ handler[s].state \in PastStates
                /\ \A d \in handler[s].todo : handler[s].state[d] # 0
          /\ handler[s].phase = "put" => handler[s].received # 0

ClearsTimely ==
    /\ clear \in [Clears -> [phase : {"none", "clearing", "done"}, at : 0 .. now]]
    /\ \A c \in Clears : clear[c].phase = "clearing" => clear[c].at # 0

Timely == MirrorTimely /\ StreamsTimely /\ HandlersTimely /\ ClearsTimely

USE ReportingAssumption

\* While the clock stands and no quarantine begins, what was timely still is.
LEMMA SameTime ==
    ASSUME now' = now, history' = history
    PROVE  /\ PastStates' = PastStates
           /\ PastMessages' = PastMessages
           /\ PastConns' = PastConns
           /\ PastHandlers' = PastHandlers
<1>1. PastStates' = PastStates /\ PastQuarantines' = PastQuarantines
  BY DEF PastStates, PastQuarantines, Genuine
<1> QED BY <1>1 DEF PastMessages, PastConns, PastHandlers, Keepalive

\* What has begun by now has begun by any later time.
LEMMA LaterTime ==
    ASSUME now \in Nat, now' \in Nat, now <= now',
           \A d \in Directions : history[d] \subseteq history'[d]
    PROVE  /\ PastStates \subseteq PastStates'
           /\ PastConns \subseteq PastConns'
           /\ PastHandlers \subseteq PastHandlers'
<1>1. PastStates \subseteq PastStates'
  BY DEF PastStates, Genuine
<1>2. PastQuarantines \subseteq PastQuarantines'
  <2> SUFFICES ASSUME NEW m \in PastQuarantines PROVE m \in PastQuarantines'
    OBVIOUS
  <2>1. /\ m \in [kind : {"quarantine"}, direction : Directions, since : 1 .. now]
        /\ m.since \in history[m.direction]
    BY DEF PastQuarantines
  <2>2. m \in [kind : {"quarantine"}, direction : Directions, since : 1 .. now']
    BY <2>1
  <2>3. m.since \in history'[m.direction]
    BY <2>1
  <2> QED BY <2>2, <2>3 DEF PastQuarantines
<1>3. PastMessages \subseteq PastMessages'
  BY <1>1, <1>2 DEF PastMessages, Keepalive
<1>4. PastConns \subseteq PastConns'
  <2>1. \A q \in Seq(PastMessages) : q \in Seq(PastMessages')
    BY <1>3
  <2> QED BY <2>1 DEF PastConns
<1>5. PastHandlers \subseteq PastHandlers'
  BY <1>1 DEF PastHandlers
<1> QED BY <1>1, <1>4, <1>5

\* A step keeps timely what it leaves alone.
LEMMA UnchangedTimely ==
    ASSUME Timely, now' = now, history' = history
    PROVE  /\ UNCHANGED mirrorVars => MirrorTimely'
           /\ UNCHANGED conn => StreamsTimely'
           /\ UNCHANGED handler => HandlersTimely'
           /\ UNCHANGED clear => ClearsTimely'
BY SameTime DEF Timely, MirrorTimely, StreamsTimely, HandlersTimely, ClearsTimely, mirrorVars

\* The client's end of a stream may close or break at any time.
LEMMA ClientTimely ==
    ASSUME Timely, now' = now, history' = history, NEW s \in Handlers,
           NEW end \in {"none", "open", "closed", "lost"},
           conn' = [conn EXCEPT ![s].client = end]
    PROVE  StreamsTimely'
<1>1. conn \in [Handlers -> PastConns]
  BY DEF Timely, StreamsTimely
<1>2. [conn[s] EXCEPT !.client = end] \in PastConns
  BY <1>1 DEF PastConns
<1> QED BY <1>1, <1>2, SameTime DEF StreamsTimely

\* A message is sent with the times that the mirror has.
LEMMA SendTimely ==
    ASSUME Timely, now' = now, history' = history, NEW message \in PastMessages, Send(message)
    PROVE  StreamsTimely'
<1>1. conn \in [Handlers -> PastConns] /\ current \in Handlers
  BY DEF Timely, StreamsTimely, MirrorTimely
<1>2. [conn[current] EXCEPT !.messages = Append(@, message)] \in PastConns
  <2>1. conn[current] \in PastConns /\ conn[current].messages \in Seq(PastMessages)
    BY <1>1 DEF PastConns
  <2>2. Append(conn[current].messages, message) \in Seq(PastMessages)
    BY <2>1
  <2> QED BY Zenon, <2>1, <2>2 DEF PastConns
<1> QED BY <1>1, <1>2, SameTime DEF StreamsTimely, Send

\* Every step of the mirror.
LEMMA MirrorStepTimely ==
    ASSUME Timely,
           \/ \E d \in Directions : Quarantine(d) \/ SendQuarantine(d)
           \/ ReporterStep \/ OpenFails \/ SendKeepalive \/ CloseAged \/ Restart
    PROVE  Timely' /\ UNCHANGED redisVars
<1> USE DEF redisVars, mirrorVars, streamVars, envVars
<1>1. ASSUME NEW d \in Directions, Quarantine(d) PROVE Timely' /\ UNCHANGED redisVars
  <2>1. /\ now' = now /\ now \in 1 .. MaxTime
        /\ history' = [history EXCEPT ![d] = @ \cup {now}]
        /\ history \in [Directions -> SUBSET (0 .. now)]
    BY <1>1 DEF Timely, MirrorTimely, Quarantine
  <2>2. \A e \in Directions : history[e] \subseteq history'[e]
    BY <2>1
  <2>3. /\ PastStates \subseteq PastStates'
        /\ PastConns \subseteq PastConns'
        /\ PastHandlers \subseteq PastHandlers'
    BY <2>1, <2>2, LaterTime
  <2>4. history' \in [Directions -> SUBSET (0 .. now')] /\ \A e \in Directions : 0 \in history'[e]
    BY <2>1 DEF Timely, MirrorTimely
  <2>5. began' \in PastStates'
    BY <1>1, <2>1, <2>2 DEF Timely, MirrorTimely, PastStates, Genuine, Quarantine
  <2>6. channel' \subseteq {e \in Directions : began'[e] # 0}
    BY <1>1, <2>1 DEF Timely, MirrorTimely, PastStates, Quarantine
  <2>7. MirrorTimely'
    BY <1>1, <2>1, <2>3, <2>4, <2>5, <2>6 DEF Timely, MirrorTimely, Quarantine
  <2>8. StreamsTimely'
    BY <1>1, <2>3 DEF Timely, StreamsTimely, Quarantine
  <2>9. HandlersTimely'
    BY <1>1, <2>3 DEF Timely, HandlersTimely, Quarantine
  <2>10. ClearsTimely'
    BY <1>1, <2>1 DEF Timely, ClearsTimely, Quarantine
  <2> QED BY <1>1, <2>7, <2>8, <2>9, <2>10 DEF Timely, Quarantine
<1>2. ASSUME NEW d \in Directions, SendQuarantine(d) PROVE Timely' /\ UNCHANGED redisVars
  <2>1. MirrorTimely'
    <3>1. now' = now /\ history' = history /\ PastStates' = PastStates
      BY <1>2, SameTime DEF SendQuarantine
    <3>2. began \in PastStates /\ reported \in PastStates
      BY DEF Timely, MirrorTimely
    <3>3. [reported EXCEPT ![d] = began[d]] \in PastStates
      BY <3>2 DEF PastStates, Genuine
    <3>4. reported' \in PastStates' /\ began' \in PastStates'
      BY <1>2, <3>1, <3>2, <3>3 DEF SendQuarantine
    <3>5. channel' \subseteq {e \in Directions : began'[e] # 0}
      BY <1>2 DEF Timely, MirrorTimely, SendQuarantine
    <3> QED BY <1>2, <3>1, <3>4, <3>5 DEF Timely, MirrorTimely, SendQuarantine
  <2>2. QuarantineMessage(d) \in PastMessages
    <3>1. began[d] \in 1 .. now /\ began[d] \in history[d]
      BY <1>2 DEF Timely, MirrorTimely, PastStates, Genuine, SendQuarantine
    <3>2. QuarantineMessage(d) \in PastQuarantines
      BY <3>1 DEF PastQuarantines, QuarantineMessage
    <3> QED BY <3>2 DEF PastMessages
  <2>3. StreamsTimely'
    BY <1>2, <2>2, SendTimely DEF SendQuarantine
  <2> QED BY <1>2, <2>1, <2>3, UnchangedTimely DEF Timely, SendQuarantine
<1>3. ASSUME NEW s \in Handlers, OpenStream(s) PROVE Timely' /\ UNCHANGED redisVars
  <2>1. MirrorTimely'
    BY <1>3, SameTime DEF Timely, MirrorTimely, OpenStream
  <2>2. StateMessage \in PastMessages
    BY DEF Timely, MirrorTimely, PastMessages, StateMessage
  <2>3. [client |-> "open", messages |-> <<StateMessage>>] \in PastConns
    BY <2>2 DEF PastConns
  <2>4. StreamsTimely'
    BY <1>3, <2>3, SameTime DEF Timely, StreamsTimely, OpenStream
  <2>5. [NoHandler EXCEPT !.phase = "receive"] \in PastHandlers
    BY DEF Timely, MirrorTimely, PastHandlers, NoHandler
  <2>6. HandlersTimely'
    BY <1>3, <2>5, SameTime DEF Timely, HandlersTimely, OpenStream, NoHandler
  <2> QED BY <1>3, <2>1, <2>4, <2>6, UnchangedTimely DEF Timely, OpenStream
<1>4. ASSUME SendFails \/ Closed PROVE Timely' /\ UNCHANGED redisVars
  <2>1. MirrorTimely' /\ current \in Handlers
    BY <1>4, SameTime DEF Timely, MirrorTimely, SendFails, Closed
  <2>2. StreamsTimely'
    BY <1>4, <2>1, ClientTimely DEF SendFails, Closed
  <2> QED BY <1>4, <2>1, <2>2, UnchangedTimely DEF Timely, SendFails, Closed
<1>5. ASSUME Retry \/ OpenFails PROVE Timely' /\ UNCHANGED redisVars
  <2>1. MirrorTimely'
    BY <1>5, SameTime DEF Timely, MirrorTimely, Retry, OpenFails
  <2> QED BY <1>5, <2>1, UnchangedTimely DEF Timely, Retry, OpenFails
<1>6. ASSUME SendKeepalive PROVE Timely' /\ UNCHANGED redisVars
  <2>1. StreamsTimely'
    BY <1>6, SendTimely DEF SendKeepalive, PastMessages
  <2> QED BY <1>6, <2>1, UnchangedTimely DEF Timely, SendKeepalive
<1>7. ASSUME CloseAged PROVE Timely' /\ UNCHANGED redisVars
  <2>1. MirrorTimely' /\ current \in Handlers
    BY <1>7, SameTime DEF Timely, MirrorTimely, CloseAged
  <2>2. conn[current].client \in {"none", "open", "closed", "lost"}
    BY <2>1 DEF Timely, StreamsTimely, PastConns
  <2>3. StreamsTimely'
    BY Zenon, <1>7, <2>1, <2>2, ClientTimely DEF CloseAged
  <2> QED BY <1>7, <2>1, <2>3, UnchangedTimely DEF Timely, CloseAged
<1>8. ASSUME Restart PROVE Timely' /\ UNCHANGED redisVars
  <2>1. MirrorTimely' /\ current \in Handlers
    BY <1>8 DEF Timely, MirrorTimely, PastStates, Genuine, Restart, NoQuarantines
  <2>2. conn[current].client \in {"none", "open", "closed", "lost"}
    BY <2>1 DEF Timely, StreamsTimely, PastConns
  <2>3. StreamsTimely'
    BY Zenon, <1>8, <2>1, <2>2, ClientTimely DEF Restart
  <2> QED BY <1>8, <2>1, <2>3, UnchangedTimely DEF Timely, Restart
<1> QED BY <1>1, <1>2, <1>3, <1>4, <1>5, <1>6, <1>7, <1>8 DEF ReporterStep

\* nextState builds a state from times that the messages carry.
LEMMA NextStatePast ==
    ASSUME NEW message \in PastMessages, NEW state \in PastStates \cup {Forgotten}
    PROVE  nextState(state, message) \in PastStates \cup {Forgotten}
<1>1. CASE message.kind = "state"
  BY <1>1 DEF PastMessages, PastQuarantines, nextState, Keepalive
<1>2. CASE message.kind # "state" /\ state = Forgotten
  BY <1>2 DEF nextState
<1>3. CASE message.kind = "quarantine" /\ state # Forgotten
  <2>1. /\ message.direction \in Directions /\ message.since \in 0 .. now
        /\ message.since \in history[message.direction]
    BY <1>3 DEF PastMessages, PastQuarantines, Keepalive
  <2>2. nextState(state, message) = [state EXCEPT ![message.direction] = message.since]
    BY <1>3 DEF nextState
  <2> QED BY <1>3, <2>1, <2>2 DEF PastStates, Genuine
<1>4. CASE message.kind \notin {"state", "quarantine"} /\ state # Forgotten
  BY <1>4 DEF nextState
<1> QED BY <1>1, <1>2, <1>3, <1>4

\* A handler that ends holds no state.
LEMMA EndedTimely ==
    ASSUME Timely, now' = now, history' = history, NEW s \in Handlers, NEW end \in {"ended", "failed"},
           handler' = [handler EXCEPT ![s] = [NoHandler EXCEPT !.phase = end]]
    PROVE  HandlersTimely'
<1>1. [NoHandler EXCEPT !.phase = end] \in PastHandlers
  BY DEF Timely, MirrorTimely, PastHandlers, NoHandler
<1>2. [NoHandler EXCEPT !.phase = end].phase = end
  BY DEF NoHandler
<1> QED BY <1>1, <1>2, SameTime DEF Timely, HandlersTimely

\* What a handler receives, it received by now.
LEMMA ReceiveTimely ==
    ASSUME Timely, NEW s \in Handlers, Receive(s)
    PROVE  Timely'
<1> USE DEF redisVars, streamVars, envVars
<1> DEFINE message == Head(conn[s].messages)
           state == nextState(handler[s].state, message)
           put == [phase |-> "put", state |-> state, todo |-> ToRecord(state, message),
                   received |-> now]
<1>1. now' = now /\ history' = history /\ UNCHANGED mirrorVars /\ UNCHANGED clear /\ now \in 1 .. MaxTime
  BY DEF mirrorVars, Receive, Timely, MirrorTimely
<1>2. conn[s] \in PastConns /\ conn[s].messages \in Seq(PastMessages) /\ conn[s].messages # <<>>
  BY DEF Receive, Timely, StreamsTimely, PastConns
<1>3. message \in PastMessages /\ Tail(conn[s].messages) \in Seq(PastMessages)
  BY <1>2
<1>4. StreamsTimely'
  <2>1. [conn[s] EXCEPT !.messages = Tail(@)] \in PastConns
    BY Zenon, <1>2, <1>3 DEF PastConns
  <2> QED BY <1>1, <2>1, SameTime DEF Timely, StreamsTimely, Receive
<1>5. handler[s].state \in PastStates \cup {Forgotten}
  BY DEF Timely, HandlersTimely, PastHandlers
<1>6. state \in PastStates \cup {Forgotten}
  BY <1>3, <1>5, NextStatePast
<1>7. \/ /\ state = Forgotten
         /\ handler' = [handler EXCEPT ![s] = [NoHandler EXCEPT !.phase = "failed"]]
      \/ state # Forgotten /\ handler' = [handler EXCEPT ![s] = put]
  BY Zenon DEF Receive
<1>8. HandlersTimely'
  <2>1. CASE state = Forgotten
    BY <1>1, <1>7, <2>1, EndedTimely
  <2>2. CASE state # Forgotten
    <3>1. /\ ToRecord(state, message) \subseteq Directions
          /\ \A d \in ToRecord(state, message) : state[d] # 0
      BY DEF ToRecord
    <3> HIDE DEF message, state
    <3>2. put \in PastHandlers
      BY <1>1, <1>6, <3>1 DEF PastHandlers
    <3>3. put.phase = "put" /\ put.state = state /\ put.received = now
          /\ put.todo = ToRecord(state, message)
      OBVIOUS
    <3> HIDE DEF put
    <3> QED BY <1>1, <1>6, <1>7, <2>2, <3>1, <3>2, <3>3, SameTime DEF Timely, HandlersTimely
  <2> QED BY <2>1, <2>2
<1> QED BY <1>1, <1>4, <1>8, UnchangedTimely DEF Timely

\* Every step of a handler, and the store's failures and those of the stream.
LEMMA HandlerStepTimely ==
    ASSUME Timely, NEW s \in Handlers, HandlerStep(s) \/ Break(s) \/ StoreFails(s)
    PROVE  Timely'
<1> USE DEF redisVars, mirrorVars, streamVars, envVars, callVars, storeVars
<1>1. CASE Receive(s)
  BY <1>1, ReceiveTimely
<1>2. CASE ReceiveEnds(s)
  <2>1. [conn[s] EXCEPT !.messages = <<>>] \in PastConns
    <3>1. conn[s] \in PastConns /\ <<>> \in Seq(PastMessages)
      BY DEF Timely, StreamsTimely
    <3> QED BY Zenon, <3>1 DEF PastConns
  <2>2. StreamsTimely'
    BY <1>2, <2>1, SameTime DEF Timely, StreamsTimely, ReceiveEnds
  <2>3. HandlersTimely'
    BY Zenon, <1>2, EndedTimely DEF ReceiveEnds
  <2> QED BY <1>2, <2>2, <2>3, UnchangedTimely DEF Timely, ReceiveEnds
<1>3. CASE PutState(s)
  <2>1. now' = now /\ history' = history /\ handler' = [handler EXCEPT ![s].phase = "record", ![s].received = 0]
    BY <1>3 DEF PutState, PutField, Put
  <2>2. handler[s] \in PastHandlers /\ now \in Nat /\ handler[s].phase = "put"
    BY <1>3 DEF Timely, MirrorTimely, HandlersTimely, PutState
  <2>3. [handler[s] EXCEPT !.phase = "record", !.received = 0] \in PastHandlers
    <3>1. 0 \in 0 .. now
      BY <2>2
    <3>2. [handler[s] EXCEPT !.phase = "record"] \in PastHandlers
      BY <2>2 DEF PastHandlers
    <3> QED BY Zenon, <2>2, <3>1, <3>2 DEF PastHandlers
  <2>4. /\ handler'[s].phase = "record" /\ handler'[s].state = handler[s].state
        /\ handler'[s].todo = handler[s].todo
        /\ \A t \in Handlers \ {s} : handler'[t] = handler[t]
    BY <2>1, <2>2 DEF Timely, HandlersTimely, PastHandlers
  <2>5. handler' \in [Handlers -> PastHandlers]
    BY <2>1, <2>3 DEF Timely, HandlersTimely
  <2>6. HandlersTimely'
    BY <2>1, <2>2, <2>4, <2>5, SameTime DEF Timely, HandlersTimely
  <2> QED BY <1>3, <2>1, <2>6, UnchangedTimely DEF Timely, PutState
<1>4. CASE RecordNext(s)
  <2>1. /\ now' = now /\ history' = history
        /\ \/ handler' = [handler EXCEPT ![s].phase = "receive"]
           \/ \E d \in handler[s].todo : handler' = [handler EXCEPT ![s].todo = @ \ {d}]
    BY <1>4 DEF RecordNext, ReadWatched
  <2>2. handler[s] \in PastHandlers
    BY DEF Timely, HandlersTimely
  <2>3. HandlersTimely'
    <3>1. CASE handler' = [handler EXCEPT ![s].phase = "receive"]
      <4>1. [handler[s] EXCEPT !.phase = "receive"] \in PastHandlers
        BY <2>2 DEF PastHandlers
      <4> QED BY <2>1, <2>2, <3>1, <4>1, SameTime DEF Timely, HandlersTimely, PastHandlers
    <3>2. ASSUME NEW d \in handler[s].todo, handler' = [handler EXCEPT ![s].todo = @ \ {d}]
          PROVE  HandlersTimely'
      <4>1. [handler[s] EXCEPT !.todo = @ \ {d}] \in PastHandlers
        BY <2>2 DEF PastHandlers
      <4> QED BY <2>1, <2>2, <3>2, <4>1, SameTime DEF Timely, HandlersTimely, PastHandlers
    <3> QED BY <2>1, <3>1, <3>2
  <2> QED BY <1>4, <2>1, <2>3, UnchangedTimely DEF Timely, RecordNext
<1>5. CASE RecordEnds(s)
  BY <1>5, UnchangedTimely DEF Timely, RecordEnds, Exec, RetryRecord, ReadWatched
<1>6. CASE Break(s)
  <2>1. StreamsTimely'
    BY Zenon, <1>6, ClientTimely DEF Break
  <2> QED BY <1>6, <2>1, UnchangedTimely DEF Timely, Break
<1>7. CASE StoreFails(s)
  <2>1. HandlersTimely'
    BY Zenon, <1>7, EndedTimely DEF StoreFails, RecordFails
  <2> QED BY <1>7, <2>1, UnchangedTimely DEF Timely, StoreFails, RecordFails
<1> QED BY <1>1, <1>2, <1>3, <1>4, <1>5, <1>6, <1>7 DEF HandlerStep

\* A clear takes its time from the clock.
LEMMA ClearStepTimely ==
    ASSUME Timely, NEW c \in Clears, ReadClock(c) \/ ClearDivergences(c)
    PROVE  Timely'
<1> USE DEF redisVars, mirrorVars, streamVars, callVars, storeVars
<1>1. ClearsTimely'
  <2>1. CASE ReadClock(c)
    BY <2>1 DEF Timely, MirrorTimely, ClearsTimely, ReadClock
  <2>2. CASE ClearDivergences(c)
    BY <2>2 DEF Timely, MirrorTimely, ClearsTimely, ClearDivergences, ClearFields, Clear
  <2> QED BY <2>1, <2>2
<1> QED BY <1>1, UnchangedTimely DEF Timely, ReadClock, ClearDivergences, ClearFields, Clear

\* What has come by now has come by any later time.
LEMMA TimeTimely == Timely /\ Time => Timely'
<1> SUFFICES ASSUME Timely, Time PROVE Timely'
  OBVIOUS
<1> USE DEF mirrorVars, streamVars, envVars
<1>1. now' = now + 1 /\ now \in 1 .. MaxTime /\ now' \in 1 .. MaxTime
  BY DEF Time, Tick, Timely, MirrorTimely
<1>2. /\ PastStates \subseteq PastStates'
      /\ PastConns \subseteq PastConns'
      /\ PastHandlers \subseteq PastHandlers'
  BY <1>1, LaterTime DEF Time
<1>6. MirrorTimely'
  BY <1>1, <1>2 DEF Time, Timely, MirrorTimely
<1>7. StreamsTimely'
  BY <1>2 DEF Time, Timely, StreamsTimely
<1>8. HandlersTimely'
  BY <1>2 DEF Time, Timely, HandlersTimely
<1>9. ClearsTimely'
  BY <1>1 DEF Time, Timely, ClearsTimely
<1> QED BY <1>6, <1>7, <1>8, <1>9 DEF Timely

\* Nothing has been reported at first.
LEMMA InitTimely == Init => Timely
<1> SUFFICES ASSUME Init PROVE Timely
  OBVIOUS
<1>1. now = 1
  BY DEF Init, RedisInit, StoreInit
<1>2. MirrorTimely
  BY <1>1 DEF Init, MirrorTimely, PastStates, Genuine, NoQuarantines
<1>3. StreamsTimely
  <2>1. <<>> \in Seq(PastMessages)
    OBVIOUS
  <2> QED BY <2>1 DEF Init, StreamsTimely, PastConns, NoConn
<1>4. HandlersTimely
  BY <1>1 DEF Init, HandlersTimely, PastHandlers, NoHandler
<1>5. ClearsTimely
  BY <1>1 DEF Init, ClearsTimely
<1> QED BY <1>2, <1>3, <1>4, <1>5 DEF Timely

\* No step brings in a time that has not come.
LEMMA NextTimely == Timely /\ [Next]_vars => Timely'
<1> SUFFICES ASSUME Timely, [Next]_vars PROVE Timely'
  OBVIOUS
<1>1. ASSUME NEW h \in Listers, ListStates(h) PROVE Timely'
  BY Zenon, <1>1, UnchangedTimely DEF Timely, ListStates, ReadStates, ForgetIfUnchanged,
     StatesFails, mirrorVars, streamVars, envVars
<1>2. CASE UNCHANGED vars
  BY <1>2, UnchangedTimely DEF Timely, vars, redisVars, mirrorVars, streamVars, envVars
<1> QED BY <1>1, <1>2, MirrorStepTimely, HandlerStepTimely, ClearStepTimely, TimeTimely DEF Next

\* Every step of the mirror and the servers is a command of the Redis store, or none:
\* the handlers call it with times that have come.
LEMMA NextCommands == Timely /\ [Next]_vars => [RedisNext]_redisVars
<1> SUFFICES ASSUME Timely, Next PROVE RedisNext \/ UNCHANGED redisVars
  BY DEF vars
<1> USE DEF redisVars
<1>1. ASSUME NEW s \in Handlers, PutState(s) PROVE RedisNext
  <2>1. handler[s].state \in PastStates /\ handler[s].received \in 1 .. now
    BY <1>1 DEF PutState, Timely, MirrorTimely, HandlersTimely, PastHandlers
  <2>2. handler[s].state \in Reports
    <3>1. PastStates \subseteq [Directions -> 0 .. MaxTime]
      BY DEF Timely, MirrorTimely, PastStates
    <3> QED BY <2>1, <3>1
  <2>3. PutField(Mirror, handler[s].state, handler[s].received)
    BY <1>1 DEF PutState
  <2> QED BY <2>1, <2>2, <2>3 DEF RedisNext
<1>2. ASSUME NEW s \in Handlers, RecordNext(s) PROVE RedisNext \/ UNCHANGED redisVars
  <2>1. ASSUME NEW d \in handler[s].todo, ReadWatched(s, Mirror, d, handler[s].state[d])
        PROVE  RedisNext
    <3>1. d \in Directions /\ handler[s].state[d] \in 1 .. now
      BY <1>2 DEF RecordNext, Timely, MirrorTimely, HandlersTimely, PastHandlers, PastStates
    <3>2. record[s] = NoRecord
      BY <1>2 DEF RecordNext
    <3> QED BY <2>1, <3>1, <3>2 DEF RedisNext
  <2> QED BY <1>2, <2>1 DEF RecordNext
<1>3. ASSUME NEW s \in Handlers, RecordEnds(s) \/ StoreFails(s) PROVE RedisNext
  BY <1>3 DEF RecordEnds, StoreFails, RedisNext
<1>4. ASSUME NEW c \in Clears, ClearDivergences(c) PROVE RedisNext
  <2>1. clear[c].at \in 1 .. now
    BY <1>4 DEF ClearDivergences, Timely, MirrorTimely, ClearsTimely
  <2> QED BY <1>4, <2>1 DEF ClearDivergences, RedisNext
<1>5. ASSUME NEW h \in Listers, ListStates(h) PROVE RedisNext
  BY <1>5 DEF ListStates, RedisNext
<1>6. ASSUME Time PROVE RedisNext
  BY <1>6 DEF Time, RedisNext
<1>7. ASSUME NEW s \in Handlers, Receive(s) \/ ReceiveEnds(s) \/ Break(s)
      PROVE  UNCHANGED redisVars
  BY <1>7 DEF Receive, ReceiveEnds, Break
<1>8. ASSUME NEW c \in Clears, ReadClock(c) PROVE UNCHANGED redisVars
  BY <1>8 DEF ReadClock
<1> QED BY <1>1, <1>2, <1>3, <1>4, <1>5, <1>6, <1>7, <1>8, MirrorStepTimely DEF Next, HandlerStep

\* What the store holds of the mirror, and what a Record call is to store, did begin.
StoreGenuine ==
    /\ states[Mirror] # Forgotten => states[Mirror].state \in PastStates
    /\ Genuine(divergences[Mirror])
    /\ \A s \in Handlers : record[s].phase = "exec" =>
          record[s].mirror = Mirror /\ record[s].since \in history[record[s].direction]

\* No step takes a quarantine out of the history, and the clock never goes back.
LEMMA HistoryGrows ==
    ASSUME Timely, [Next]_vars
    PROVE  /\ PastStates \subseteq PastStates'
           /\ \A d \in Directions : history[d] \subseteq history'[d]
<1> USE DEF redisVars, mirrorVars, streamVars, envVars, callVars, storeVars
<1>1. CASE now' = now /\ history' = history
  BY <1>1, SameTime
<1>2. CASE Time
  <2>1. now \in Nat /\ now' = now + 1 /\ history' = history
    BY <1>2 DEF Time, Tick, Timely, MirrorTimely
  <2> QED BY <2>1, LaterTime
<1>3. ASSUME NEW d \in Directions, Quarantine(d)
      PROVE  /\ PastStates \subseteq PastStates'
             /\ \A e \in Directions : history[e] \subseteq history'[e]
  <2>1. /\ now \in Nat /\ now' = now /\ history' = [history EXCEPT ![d] = @ \cup {now}]
        /\ history \in [Directions -> SUBSET (0 .. now)]
    BY <1>3 DEF Quarantine, Timely, MirrorTimely
  <2>2. \A e \in Directions : history[e] \subseteq history'[e]
    BY <2>1
  <2> QED BY <2>1, <2>2, LaterTime
<1>4. ASSUME ReporterStep \/ OpenFails \/ SendKeepalive \/ CloseAged \/ Restart
             \/ \E d \in Directions : SendQuarantine(d)
      PROVE  now' = now /\ history' = history
  BY <1>4 DEF ReporterStep, OpenStream, SendFails, Closed, Retry, OpenFails, SendKeepalive,
     CloseAged, Restart, SendQuarantine
<1>5. ASSUME NEW s \in Handlers, Break(s) \/ HandlerStep(s) \/ StoreFails(s)
      PROVE  now' = now /\ history' = history
  BY <1>5 DEF Break, HandlerStep, StoreFails, Receive, ReceiveEnds, PutState, PutField, Put,
     RecordNext, ReadWatched, RecordEnds, Exec, RetryRecord, RecordFails
<1>6. ASSUME \/ \E h \in Listers : ListStates(h)
             \/ \E c \in Clears : ReadClock(c) \/ ClearDivergences(c)
      PROVE  now' = now /\ history' = history
  <2>1. ASSUME NEW h \in Listers, ListStates(h) PROVE now' = now /\ history' = history
    BY Zenon, <2>1 DEF ListStates, ReadStates, ForgetIfUnchanged, StatesFails
  <2>2. ASSUME NEW c \in Clears, ReadClock(c) \/ ClearDivergences(c)
        PROVE  now' = now /\ history' = history
    BY <2>2 DEF ReadClock, ClearDivergences, ClearFields, Clear
  <2> QED BY <1>6, <2>1, <2>2
<1>7. CASE UNCHANGED vars
  BY <1>1, <1>7 DEF vars
<1> QED BY <1>1, <1>2, <1>3, <1>4, <1>5, <1>6, <1>7 DEF Next

\* Only quarantines that began reach the store.
LEMMA NextGenuine ==
    ASSUME Timely, RedisInv, StoreGenuine, [Next]_vars
    PROVE  StoreGenuine'
<1> USE DEF redisVars, callVars, storeVars
<1>1. /\ PastStates \subseteq PastStates'
      /\ \A d \in Directions : history[d] \subseteq history'[d]
  BY HistoryGrows
<1>2. /\ RedisTypeOK
      /\ states \in [Mirrors -> Received \cup {Forgotten}]
      /\ divergences \in [Mirrors -> [Directions -> Nat]]
      /\ \A h \in Handlers : record[h].phase = "exec" => record[h].direction \in Directions
  BY CallCases DEF RedisInv, RedisTypeOK, WatchedCall
<1>3. ASSUME states' = states PROVE states'[Mirror] # Forgotten => states'[Mirror].state \in PastStates'
  BY <1>1, <1>3 DEF StoreGenuine
<1>4. ASSUME divergences' = divergences PROVE Genuine(divergences[Mirror])'
  BY <1>1, <1>4 DEF StoreGenuine, Genuine
<1> DEFINE Sound(call) == call.phase = "exec" =>
               call.mirror = Mirror /\ call.since \in history'[call.direction]
<1>5. \A h \in Handlers : Sound(record[h])
  BY <1>1, <1>2 DEF StoreGenuine
<1>6. Sound(NoRecord)
  BY DEF NoRecord
<1>7. \A h \in Handlers : Sound(Touched(record)[h])
  <2> SUFFICES ASSUME NEW h \in Handlers PROVE Sound(Touched(record)[h])
    OBVIOUS
  <2>1. CASE record[h].phase = "exec"
    <3>1. record[h] \in WatchedCall
      BY <1>2, <2>1, CallCases
    <3>2. Touched(record)[h] = [record[h] EXCEPT !.intact = FALSE]
      BY <2>1 DEF Touched
    <3>3. [record[h] EXCEPT !.intact = FALSE].mirror = record[h].mirror
      BY <3>1 DEF WatchedCall
    <3>4. [record[h] EXCEPT !.intact = FALSE].since = record[h].since
      BY <3>1 DEF WatchedCall
    <3>5. [record[h] EXCEPT !.intact = FALSE].direction = record[h].direction
      BY <3>1 DEF WatchedCall
    <3> QED BY <1>5, <2>1, <3>2, <3>3, <3>4, <3>5
  <2>2. CASE record[h].phase # "exec"
    BY <2>2, <1>5 DEF Touched
  <2> QED BY <2>1, <2>2
<1>8. ASSUME \A h \in Handlers : Sound(record'[h]), states' = states, divergences' = divergences
      PROVE  StoreGenuine'
  BY <1>3, <1>4, <1>8 DEF StoreGenuine
<1>9. ASSUME record' = record, states' = states, divergences' = divergences PROVE StoreGenuine'
  BY <1>5, <1>8, <1>9
<1>10. ASSUME NEW h \in Handlers, NEW d \in Directions, NEW since \in history[d],
              ReadWatched(h, Mirror, d, since)
       PROVE  StoreGenuine'
  <2> DEFINE call == [phase |-> "exec", mirror |-> Mirror, direction |-> d, since |-> since,
                      intact |-> TRUE]
  <2>1. Sound(call)
    BY <1>1
  <2>2. record' = [record EXCEPT ![h] = NoRecord] \/ record' = [record EXCEPT ![h] = call]
    BY Zenon, <1>10 DEF ReadWatched
  <2>3. record \in [Handlers -> {NoRecord} \cup WatchedCall]
    BY <1>2 DEF RedisTypeOK
  <2> HIDE DEF Sound, call
  <2>4. \A g \in Handlers : Sound(record'[g])
    BY <1>5, <1>6, <2>1, <2>2, <2>3
  <2>5. states' = states /\ divergences' = divergences
    BY <1>10 DEF ReadWatched
  <2> QED BY <1>8, <2>4, <2>5
<1>11. ASSUME NEW s \in Handlers, PutState(s) PROVE StoreGenuine'
  <2>1. handler[s].state \in PastStates
    BY <1>11 DEF PutState, Timely, HandlersTimely
  <2>2. /\ states' = [states EXCEPT ![Mirror] = [state |-> handler[s].state, received |-> handler[s].received]]
        /\ divergences' = divergences /\ record' = record
    BY <1>11 DEF PutState, PutField, Put
  <2>3. states'[Mirror].state \in PastStates'
    BY <1>1, <1>2, <2>1, <2>2
  <2> QED BY <1>4, <1>5, <2>2, <2>3 DEF StoreGenuine
<1>12. ASSUME NEW s \in Handlers, RecordNext(s) PROVE StoreGenuine'
  <2>1. ASSUME NEW d \in handler[s].todo, ReadWatched(s, Mirror, d, handler[s].state[d])
        PROVE  StoreGenuine'
    <3>1. d \in Directions /\ handler[s].state[d] \in history[d]
      BY <1>12 DEF RecordNext, Timely, HandlersTimely, PastHandlers, PastStates, Genuine
    <3> QED BY <1>10, <2>1, <3>1
  <2> QED BY <1>9, <1>12, <2>1 DEF RecordNext
<1>13. ASSUME NEW s \in Handlers, Exec(s) PROVE StoreGenuine'
  <2>1. record[s] \in WatchedCall /\ record[s].direction \in Directions
    BY <1>2, <1>13, CallCases DEF Exec
  <2>2. record[s].mirror = Mirror /\ record[s].since \in history'[record[s].direction]
    BY <1>5, <1>13 DEF Exec
  <2>3. /\ divergences' = [divergences EXCEPT ![Mirror][record[s].direction] = record[s].since]
        /\ record' = [Touched(record) EXCEPT ![s] = NoRecord]
        /\ states' = states
    BY <1>13, <2>2 DEF Exec
  <2>4. Genuine(divergences[Mirror])'
    BY <1>1, <1>2, <2>1, <2>2, <2>3 DEF StoreGenuine, Genuine
  <2>5. Touched(record) \in [Handlers -> {NoRecord} \cup WatchedCall]
    BY <1>2, TouchedCalls
  <2> HIDE DEF Sound
  <2>6. \A h \in Handlers : Sound(record'[h])
    BY <1>6, <1>7, <2>3, <2>5
  <2> QED BY <1>3, <2>3, <2>4, <2>6 DEF StoreGenuine, Sound
<1>14. ASSUME NEW s \in Handlers, RetryRecord(s) PROVE StoreGenuine'
  <2>1. record[s].phase = "exec" /\ ReadWatched(s, record[s].mirror, record[s].direction, record[s].since)
    BY <1>14 DEF RetryRecord
  <2> QED BY <1>2, <1>10, <2>1 DEF StoreGenuine
<1>15. ASSUME NEW s \in Handlers, StoreFails(s) PROVE StoreGenuine'
  <2>1. record' = [record EXCEPT ![s] = NoRecord] /\ states' = states /\ divergences' = divergences
    BY <1>15 DEF StoreFails, RecordFails
  <2>2. record \in [Handlers -> {NoRecord} \cup WatchedCall]
    BY <1>2 DEF RedisTypeOK
  <2> HIDE DEF Sound
  <2>3. \A h \in Handlers : Sound(record'[h])
    BY <1>5, <1>6, <2>1, <2>2
  <2> QED BY <1>8, <2>1, <2>3
<1>16. ASSUME NEW c \in Clears, ClearDivergences(c) PROVE StoreGenuine'
  <2>1. /\ divergences' = [divergences EXCEPT ![Mirror] = [d \in Directions |-> 0]]
        /\ states' = states /\ record' = Touched(record)
    BY <1>16 DEF ClearDivergences, ClearFields, Clear
  <2>2. \A d \in Directions : 0 \in history'[d]
    BY <1>1 DEF Timely, MirrorTimely
  <2>3. Genuine(divergences[Mirror])'
    BY <1>2, <2>1, <2>2 DEF Genuine
  <2> QED BY <1>3, <1>7, <2>1, <2>3 DEF StoreGenuine
<1>17. ASSUME NEW h \in Listers, ListStates(h) PROVE StoreGenuine'
  <2>1. CASE ReadStates(h) \/ StatesFails(h)
    BY <1>9, <2>1 DEF ReadStates, StatesFails
  <2>2. ASSUME NEW m \in Mirrors, ForgetIfUnchanged(h, m) PROVE StoreGenuine'
    <3>1. /\ states' \in {states, [states EXCEPT ![m] = Forgotten]}
          /\ divergences' = divergences /\ record' = record
      BY <2>2 DEF ForgetIfUnchanged
    <3>2. states'[Mirror] # Forgotten => states'[Mirror] = states[Mirror]
      BY <1>2, <3>1
    <3> QED BY <1>1, <1>4, <1>5, <3>1, <3>2 DEF StoreGenuine
  <2> QED BY <1>17, <2>1, <2>2 DEF ListStates
<1>18. ASSUME NEW s \in Handlers, Receive(s) \/ ReceiveEnds(s) \/ Break(s) PROVE StoreGenuine'
  BY <1>9, <1>18 DEF Receive, ReceiveEnds, Break
<1>19. ASSUME NEW c \in Clears, ReadClock(c) PROVE StoreGenuine'
  BY <1>9, <1>19 DEF ReadClock
<1>20. CASE Time \/ UNCHANGED vars
  <2>1. record' = record /\ states' = states /\ divergences' = divergences
    BY <1>20 DEF Time, Tick, vars
  <2> QED BY <1>9, <2>1
<1>21. ASSUME \/ \E d \in Directions : Quarantine(d) \/ SendQuarantine(d)
              \/ ReporterStep \/ OpenFails \/ SendKeepalive \/ CloseAged \/ Restart
       PROVE  StoreGenuine'
  <2>1. UNCHANGED redisVars
    BY Zenon, <1>21, MirrorStepTimely
  <2> QED BY <1>9, <2>1
<1> HIDE DEF Sound
<1> QED BY <1>11, <1>12, <1>13, <1>14, <1>15, <1>16, <1>17, <1>18, <1>19, <1>20, <1>21
        DEF Next, HandlerStep, RecordEnds

\* A message in flight is within the bound of the clock.
LEMMA PastIsTyped == Timely => TypeOK
<1> SUFFICES ASSUME Timely PROVE TypeOK
  OBVIOUS
<1>1. /\ now \in 1 .. MaxTime
      /\ PastStates \subseteq [Directions -> 0 .. MaxTime]
  BY DEF Timely, MirrorTimely, PastStates
<1>2. PastMessages \subseteq Messages
  BY <1>1 DEF PastMessages, PastQuarantines, Messages, Keepalive
<1>3. ASSUME NEW s \in Handlers
      PROVE  /\ conn[s].client \in {"none", "open", "closed", "lost"}
             /\ \A i \in DOMAIN conn[s].messages : conn[s].messages[i] \in Messages
             /\ handler[s].phase \in {"none", "receive", "put", "record", "ended", "failed"}
  <2>1. /\ conn[s].client \in {"none", "open", "closed", "lost"}
        /\ conn[s].messages \in Seq(PastMessages)
    BY DEF Timely, StreamsTimely, PastConns
  <2>2. \A i \in DOMAIN conn[s].messages : conn[s].messages[i] \in PastMessages
    BY <2>1
  <2>3. handler[s].phase \in {"none", "receive", "put", "record", "ended", "failed"}
    BY DEF Timely, HandlersTimely, PastHandlers
  <2> QED BY <1>2, <2>1, <2>2, <2>3
<1> QED BY <1>1, <1>3 DEF Timely, MirrorTimely, TypeOK

\* What the mirror and the store hold, the server invented nothing of.
LEMMA PastIsGenuine == Timely /\ StoreGenuine => NothingInvented
<1> SUFFICES ASSUME Timely, StoreGenuine PROVE NothingInvented
  OBVIOUS
<1>1. ASSUME NEW s \in Handlers, NEW i \in DOMAIN conn[s].messages
      PROVE  LET message == conn[s].messages[i]
             IN  /\ message.kind = "state" => Genuine(message.state)
                 /\ message.kind = "quarantine" => message.since \in history[message.direction]
  <2>1. conn[s].messages \in Seq(PastMessages)
    BY DEF Timely, StreamsTimely, PastConns
  <2>2. conn[s].messages[i] \in PastMessages
    BY <1>1, <2>1
  <2> QED BY <2>2 DEF PastMessages, PastQuarantines, PastStates, Keepalive
<1>2. ASSUME NEW s \in Handlers, handler[s].state # Forgotten PROVE Genuine(handler[s].state)
  BY <1>2 DEF Timely, HandlersTimely, PastHandlers, PastStates
<1> QED BY <1>1, <1>2 DEF NothingInvented, StoreGenuine, PastStates

\* Whatever streams break, commands fail, clears interleave and processes restart, each
\* watched Record call decides as it did when it read, and the server holds and lists only
\* quarantines that a proxy of the mirror did enter at that time.
THEOREM ServersAreSound == Spec => []ServerSound
<1> DEFINE Inv == Timely /\ RedisInv /\ StoreGenuine
<1>1. Init => Inv
  <2>1. Init => StoreGenuine
    BY DEF Init, RedisInit, StoreInit, StoreGenuine, Genuine, NoRecord
  <2> QED BY <2>1, InitTimely, RedisInitial DEF Init
<1>2. Inv /\ [Next]_vars => Inv'
  BY NextTimely, NextCommands, RedisInductive, NextGenuine
<1>3. Inv => ServerSound
  BY PastIsTyped, PastIsGenuine DEF RedisInv, ServerSound
<1> QED BY <1>1, <1>2, <1>3, PTL DEF Spec

\* The handlers of any number of streams, of which some are broken, clears and lists use
\* the shared store as if every call of it were atomic.
THEOREM ReportingIsAtomic == Spec => AtomicStore
<1>1. Init => Timely /\ RedisInv /\ StoreInit
  BY InitTimely, RedisInitial DEF Init, RedisInit
<1>2. Timely /\ RedisInv /\ [Next]_vars => (Timely /\ RedisInv)'
  BY NextTimely, NextCommands, RedisInductive
<1>3. Timely /\ RedisInv /\ [Next]_vars => [StoreNext]_<<now, storeVars>>
  BY NextCommands, RedisSteps
<1> QED BY <1>1, <1>2, <1>3, PTL DEF Spec, AtomicStore, StoreSpec

=============================================================================
