--------------------------- MODULE SupervisorProofs ---------------------------
(***************************************************************************)
(* A mirror under the supervisor and a mirror that runs as a proxy, with   *)
(* or without reflection and limits.                                       *)
(*                                                                         *)
(* SupervisorInvariant is inductive.  The supervisor and the mirror each   *)
(* count what they have started: one for each part that runs, and one for  *)
(* each exit not yet received (MirrorCounts, RunCounts).  The rest says    *)
(* what has been started, configured and accepted, given how far Run,      *)
(* Mirror.Start and awaitBackends are (RunProgress, RunAccepted,           *)
(* MirrorConfigures).                                                      *)
(***************************************************************************)
EXTENDS Supervisor, TLAPS

USE SMTT(60)

-----------------------------------------------------------------------------
(* Sets of at most three elements.                                         *)

One(b) == IF b THEN 1 ELSE 0

\* How many of a, b and c are in U.
Among(a, b, c, U) == One(a \in U) + One(b \in U) + One(c \in U)

\* Without one of its elements a set has one less of them.
LEMMA OneLess ==
    ASSUME NEW a, NEW b, NEW c, a # b, a # c, b # c, NEW U \in SUBSET {a, b, c}
    PROVE  /\ Among(a, b, c, U) \in 0 .. 3
           /\ Among(a, b, c, U) = 0 <=> U = {}
           /\ \A x \in U : Among(a, b, c, U) = 1 + Among(a, b, c, U \ {x})
<1>1. Among(a, b, c, U) \in 0 .. 3
  BY DEF Among, One
<1>2. Among(a, b, c, U) = 0 <=> a \notin U /\ b \notin U /\ c \notin U
  BY DEF Among, One
<1>3. U = {} <=> a \notin U /\ b \notin U /\ c \notin U
  BY Zenon
<1>4. ASSUME NEW x \in U PROVE Among(a, b, c, U) = 1 + Among(a, b, c, U \ {x})
  <2>1. x \in {a, b, c}
    BY Zenon
  <2>2. \A y : y \in U \ {x} <=> y \in U /\ y # x
    BY Zenon
  <2> HIDE <1>1, <1>2, <1>3
  <2>3. CASE x = a
    BY <2>2, <2>3 DEF Among, One
  <2>4. CASE x = b
    BY <2>2, <2>4 DEF Among, One
  <2>5. CASE x = c
    BY <2>2, <2>5 DEF Among, One
  <2> QED BY Zenon, <2>1, <2>3, <2>4, <2>5
<1> QED BY Zenon, <1>1, <1>2, <1>3, <1>4

\* A set of at most three elements has as many as it has of them.
LEMMA CountsThree ==
    ASSUME NEW a, NEW b, NEW c, a # b, a # c, b # c, NEW T \in SUBSET {a, b, c}
    PROVE  Cardinality(T) = Among(a, b, c, T)
<1> DEFINE First(U) == CHOOSE x : x \in U
           Counts(g) == g = [U \in SUBSET T |-> IF U = {} THEN 0 ELSE 1 + g[U \ {First(U)}]]
           size == CHOOSE g : Counts(g)
           count(U) == Among(a, b, c, U)
           known == [U \in SUBSET T |-> count(U)]
<1>1. Cardinality(T) = size[T]
  BY Zenon DEF Cardinality
<1>2. \A U \in SUBSET T : U \in SUBSET {a, b, c}
  OBVIOUS
<1>3. \A U \in SUBSET T : count(U) \in 0 .. 3 /\ (count(U) = 0 <=> U = {})
  BY <1>2, OneLess
<1>4. ASSUME NEW U \in SUBSET T, U # {}
      PROVE  U \ {First(U)} \in SUBSET T /\ count(U) = 1 + count(U \ {First(U)})
  <2>1. First(U) \in U
    BY Zenon, <1>4
  <2>2. U \ {First(U)} \in SUBSET T
    BY <2>1
  <2> HIDE DEF First
  <2> QED BY <1>2, <2>1, <2>2, OneLess
<1> HIDE DEF First, count
<1>5. \E g : Counts(g)
  <2>1. ASSUME NEW U \in SUBSET T
        PROVE  count(U) = IF U = {} THEN 0 ELSE 1 + known[U \ {First(U)}]
    BY Zenon, <1>3, <1>4
  <2> QED BY Zenon, <2>1
<1>6. Counts(size)
  BY Zenon, <1>5
<1> HIDE DEF size
<1>7. \A U \in SUBSET T : size[U] = IF U = {} THEN 0 ELSE 1 + size[U \ {First(U)}]
  BY Zenon, <1>6
<1> HIDE DEF Counts
<1>8. ASSUME NEW n \in Nat, \A U \in SUBSET T : count(U) = n => size[U] = n
      PROVE  \A U \in SUBSET T : count(U) = n + 1 => size[U] = n + 1
  <2> SUFFICES ASSUME NEW U \in SUBSET T, count(U) = n + 1 PROVE size[U] = n + 1
    BY Zenon
  <2>1. U # {}
    BY <1>3
  <2>2. U \ {First(U)} \in SUBSET T /\ n + 1 = 1 + count(U \ {First(U)})
    BY <1>4, <2>1
  <2>3. count(U \ {First(U)}) = n
    BY <1>3, <2>2
  <2>4. size[U] = 1 + size[U \ {First(U)}] /\ size[U \ {First(U)}] = n
    BY Zenon, <1>7, <1>8, <2>1, <2>2, <2>3
  <2> QED BY <2>4
<1>9. \A U \in SUBSET T : count(U) = 0 => size[U] = 0
  BY Zenon, <1>3, <1>7
<1>10. \A U \in SUBSET T : count(U) = 0 + 1 => size[U] = 0 + 1
  BY Zenon, <1>8, <1>9, 0 \in Nat
<1>11. \A U \in SUBSET T : count(U) = 1 + 1 => size[U] = 1 + 1
  BY <1>8, <1>10
<1>12. \A U \in SUBSET T : count(U) = 2 + 1 => size[U] = 2 + 1
  BY <1>8, <1>11
<1>13. size[T] = count(T)
  BY <1>3, <1>9, <1>10, <1>11, <1>12
<1> QED BY <1>1, <1>13 DEF count

-----------------------------------------------------------------------------
(* The mirror.                                                             *)

\* Whether server s has still to send its exit, or has it unread in m.exits.
Unread(s) == One(serve[s] \notin {"none", "exited"}) + One(s \in exits)

\* m.running, the servers that startAll has started, and their exits.
MirrorCounts ==
    /\ running = Unread("egress") + Unread("ingress") + Unread("health")
    /\ \A s \in exits : serve[s] = "exited"
    /\ main = "egress" => serve["egress"] = "none"
    /\ main \in {"egress", "ingress"} => serve["ingress"] = "none"
    /\ main \in Servers => serve["health"] = "none"
    /\ main \in {"ingress", "health", "waiting"} => serve["egress"] # "none"
    /\ main \in {"health", "waiting"} => serve["ingress"] # "none"
    /\ main = "returned" => running = 0

\* What ingress's awaitBackends has seen, given how far it is.
MirrorConfigures ==
    /\ serve["ingress"] \in {"none", "starting", "accepting"} =>
          background = "none" /\ ~ready["ingress"]
    /\ background \in {"candidate", "schema", "decoder", "readying"} => "reference" \in accepted
    /\ background \in {"schema", "decoder", "readying"} /\ reflection =>
          "candidate" \in accepted /\ ~awaiting
    /\ background \in {"decoder", "readying"} => decoder
    /\ ReadyMeansConfigured

MirrorInvariant == MirrorTypeOK /\ MirrorCounts /\ MirrorConfigures

\* Nothing runs before Start.
LEMMA MirrorStarts == ASSUME MirrorInit PROVE MirrorInvariant
<1>1. MirrorTypeOK
  <2>1. parent \in BOOLEAN /\ ctx \in BOOLEAN /\ decoder \in BOOLEAN /\ awaiting \in BOOLEAN
        /\ quarantine \in BOOLEAN /\ mirrored \in BOOLEAN
    BY Zenon DEF MirrorInit
  <2>2. ready \in [{"egress", "ingress"} -> BOOLEAN]
    BY Zenon DEF MirrorInit
  <2> QED BY <2>1, <2>2 DEF MirrorInit, MirrorTypeOK, Servers, Serves
<1>2. MirrorCounts
  BY DEF MirrorInit, MirrorCounts, Unread, One, Servers
<1>3. MirrorConfigures
  BY DEF MirrorInit, MirrorConfigures, ReadyMeansConfigured, Servers
<1> QED BY <1>1, <1>2, <1>3 DEF MirrorInvariant

\* An exit is received from m.exits.
LEMMA ExitReceived ==
    ASSUME MirrorInvariant, NEW s \in exits, exits' = exits \ {s}, running' = running - 1,
           main' = "draining", ctx' \in BOOLEAN,
           UNCHANGED <<parent, serve, ready, ingressVars, backendVars>>
    PROVE  MirrorTypeOK' /\ MirrorCounts'
<1>1. s \in Servers /\ serve[s] = "exited"
  BY Zenon DEF MirrorInvariant, MirrorTypeOK, MirrorCounts
<1>2. running' = (Unread("egress") + Unread("ingress") + Unread("health"))'
  BY <1>1 DEF MirrorInvariant, MirrorCounts, MirrorTypeOK, Unread, One, Servers
<1>3. running' \in 0 .. 3 /\ exits' \in SUBSET Servers
  BY <1>1, <1>2 DEF MirrorInvariant, MirrorTypeOK, MirrorCounts, Unread, One
<1> QED BY <1>2, <1>3 DEF MirrorInvariant, MirrorTypeOK, MirrorCounts, Servers, ingressVars,
           backendVars

\* Start, Wait and drain.
LEMMA MainKeeps ==
    ASSUME MirrorInvariant, MainStep
    PROVE  MirrorInvariant'
<1> USE DEF MirrorInvariant, mainVars, ingressVars, backendVars
<1>1. ASSUME NEW s \in Servers, StartServer(s) PROVE MirrorTypeOK' /\ MirrorCounts'
  BY <1>1 DEF StartServer, After, MirrorTypeOK, MirrorCounts, Unread, One, Servers, Serves
<1>2. ASSUME NEW s \in Servers, StartFails(s) PROVE MirrorTypeOK' /\ MirrorCounts'
  BY <1>2 DEF StartFails, MirrorTypeOK, MirrorCounts, Unread, One, Servers, Serves
<1>3. CASE SkipHealth
  <2>1. MirrorTypeOK' /\ MirrorCounts'
    BY <1>3 DEF SkipHealth, MirrorTypeOK, MirrorCounts, Unread, One, Servers, Serves
  <2> QED BY <1>3, <2>1 DEF SkipHealth, MirrorConfigures, ReadyMeansConfigured
<1>4. CASE WaitEnds
  <2>1. MirrorTypeOK' /\ MirrorCounts'
    <3>1. /\ main = "waiting" /\ main' = "draining" /\ ctx' = TRUE
          /\ UNCHANGED <<parent, serve, ready, ingressVars, backendVars>>
      BY <1>4 DEF WaitEnds
    <3>2. CASE UNCHANGED <<running, exits>>
      BY <3>1, <3>2 DEF MirrorTypeOK, MirrorCounts, Unread, One, Servers, Serves
    <3>3. CASE \E s \in exits : exits' = exits \ {s} /\ running' = running - 1
      BY <3>1, <3>3, ExitReceived
    <3> QED BY <1>4, <3>2, <3>3 DEF WaitEnds
  <2> QED BY <1>4, <2>1 DEF WaitEnds, MirrorConfigures, ReadyMeansConfigured
<1>5. CASE Drain
  <2>1. MirrorTypeOK' /\ MirrorCounts'
    <3>1. main = "draining" /\ UNCHANGED <<parent, ctx, serve, ready, ingressVars, backendVars>>
      BY <1>5 DEF Drain
    <3>2. CASE running = 0 /\ main' = "returned" /\ UNCHANGED <<running, exits>>
      BY <3>1, <3>2 DEF MirrorTypeOK, MirrorCounts, Unread, One, Servers, Serves
    <3>3. CASE /\ \E s \in exits : exits' = exits \ {s} /\ running' = running - 1
               /\ UNCHANGED main
      BY <3>1, <3>3, ExitReceived DEF MirrorTypeOK
    <3> QED BY <1>5, <3>2, <3>3 DEF Drain
  <2> QED BY <1>5, <2>1 DEF Drain, MirrorConfigures, ReadyMeansConfigured
<1>6. ASSUME NEW s \in Servers, StartServer(s) \/ StartFails(s) PROVE MirrorInvariant'
  <2>1. MirrorConfigures'
    BY <1>6 DEF StartServer, StartFails, MirrorConfigures, ReadyMeansConfigured, MirrorTypeOK,
       MirrorCounts, Servers
  <2> QED BY <1>1, <1>2, <1>6, <2>1
<1> QED BY <1>3, <1>4, <1>5, <1>6 DEF MainStep, StartStep

\* Serve of one server.
LEMMA ServeKeeps ==
    ASSUME MirrorInvariant, NEW s \in Servers, ServeStep(s) \/ ListenerFails(s)
    PROVE  MirrorInvariant'
<1> USE DEF MirrorInvariant, mainVars, ingressVars, backendVars
<1>1. CASE StartBindings(s)
  <2>1. MirrorTypeOK' /\ MirrorCounts'
    BY <1>1 DEF StartBindings, MirrorTypeOK, MirrorCounts, Unread, One, Servers, Serves
  <2> QED BY <1>1, <2>1 DEF StartBindings, MirrorConfigures, ReadyMeansConfigured, MirrorTypeOK,
             Servers
<1>2. CASE LifecycleStart(s)
  <2>1. MirrorCounts' /\ serve' \in [Servers -> Serves]
    BY <1>2 DEF LifecycleStart, MirrorTypeOK, MirrorCounts, Unread, One, Servers, Serves
  <2>2. ready' \in [{"egress", "ingress"} -> BOOLEAN] /\ awaiting' \in BOOLEAN
    BY Zenon, <1>2 DEF LifecycleStart, MirrorTypeOK
  <2>3. MirrorTypeOK'
    BY <1>2, <2>1, <2>2 DEF LifecycleStart, MirrorTypeOK, MirrorCounts
  <2>4. ready'["ingress"] <=> ready["ingress"]
    BY <1>2 DEF LifecycleStart, ReadyOnStart, MirrorTypeOK
  <2>5. CASE s = "ingress"
    BY <1>2, <2>1, <2>3, <2>4, <2>5 DEF LifecycleStart, MirrorConfigures, ReadyMeansConfigured,
       MirrorTypeOK, Servers
  <2>6. CASE s # "ingress"
    <3>1. /\ background' = background /\ (awaiting' <=> awaiting)
          /\ serve'["ingress"] = serve["ingress"]
      BY <1>2, <2>6 DEF LifecycleStart, MirrorTypeOK, Servers
    <3> QED BY <1>2, <2>1, <2>3, <2>4, <3>1 DEF LifecycleStart, MirrorConfigures,
               ReadyMeansConfigured
  <2> QED BY <2>5, <2>6
<1>3. CASE StopServer(s)
  <2>1. MirrorCounts' /\ serve' \in [Servers -> Serves]
    BY <1>3 DEF StopServer, MirrorTypeOK, MirrorCounts, Unread, One, Servers, Serves
  <2>2. ready' \in [{"egress", "ingress"} -> BOOLEAN] /\ (ready'["ingress"] => ready["ingress"])
    BY Zenon, <1>3 DEF StopServer, MirrorTypeOK
  <2>3. MirrorTypeOK'
    BY <1>3, <2>1, <2>2 DEF StopServer, MirrorTypeOK
  <2> QED BY <1>3, <2>1, <2>2, <2>3 DEF StopServer, MirrorConfigures, ReadyMeansConfigured,
             MirrorTypeOK, Servers
<1>4. CASE ShutDown(s)
  <2>1. MirrorTypeOK' /\ MirrorCounts'
    BY <1>4 DEF ShutDown, MirrorTypeOK, MirrorCounts, Unread, One, Servers, Serves
  <2> QED BY <1>4, <2>1 DEF ShutDown, MirrorConfigures, ReadyMeansConfigured, MirrorTypeOK,
             Servers
<1>5. CASE Exit(s)
  <2>1. MirrorTypeOK' /\ MirrorCounts'
    BY <1>5 DEF Exit, MirrorTypeOK, MirrorCounts, Unread, One, Servers, Serves
  <2> QED BY <1>5, <2>1 DEF Exit, MirrorConfigures, ReadyMeansConfigured, MirrorTypeOK, Servers
<1> QED BY <1>1, <1>2, <1>3, <1>4, <1>5 DEF ServeStep, Cancelled, ListenerFails

\* ingress.awaitBackends.
LEMMA BackgroundKeeps ==
    ASSUME MirrorInvariant, BackgroundStep
    PROVE  MirrorInvariant'
<1> USE DEF MirrorInvariant, mainVars, ingressVars, backendVars
<1>1. MirrorTypeOK'
  <2>1. CASE SetReady
    BY Zenon, <2>1 DEF SetReady, MirrorTypeOK, AfterSchema
  <2>2. CASE ~SetReady
    <3>1. decoder' \in BOOLEAN /\ awaiting' \in BOOLEAN /\ quarantine' \in BOOLEAN
      BY Zenon, <2>2 DEF BackgroundStep, AwaitReference, SchemaFails, SetDecoder, CheckContext,
         CandidateAccepts, CandidateMissing, MirrorTypeOK
    <3>2. background' \in {"schema", "decoder", "readying", "candidate", "ended"}
      BY Zenon, <2>2 DEF BackgroundStep, AwaitReference, SchemaFails, SetDecoder, CheckContext,
         CandidateAccepts, CandidateMissing, AfterSchema
    <3>3. UNCHANGED <<mainVars, serve, ready, backendVars>>
      BY Zenon, <2>2 DEF BackgroundStep, AwaitReference, SchemaFails, SetDecoder, CheckContext,
         CandidateAccepts, CandidateMissing
    <3> QED BY <3>1, <3>2, <3>3 DEF MirrorTypeOK
  <2> QED BY <2>1, <2>2
<1>2. UNCHANGED <<main, running, exits, serve, accepted, reflection>>
  BY DEF BackgroundStep, AwaitReference, SchemaFails, SetDecoder, CheckContext, SetReady,
     CandidateAccepts, CandidateMissing
<1>3. MirrorCounts'
  BY <1>2 DEF MirrorCounts, Unread
<1>4. serve["ingress"] \notin {"none", "starting", "accepting"}
  BY DEF BackgroundStep, AwaitReference, SchemaFails, SetDecoder, CheckContext, SetReady,
     CandidateAccepts, CandidateMissing, MirrorConfigures
<1>5. MirrorConfigures'
  <2> USE DEF MirrorConfigures, ReadyMeansConfigured, MirrorTypeOK
  <2>1. CASE AwaitReference
    BY <1>2, <1>4, <2>1 DEF AwaitReference
  <2>2. CASE SchemaFails \/ SetDecoder \/ CheckContext
    BY <1>2, <1>4, <2>2 DEF SchemaFails, SetDecoder, CheckContext, AfterSchema
  <2>3. CASE SetReady
    BY <1>2, <1>4, <2>3 DEF SetReady, AfterSchema
  <2>4. CASE CandidateAccepts \/ CandidateMissing
    BY <1>2, <1>4, <2>4 DEF CandidateAccepts, CandidateMissing
  <2> QED BY <2>1, <2>2, <2>3, <2>4 DEF BackgroundStep
<1> QED BY <1>1, <1>3, <1>5

\* The context of Start and Wait, backends and requests.
LEMMA SurroundingsKeep ==
    ASSUME MirrorInvariant,
           \/ ParentEnds \/ MirrorRequest \/ UNCHANGED processVars
           \/ \E b \in {"reference", "candidate"} : BackendAccepts(b)
           \/ up' \in SUBSET up /\ UNCHANGED <<mainVars, serve, ready, ingressVars, health,
                                               reflection, accepted, mirrored>>
    PROVE  MirrorInvariant'
<1>1. /\ UNCHANGED <<main, running, exits, serve, ready, ingressVars, health, reflection>>
      /\ accepted \in SUBSET accepted'
      /\ up' \in SUBSET accepted' /\ accepted' \in SUBSET {"reference", "candidate"}
  <2> USE DEF MirrorInvariant, MirrorTypeOK, mainVars, ingressVars, backendVars
  <2>1. CASE ParentEnds
    BY <2>1 DEF ParentEnds
  <2>2. CASE MirrorRequest
    BY <2>2 DEF MirrorRequest
  <2>3. CASE UNCHANGED processVars
    BY <2>3 DEF processVars
  <2>4. CASE \E b \in {"reference", "candidate"} : BackendAccepts(b)
    BY <2>4 DEF BackendAccepts
  <2>5. CASE up' \in SUBSET up /\ UNCHANGED <<mainVars, serve, ready, ingressVars, health,
                                              reflection, accepted, mirrored>>
    BY <2>5
  <2> QED BY Zenon, <2>1, <2>2, <2>3, <2>4, <2>5
<1>2. parent' \in BOOLEAN /\ ctx' \in BOOLEAN /\ mirrored' \in BOOLEAN
  BY Zenon DEF ParentEnds, MirrorRequest, BackendAccepts, MirrorInvariant, MirrorTypeOK,
     processVars, mainVars, ingressVars, backendVars
<1> USE DEF MirrorInvariant, ingressVars
<1>3. MirrorTypeOK'
  BY <1>1, <1>2 DEF MirrorTypeOK
<1>4. MirrorCounts'
  BY <1>1 DEF MirrorCounts, Unread
<1>5. MirrorConfigures'
  BY <1>1 DEF MirrorConfigures, ReadyMeansConfigured
<1> QED BY <1>3, <1>4, <1>5

-----------------------------------------------------------------------------
(* The supervisor.                                                         *)

Places == {"proxy", "limits", "mirror", "reference", "awaitReference", "candidate",
           "awaitCandidate", "place", "waiting", "cancel", "draining", "cleanup", "returned"}

RunTypeOK ==
    /\ run \in Places
    /\ component \in [Components -> {"none", "running", "exited", "reaped"}]
    /\ group \in SUBSET Roles /\ finished \in SUBSET Components
    /\ limits \in BOOLEAN

\* Whether component c has still to send its exit, or has it unread in s.exits.
Owed(c) == One(component[c] \in {"running", "exited"}) + One(c \in finished)

\* s.running, the components that startAll has started, and their exits.
RunCounts ==
    /\ started = Owed("reference") + Owed("candidate") + Owed("mirror")
    /\ \A c \in finished : component[c] = "reaped"
    /\ \A r \in group : component[r] \in {"running", "exited"}
    /\ run \in {"cleanup", "returned"} => started = 0
    /\ ~limits /\ run \notin {"limits", "returned"} => leaves = {}
    /\ run = "returned" =>
          leaves \subseteq placed \/ (~limits /\ \A c \in Components : component[c] = "none")

\* Where Run is, which components it has started, and what the mirror is doing.
RunProgress ==
    /\ run \in {"proxy", "limits", "mirror"} => component = [c \in Components |-> "none"]
    /\ run = "limits" => main = "egress" /\ ~limits
    /\ run = "reference" => component["reference"] = "none"
    /\ run \in {"reference", "awaitReference", "candidate"} => component["candidate"] = "none"
    /\ run \in {"reference", "awaitReference", "candidate", "awaitCandidate", "place", "waiting"}
          => component["mirror"] # "none"
    /\ component["mirror"] = "none" /\ run \notin {"proxy", "mirror"} =>
          main \in {"egress", "returned"}
    /\ component["mirror"] = "running" => main \in {"waiting", "draining", "returned"}
    /\ component["mirror"] = "reaped" => main = "returned"
    /\ component["mirror"] # "exited"
    /\ component["mirror"] # "none" => serve["egress"] # "none" /\ serve["ingress"] # "none"
    /\ \A r \in Roles : component[r] # "none" => component["mirror"] # "none"

\* Which services have accepted, given how far Run is.
RunAccepted ==
    /\ component["candidate"] # "none" => "reference" \in accepted
    /\ run \in {"candidate", "awaitCandidate", "place", "waiting"} => "reference" \in accepted
    /\ run \in {"place", "waiting"} => "candidate" \in accepted
    /\ run = "waiting" /\ limits => placed = Roles

RunInvariant == RunTypeOK /\ RunCounts /\ RunProgress /\ RunAccepted

SupervisorInvariant == MirrorInvariant /\ RunInvariant

\* Run has started nothing.
LEMMA SupervisorStarts == ASSUME SupervisorInit PROVE SupervisorInvariant
<1>1. MirrorInvariant
  BY MirrorStarts DEF SupervisorInit
<1>2. RunTypeOK
  <2>1. limits \in BOOLEAN
    BY Zenon DEF SupervisorInit
  <2> QED BY <2>1 DEF SupervisorInit, RunTypeOK, Places, Components, Roles
<1>3. RunCounts
  BY DEF SupervisorInit, RunCounts, Owed, One, Components, Roles
<1>4. RunProgress /\ RunAccepted
  BY DEF SupervisorInit, MirrorInit, RunProgress, RunAccepted, Components, Roles
<1> QED BY <1>1, <1>2, <1>3, <1>4 DEF SupervisorInvariant, RunInvariant

\* What the mirror's goroutines, the services' sockets and the signal leave to Run.
LEMMA OthersKeep ==
    ASSUME RunInvariant, accepted \in SUBSET accepted',
           UNCHANGED <<run, component, group, started, finished, limitVars, main>>,
           \A s \in {"egress", "ingress"} : serve[s] # "none" => serve'[s] # "none"
    PROVE  RunInvariant'
<1> USE DEF limitVars, RunInvariant
<1>1. RunTypeOK' /\ RunCounts'
  BY DEF RunTypeOK, RunCounts, Owed
<1>2. RunProgress' /\ RunAccepted'
  BY DEF RunProgress, RunAccepted
<1> QED BY <1>1, <1>2

\* Mirror.Start and Mirror.Wait.
LEMMA MirrorMainKeeps ==
    ASSUME SupervisorInvariant, MirrorMain
    PROVE  RunInvariant'
<1> USE DEF SupervisorInvariant, RunInvariant, runVars, limitVars
<1>1. RunTypeOK' /\ RunCounts'
  BY DEF MirrorMain, RunTypeOK, RunCounts, Owed
<1>2. accepted' = accepted
  BY DEF MirrorMain, StartStep, WaitStep, StartServer, StartFails, SkipHealth, WaitEnds, Drain,
     backendVars
<1>3. RunAccepted'
  BY <1>2 DEF MirrorMain, RunAccepted
<1>4. CASE component["mirror"] = "running"
  <2>1. run \notin {"proxy", "mirror"} /\ WaitStep
    BY <1>4 DEF MirrorMain, RunProgress, Components
  <2>2. main' \in {"draining", "returned"} /\ UNCHANGED serve /\ main # "returned"
    BY <2>1 DEF WaitStep, WaitEnds, Drain
  <2> QED BY <1>1, <1>3, <1>4, <2>1, <2>2 DEF MirrorMain, RunProgress
<1>5. CASE component["mirror"] # "running"
  <2>1. run \in {"proxy", "mirror"} /\ component = [c \in Components |-> "none"]
    BY <1>5 DEF MirrorMain, RunProgress
  <2> QED BY <1>1, <1>3, <2>1 DEF MirrorMain, RunProgress, Components, Roles
<1> QED BY <1>4, <1>5

\* startAll: the limits, the mirror and both services, one after the other.
LEMMA StartKeeps ==
    ASSUME SupervisorInvariant,
           \/ SetupLimits \/ MirrorStarted \/ Place
           \/ \E r \in Roles : StartProcess(r) \/ AwaitAccepting(r) \/ LaunchFails(r)
    PROVE  RunInvariant'
<1> USE DEF SupervisorInvariant, RunInvariant, limitVars
<1>1. CASE SetupLimits
  <2>1. /\ run = "limits" /\ run' \in {"mirror", "returned"} /\ limits' \in BOOLEAN
        /\ run' = "returned" => limits' = limits
        /\ run' = "mirror" /\ ~limits' => leaves' = {}
        /\ UNCHANGED <<main, serve, accepted, component, group, started, finished, placed>>
    <3>1. limits' \in BOOLEAN
      BY Zenon, <1>1, ConfigAssumption DEF SetupLimits, RunTypeOK
    <3>2. /\ run = "limits" /\ run' \in {"mirror", "returned"}
          /\ run' = "returned" => limits' = limits
      BY Zenon, <1>1 DEF SetupLimits
    <3>3. UNCHANGED <<main, serve, accepted, component, group, started, finished, placed>>
      BY <1>1 DEF SetupLimits, processVars, mainVars, backendVars
    <3>4. run' = "mirror" /\ ~limits' => leaves' = {}
      BY <1>1 DEF SetupLimits
    <3> QED BY <3>1, <3>2, <3>3, <3>4
  <2>2. main = "egress" /\ ~limits /\ component = [c \in Components |-> "none"]
    BY <2>1 DEF RunProgress
  <2>3. finished = {} /\ started = 0
    BY <2>2 DEF RunCounts, RunTypeOK, Owed, One, Components, Roles
  <2>4. RunTypeOK' /\ RunCounts'
    BY <2>1, <2>2, <2>3 DEF RunTypeOK, RunCounts, Owed, Places
  <2>5. RunProgress' /\ RunAccepted'
    BY <2>1, <2>2 DEF RunProgress, RunAccepted, Components, Roles
  <2> QED BY <2>4, <2>5
<1>2. CASE MirrorStarted
  <2>1. /\ run = "mirror"
        /\ UNCHANGED <<main, serve, accepted, group, finished, limits, leaves, placed>>
    BY <1>2 DEF MirrorStarted, processVars, mainVars, backendVars
  <2>2. component = [c \in Components |-> "none"]
    BY <2>1 DEF RunProgress
  <2>3. CASE /\ main = "waiting" /\ run' = "reference" /\ started' = started + 1
             /\ component' = [component EXCEPT !["mirror"] = "running"]
    <3>1. RunTypeOK' /\ RunCounts'
      BY <2>1, <2>2, <2>3 DEF RunTypeOK, RunCounts, Owed, One, Places, Components, Roles
    <3>2. RunProgress' /\ RunAccepted'
      BY <2>1, <2>2, <2>3 DEF RunProgress, RunAccepted, MirrorInvariant, MirrorCounts, Components,
         Roles
    <3> QED BY <3>1, <3>2
  <2>4. CASE main = "returned" /\ run' = "cancel" /\ UNCHANGED <<component, started>>
    <3>1. RunTypeOK' /\ RunCounts'
      BY <2>1, <2>4 DEF RunTypeOK, RunCounts, Owed, Places
    <3>2. RunProgress' /\ RunAccepted'
      BY <2>1, <2>2, <2>4 DEF RunProgress, RunAccepted, Components, Roles
    <3> QED BY <3>1, <3>2
  <2> QED BY <1>2, <2>3, <2>4 DEF MirrorStarted
<1>3. ASSUME NEW r \in Roles, StartProcess(r) PROVE RunInvariant'
  <2>1. /\ run = r /\ component' = [component EXCEPT ![r] = "running"] /\ group' = group \cup {r}
        /\ started' = started + 1 /\ run' = Awaiting(r)
        /\ UNCHANGED <<main, serve, accepted, finished, limits, leaves, placed>>
    BY <1>3 DEF StartProcess, processVars, mainVars, backendVars
  <2>2. component[r] = "none" /\ component["mirror"] # "none" /\ r \notin finished
    BY <2>1 DEF RunProgress, RunCounts, Roles
  <2>3. RunTypeOK' /\ RunCounts'
    BY <2>1, <2>2 DEF RunTypeOK, RunCounts, Owed, One, Places, Awaiting, Components, Roles
  <2>4. RunProgress' /\ RunAccepted'
    BY <2>1, <2>2 DEF RunTypeOK, RunProgress, RunAccepted, Awaiting, Components, Roles
  <2> QED BY <2>3, <2>4
<1>4. ASSUME NEW r \in Roles, AwaitAccepting(r) PROVE RunInvariant'
  <2>1. /\ run = Awaiting(r) /\ r \in up
        /\ run' = IF r = "reference" THEN "candidate" ELSE "place"
        /\ UNCHANGED <<main, serve, accepted, component, group, started, finished, limits,
                       leaves, placed>>
    BY <1>4 DEF AwaitAccepting, processVars, mainVars, backendVars
  <2>2. r \in accepted
    BY <2>1 DEF MirrorInvariant, MirrorTypeOK
  <2>3. RunTypeOK' /\ RunCounts'
    BY <2>1 DEF RunTypeOK, RunCounts, Owed, Places, Awaiting, Roles
  <2>4. RunProgress' /\ RunAccepted'
    BY <2>1, <2>2 DEF RunProgress, RunAccepted, Awaiting, Roles
  <2> QED BY <2>3, <2>4
<1>5. ASSUME NEW r \in Roles, LaunchFails(r) PROVE RunInvariant'
  <2>1. run \in {r, Awaiting(r)} /\ run' = "cancel"
    BY <1>5 DEF LaunchFails
  <2>2. run \in {"reference", "awaitReference", "candidate", "awaitCandidate"}
    BY <2>1 DEF Awaiting, Roles
  <2>3. UNCHANGED <<main, serve, accepted, component, group, started, finished, limits, leaves,
                    placed>>
    BY Zenon, <1>5 DEF LaunchFails, processVars, mainVars, backendVars
  <2>4. RunTypeOK' /\ RunCounts'
    BY <2>1, <2>2, <2>3 DEF RunTypeOK, RunCounts, Owed, Places
  <2>5. RunProgress' /\ RunAccepted'
    BY <2>1, <2>2, <2>3 DEF RunProgress, RunAccepted
  <2> QED BY <2>4, <2>5
<1>6. CASE Place
  <2>1. /\ run = "place" /\ run' \in {"cancel", "waiting"}
        /\ run' = "waiting" /\ limits => placed' = Roles
        /\ UNCHANGED <<main, serve, accepted, component, group, started, finished, limits,
                       leaves>>
    BY <1>6 DEF Place, processVars, mainVars, backendVars
  <2>2. RunTypeOK' /\ RunCounts'
    BY <2>1 DEF RunTypeOK, RunCounts, Owed, Places
  <2>3. RunProgress' /\ RunAccepted'
    BY <2>1 DEF RunProgress, RunAccepted
  <2> QED BY <2>2, <2>3
<1> QED BY Zenon, <1>1, <1>2, <1>3, <1>4, <1>5, <1>6

\* The exit of a component is received from s.exits.
LEMMA ComponentReceived ==
    ASSUME SupervisorInvariant, NEW c \in finished, TakeExit(c),
           run \in {"waiting", "draining"}, run' \in {"cancel", "draining"},
           UNCHANGED <<main, serve, accepted, component, group, limits, leaves, placed>>
    PROVE  RunInvariant'
<1> USE DEF SupervisorInvariant, RunInvariant
<1>1. c \in Components /\ component[c] = "reaped"
  BY Zenon DEF RunTypeOK, RunCounts
<1>2. finished' = finished \ {c} /\ started' = started - 1
  BY DEF TakeExit
<1>3. started' = (Owed("reference") + Owed("candidate") + Owed("mirror"))'
  BY <1>1, <1>2 DEF RunTypeOK, RunCounts, Owed, One, Components, Roles
<1>4. RunTypeOK' /\ RunCounts'
  BY <1>2, <1>3 DEF RunTypeOK, RunCounts, Places
<1>5. RunProgress' /\ RunAccepted'
  BY DEF RunProgress, RunAccepted
<1> QED BY <1>4, <1>5

\* waitForExit and the deferred cancel, drain and cleanup.
LEMMA EndKeeps ==
    ASSUME SupervisorInvariant,
           WaitForExit \/ CancelRun \/ DrainComponents \/ CleanupLimits
    PROVE  RunInvariant'
<1> USE DEF SupervisorInvariant, RunInvariant, limitVars
<1>1. CASE WaitForExit
  <2>1. /\ run = "waiting" /\ run' = "cancel"
        /\ UNCHANGED <<main, serve, accepted, component, group, limits, leaves, placed>>
    BY <1>1 DEF WaitForExit, processVars, mainVars, backendVars
  <2>2. CASE UNCHANGED <<started, finished>>
    <3>1. RunTypeOK' /\ RunCounts'
      BY <2>1, <2>2 DEF RunTypeOK, RunCounts, Owed, Places
    <3>2. RunProgress' /\ RunAccepted'
      BY <2>1 DEF RunProgress, RunAccepted
    <3> QED BY <3>1, <3>2
  <2>3. CASE \E c \in finished : TakeExit(c)
    BY <2>1, <2>3, ComponentReceived
  <2> QED BY <1>1, <2>2, <2>3 DEF WaitForExit
<1>2. CASE CancelRun
  <2>1. /\ run = "cancel" /\ run' = "draining"
        /\ UNCHANGED <<main, serve, accepted, component, group, started, finished, limits, leaves,
                       placed>>
    BY <1>2 DEF CancelRun, ParentEnds, processVars, mainVars, backendVars
  <2>2. RunTypeOK' /\ RunCounts'
    BY <2>1 DEF RunTypeOK, RunCounts, Owed, Places
  <2>3. RunProgress' /\ RunAccepted'
    BY <2>1 DEF RunProgress, RunAccepted
  <2> QED BY <2>2, <2>3
<1>3. CASE DrainComponents
  <2>1. /\ run = "draining"
        /\ UNCHANGED <<main, serve, accepted, component, group, limits, leaves, placed>>
    BY <1>3 DEF DrainComponents, processVars, mainVars, backendVars
  <2>2. CASE started = 0 /\ run' = "cleanup" /\ UNCHANGED <<started, finished>>
    <3>1. RunTypeOK' /\ RunCounts'
      BY <2>1, <2>2 DEF RunTypeOK, RunCounts, Owed, Places
    <3>2. RunProgress' /\ RunAccepted'
      BY <2>1, <2>2 DEF RunProgress, RunAccepted
    <3> QED BY <3>1, <3>2
  <2>3. CASE (\E c \in finished : TakeExit(c)) /\ UNCHANGED run
    BY <2>1, <2>3, ComponentReceived
  <2> QED BY <1>3, <2>2, <2>3 DEF DrainComponents
<1>4. CASE CleanupLimits
  <2>1. /\ run = "cleanup" /\ run' = "returned"
        /\ leaves' \in IF limits THEN cleanup ELSE {leaves}
        /\ UNCHANGED <<main, serve, accepted, component, group, started, finished, limits,
                       placed>>
    BY <1>4 DEF CleanupLimits, processVars, mainVars, backendVars
  <2>4. leaves' \subseteq placed
    BY <2>1 DEF RunCounts, cleanup
  <2>5. RunTypeOK' /\ RunCounts'
    BY <2>1, <2>4 DEF RunTypeOK, RunCounts, Owed, Places
  <2>6. RunProgress' /\ RunAccepted'
    BY <2>1 DEF RunProgress, RunAccepted
  <2> QED BY <2>5, <2>6
<1> QED BY Zenon, <1>1, <1>2, <1>3, <1>4

\* A service's process exits and is reaped, and the mirror's Wait returns.
LEMMA ComponentsKeep ==
    ASSUME SupervisorInvariant,
           MirrorExits \/ \E r \in Roles : ProcessExits(r) \/ Reap(r)
    PROVE  RunInvariant'
<1> USE DEF SupervisorInvariant, RunInvariant, limitVars
<1>1. ASSUME NEW r \in Roles, ProcessExits(r) PROVE RunInvariant'
  <2>1. /\ component[r] = "running" /\ component' = [component EXCEPT ![r] = "exited"]
        /\ group' \in SUBSET group
        /\ UNCHANGED <<main, serve, accepted, run, started, finished, limits, leaves, placed>>
    BY <1>1 DEF ProcessExits, mainVars
  <2>2. RunTypeOK' /\ RunCounts'
    BY <2>1 DEF RunTypeOK, RunCounts, Owed, One, Places, Components, Roles
  <2>3. RunProgress' /\ RunAccepted'
    BY <2>1 DEF RunTypeOK, RunProgress, RunAccepted, Components, Roles
  <2> QED BY <2>2, <2>3
<1>2. ASSUME NEW r \in Roles, Reap(r) PROVE RunInvariant'
  <2>1. /\ component[r] = "exited" /\ component' = [component EXCEPT ![r] = "reaped"]
        /\ group' = group \ {r} /\ finished' = finished \cup {r}
        /\ UNCHANGED <<main, serve, accepted, run, started, limits, leaves, placed>>
    BY <1>2 DEF Reap, mainVars
  <2>2. RunTypeOK' /\ RunCounts'
    BY <2>1 DEF RunTypeOK, RunCounts, Owed, One, Places, Components, Roles
  <2>3. RunProgress' /\ RunAccepted'
    BY <2>1 DEF RunTypeOK, RunProgress, RunAccepted, Components, Roles
  <2> QED BY <2>2, <2>3
<1>3. CASE MirrorExits
  <2>1. /\ component["mirror"] = "running" /\ main = "returned"
        /\ component' = [component EXCEPT !["mirror"] = "reaped"]
        /\ finished' = finished \cup {"mirror"}
        /\ UNCHANGED <<main, serve, accepted, run, group, started, limits, leaves, placed>>
    BY <1>3 DEF MirrorExits, processVars, mainVars, backendVars
  <2>2. RunTypeOK' /\ RunCounts'
    BY <2>1 DEF RunTypeOK, RunCounts, Owed, One, Places, Components, Roles
  <2>3. RunProgress' /\ RunAccepted'
    BY <2>1 DEF RunTypeOK, RunProgress, RunAccepted, Components, Roles
  <2> QED BY <2>2, <2>3
<1> QED BY Zenon, <1>1, <1>2, <1>3

\* Every step of Run, of the mirror, of a service and of the caller keeps the invariant.
LEMMA SupervisorSteps ==
    ASSUME SupervisorInvariant, [SupervisorNext]_allVars
    PROVE  SupervisorInvariant'
<1> USE DEF SupervisorInvariant
<1>1. CASE \/ SetupLimits \/ MirrorStarted \/ Place
           \/ \E r \in Roles : StartProcess(r) \/ AwaitAccepting(r) \/ LaunchFails(r)
  <2>1. UNCHANGED processVars
    BY Zenon, <1>1 DEF SetupLimits, MirrorStarted, Place, StartProcess, AwaitAccepting,
       LaunchFails
  <2> QED BY Zenon, <1>1, <2>1, StartKeeps, SurroundingsKeep
<1>2. CASE WaitForExit \/ CancelRun \/ DrainComponents \/ CleanupLimits
  <2>1. ParentEnds \/ UNCHANGED processVars
    BY Zenon, <1>2 DEF WaitForExit, CancelRun, DrainComponents, CleanupLimits
  <2> QED BY Zenon, <1>2, <2>1, EndKeeps, SurroundingsKeep
<1>3. CASE MirrorExits \/ \E r \in Roles : ProcessExits(r) \/ Reap(r)
  <2>1. \/ UNCHANGED processVars
        \/ up' \in SUBSET up /\ UNCHANGED <<mainVars, serve, ready, ingressVars, health,
                                            reflection, accepted, mirrored>>
    BY <1>3 DEF MirrorExits, ProcessExits, Reap
  <2> QED BY Zenon, <1>3, <2>1, ComponentsKeep, SurroundingsKeep
<1>4. CASE MirrorMain
  <2>1. MainStep
    BY Zenon, <1>4 DEF MirrorMain, MainStep, StartStep, WaitStep
  <2> QED BY Zenon, <1>4, <2>1, MainKeeps, MirrorMainKeeps
<1>5. CASE MirrorServes \/ ServerFails
  <2>1. MirrorInvariant'
    BY Zenon, <1>5, ServeKeeps, BackgroundKeeps DEF MirrorServes, ServerFails
  <2>2. UNCHANGED <<run, component, group, started, finished, limitVars>>
    BY <1>5 DEF MirrorServes, ServerFails, runVars
  <2>3. CASE BackgroundStep
    <3>1. UNCHANGED <<main, serve, accepted>>
      BY <2>3 DEF BackgroundStep, AwaitReference, SchemaFails, SetDecoder, CheckContext, SetReady,
         CandidateAccepts, CandidateMissing, mainVars, backendVars
    <3> QED BY <2>1, <2>2, <3>1, OthersKeep
  <2>4. ASSUME NEW s \in Servers, ServeStep(s) \/ ListenerFails(s) PROVE RunInvariant'
    <3>1. /\ UNCHANGED <<main, accepted>>
          /\ \E state \in Serves \ {"none"} : serve' = [serve EXCEPT ![s] = state]
      BY <2>4 DEF ServeStep, StartBindings, LifecycleStart, Cancelled, ListenerFails, StopServer,
         ShutDown, Exit, Serves, mainVars, backendVars
    <3>2. \A t \in {"egress", "ingress"} : serve[t] # "none" => serve'[t] # "none"
      BY <3>1 DEF MirrorInvariant, MirrorTypeOK, Servers
    <3> QED BY <2>2, <3>1, <3>2, OthersKeep
  <2> QED BY Zenon, <1>5, <2>1, <2>3, <2>4 DEF MirrorServes, ServerFails
<1>6. CASE \/ Signal \/ UNCHANGED allVars
           \/ \E r \in Roles : ServiceAccepts(r) \/ ElsewhereAccepts(r)
  <2>1. \/ ParentEnds \/ UNCHANGED processVars
        \/ \E b \in {"reference", "candidate"} : BackendAccepts(b)
    BY Zenon, <1>6 DEF Signal, ServiceAccepts, ElsewhereAccepts, allVars, Roles
  <2>2. UNCHANGED <<run, component, group, started, finished, limitVars>>
    BY <1>6 DEF Signal, ServiceAccepts, ElsewhereAccepts, allVars, runVars
  <2>3. UNCHANGED <<main, serve>> /\ accepted \in SUBSET accepted'
    BY <2>1 DEF ParentEnds, BackendAccepts, processVars, mainVars, backendVars
  <2>4. MirrorInvariant'
    BY Zenon, <2>1, SurroundingsKeep
  <2> QED BY <2>2, <2>3, <2>4, OthersKeep
<1> QED
  BY Zenon, <1>1, <1>2, <1>3, <1>4, <1>5, <1>6
     DEF SupervisorNext, ProgramStep, RunStep, Terminate, Done

\* The invariant says how many servers and components are left: none once Run has returned.
LEMMA NothingIsLeft == ASSUME SupervisorInvariant PROVE ServicesContained
<1> USE DEF SupervisorInvariant, MirrorInvariant, RunInvariant
<1>1. Cardinality(exits) = Among("egress", "ingress", "health", exits)
  <2>1. exits \in SUBSET {"egress", "ingress", "health"}
    BY Zenon DEF MirrorTypeOK, Servers
  <2>2. \A T \in SUBSET {"egress", "ingress", "health"} :
           Cardinality(T) = Among("egress", "ingress", "health", T)
    BY Zenon, CountsThree
  <2> QED BY Zenon, <2>1, <2>2
<1> DEFINE serving == {s \in Servers : serve[s] \notin {"none", "exited"}}
           alive == {c \in Components : component[c] \in {"running", "exited"}}
<1>2. Cardinality(serving) = Among("egress", "ingress", "health", serving)
  BY CountsThree DEF Servers
<1>3. running = Cardinality(serving) + Cardinality(exits)
  <2>1. Unread("egress") + Unread("ingress") + Unread("health") =
           Among("egress", "ingress", "health", serving)
              + Among("egress", "ingress", "health", exits)
    BY DEF Unread, Among, One, Servers
  <2> QED BY <1>1, <1>2, <2>1 DEF MirrorCounts
<1>4. Cardinality(finished) = Among("reference", "candidate", "mirror", finished)
  BY CountsThree DEF RunTypeOK, Components, Roles
<1>5. Cardinality(alive) = Among("reference", "candidate", "mirror", alive)
  BY CountsThree DEF Components, Roles
<1>6. started = Cardinality(alive) + Cardinality(finished)
  <2>1. Owed("reference") + Owed("candidate") + Owed("mirror") =
           Among("reference", "candidate", "mirror", alive)
              + Among("reference", "candidate", "mirror", finished)
    BY DEF Owed, Among, One, Components, Roles
  <2> QED BY <1>4, <1>5, <2>1 DEF RunCounts
<1>7. ASSUME running = 0
      PROVE  exits = {} /\ \A s \in Servers : serve[s] \in {"none", "exited"}
  BY <1>7 DEF MirrorTypeOK, MirrorCounts, Unread, One, Servers
<1>8. ASSUME run = "returned"
      PROVE  /\ finished = {} /\ group = {}
             /\ \A c \in Components : component[c] \in {"none", "reaped"}
             /\ \A s \in Servers : serve[s] \in {"none", "exited"}
             /\ leaves \subseteq placed \/ (~limits /\ \A c \in Components : component[c] = "none")
  <2>1. /\ started = 0
        /\ leaves \subseteq placed \/ (~limits /\ \A c \in Components : component[c] = "none")
    BY <1>8 DEF RunCounts
  <2>2. finished = {} /\ \A c \in Components : component[c] \in {"none", "reaped"}
    BY <2>1 DEF RunTypeOK, RunCounts, Owed, One, Components, Roles
  <2>3. group = {}
    BY <2>2 DEF RunTypeOK, RunCounts, Components, Roles
  <2>4. main \in {"egress", "returned"}
    BY <1>8, <2>2 DEF RunProgress, Components
  <2>5. \A s \in Servers : serve[s] \in {"none", "exited"}
    BY <1>7, <2>4 DEF MirrorCounts, Servers
  <2> QED BY <2>1, <2>2, <2>3, <2>5
<1>9. DrainsAll
  BY <1>3, <1>7 DEF DrainsAll, MirrorCounts
<1>10. NothingOutlives
  BY <1>6, <1>8 DEF NothingOutlives, RunTypeOK
<1> QED BY <1>9, <1>10 DEF ServicesContained

\* supervise.Run (internal/supervisor) and Mirror.Run (internal/proxies): with or without
\* reflection and limits, whatever fails, exits or is signalled and whenever, each drains
\* exactly what it has started: no server and no service outlives the command, every process
\* of a service's group was sent SIGKILL, and a cgroup is only left with such a process in
\* it, or by a setupLimits that failed before anything was started.
THEOREM ServicesAreContained == SupervisorSpec => []ServicesContained
BY SupervisorStarts, SupervisorSteps, NothingIsLeft, PTL DEF SupervisorSpec

\* startAll: proxies listen before services start, the reference accepts before the candidate
\* starts, and ingress is ready only with a decoder and the backends it needs.
THEOREM StartsAreOrdered == SupervisorSpec => []StartedInOrder
<1>1. ASSUME SupervisorInvariant PROVE StartedInOrder
  <2> USE DEF SupervisorInvariant, MirrorInvariant, RunInvariant
  <2>1. StartOrder
    <3>1. \A r \in Roles : component[r] # "none" =>
             serve["egress"] # "none" /\ serve["ingress"] # "none"
      BY Zenon, <1>1 DEF RunProgress
    <3>2. ASSUME run = "waiting" PROVE accepted = Roles /\ (limits => placed = Roles)
      BY Zenon, <1>1, <3>2 DEF MirrorTypeOK, RunAccepted, Roles
    <3>3. component["candidate"] # "none" => "reference" \in accepted
      BY Zenon, <1>1 DEF RunAccepted
    <3> QED BY Zenon, <3>1, <3>2, <3>3 DEF StartOrder
  <2> QED BY <1>1, <2>1 DEF MirrorConfigures, StartedInOrder
<1> QED BY <1>1, SupervisorStarts, SupervisorSteps, PTL DEF SupervisorSpec

=============================================================================
