---------------------------- MODULE MirrorProcess ----------------------------
(***************************************************************************)
(* The life of a mirror: internal/proxies/mirror.go starts the egress,     *)
(* ingress and health servers and drains them; httpserver.Serve            *)
(* (internal/httpserver/serve.go) runs each of them; ingress waits for its *)
(* backends in a goroutine (internal/httpserver/ingress.go).               *)
(*                                                                         *)
(* One action is one step of the main goroutine, of a Serve call, or of    *)
(* awaitBackends, up to its next access of state that another one uses.    *)
(***************************************************************************)
EXTENDS Integers, FiniteSets

VARIABLES
    parent,      \* the context given to Start and Wait is done
    ctx,         \* the context of the proxies is done
    main,        \* the main goroutine
    running,     \* m.running
    exits,       \* servers with an exit in the channel m.exits
    serve,       \* the Serve call of each server
    ready,       \* the readiness flags of both proxies
    background,  \* ingress.awaitBackends
    decoder,     \* ingress.decoder is set
    awaiting,    \* ingress.awaitingCandidate
    quarantine,  \* awaitCandidate has quarantined the candidate
    health,      \* the wiring asks for a health listener
    reflection,  \* config.Reflection
    up,          \* backends that accept connections
    accepted,    \* backends that have accepted connections
    mirrored     \* some request was mirrored

mainVars == <<parent, ctx, main, running, exits>>
ingressVars == <<background, decoder, awaiting, quarantine>>
backendVars == <<health, reflection, up, accepted, mirrored>>
processVars == <<mainVars, serve, ready, ingressVars, backendVars>>

Servers == {"egress", "ingress", "health"}

MirrorInit ==
    /\ parent = FALSE /\ ctx = FALSE
    /\ main = "egress"
    /\ running = 0
    /\ exits = {}
    /\ serve = [s \in Servers |-> "none"]
    /\ ready = [s \in {"egress", "ingress"} |-> FALSE]
    /\ background = "none"
    /\ decoder = FALSE
    /\ awaiting = FALSE
    /\ quarantine = FALSE
    /\ health \in BOOLEAN /\ reflection \in BOOLEAN
    /\ up = {} /\ accepted = {}
    /\ mirrored = FALSE

-----------------------------------------------------------------------------
(* The environment.                                                        *)

ParentEnds ==
    /\ ~parent
    /\ parent' = TRUE /\ ctx' = TRUE
    /\ UNCHANGED <<main, running, exits, serve, ready, ingressVars, backendVars>>

BackendAccepts(b) ==
    /\ b \notin up
    /\ up' = up \cup {b} /\ accepted' = accepted \cup {b}
    /\ UNCHANGED <<mainVars, serve, ready, ingressVars, health, reflection, mirrored>>

-----------------------------------------------------------------------------
(* Mirror.Start, Wait and drain.                                           *)

\* What startAll does after it has started server s.
After(s) == [egress |-> "ingress", ingress |-> "health", health |-> "waiting"][s]

\* startEgress, startIngress or startHealth opens the listeners and serves them in the
\* background.
StartServer(s) ==
    /\ main = s
    /\ s = "health" => health
    /\ serve' = [serve EXCEPT ![s] = "starting"]
    /\ running' = running + 1
    /\ main' = After(s)
    /\ UNCHANGED <<parent, ctx, exits, ready, ingressVars, backendVars>>

\* The wiring asks for no health listener.
SkipHealth ==
    /\ main = "health" /\ ~health
    /\ main' = "waiting"
    /\ UNCHANGED <<parent, ctx, running, exits, serve, ready, ingressVars, backendVars>>

\* Its configuration or a listener fails: Start cancels what runs and drains it.
StartFails(s) ==
    /\ main = s
    /\ s = "health" => health
    /\ main' = "draining"
    /\ ctx' = TRUE
    /\ UNCHANGED <<parent, running, exits, serve, ready, ingressVars, backendVars>>

\* Wait: the context ends or a proxy exits; the deferred cancel follows.
WaitEnds ==
    /\ main = "waiting"
    /\ \/ parent /\ UNCHANGED <<running, exits>>
       \/ \E s \in exits : exits' = exits \ {s} /\ running' = running - 1
    /\ ctx' = TRUE
    /\ main' = "draining"
    /\ UNCHANGED <<parent, serve, ready, ingressVars, backendVars>>

\* drain receives an exit for each running server.
Drain ==
    /\ main = "draining"
    /\ \/ /\ running > 0
          /\ \E s \in exits : exits' = exits \ {s} /\ running' = running - 1
          /\ UNCHANGED main
       \/ /\ running = 0
          /\ main' = "returned"
          /\ UNCHANGED <<running, exits>>
    /\ UNCHANGED <<parent, ctx, serve, ready, ingressVars, backendVars>>

-----------------------------------------------------------------------------
(* httpserver.Serve.                                                       *)

\* Every binding starts, so its listener is served before lifecycle.start.
StartBindings(s) ==
    /\ serve[s] = "starting"
    /\ serve' = [serve EXCEPT ![s] = "accepting"]
    /\ UNCHANGED <<mainVars, ready, ingressVars, backendVars>>

\* Egress waits for no backend.
ReadyOnStart(s) == s = "egress"

\* lifecycle.start: egress is ready at once; ingress holds mirroring and waits for its
\* backends in the background.
LifecycleStart(s) ==
    /\ serve[s] = "accepting"
    /\ serve' = [serve EXCEPT ![s] = "serving"]
    /\ ready' = [p \in DOMAIN ready |-> ready[p] \/ (p = s /\ ReadyOnStart(s))]
    /\ awaiting' = (awaiting \/ s = "ingress")
    /\ background' = IF s = "ingress" THEN "reference" ELSE background
    /\ UNCHANGED <<mainVars, decoder, quarantine, backendVars>>

\* lifecycle.stop marks a proxy unready; the health server has nothing to mark.
StopServer(s) ==
    /\ serve[s] = "serving"
    /\ ready' = [p \in DOMAIN ready |-> p # s /\ ready[p]]
    /\ serve' = [serve EXCEPT ![s] = "stopping"]
    /\ UNCHANGED <<mainVars, ingressVars, backendVars>>

\* The select of Serve sees the proxies' context done.
Cancelled(s) ==
    /\ ctx
    /\ StopServer(s)

\* The select of Serve sees that a listener's server has failed.
ListenerFails(s) == StopServer(s)

\* The HTTP servers shut down, within the shutdown timeout, and the lifecycle drains.
ShutDown(s) ==
    /\ serve[s] = "stopping"
    /\ serve' = [serve EXCEPT ![s] = "drained"]
    /\ UNCHANGED <<mainVars, ready, ingressVars, backendVars>>

\* Serve returns and its goroutine sends the exit.
Exit(s) ==
    /\ serve[s] = "drained"
    /\ serve' = [serve EXCEPT ![s] = "exited"]
    /\ exits' = exits \cup {s}
    /\ UNCHANGED <<parent, ctx, main, running, ready, ingressVars, backendVars>>

-----------------------------------------------------------------------------
(* Ingress: the handler, and awaitBackends with awaitCandidate and         *)
(* configureSchema.                                                        *)

\* A request is mirrored unless the candidate is awaited or quarantined.
MirrorRequest ==
    /\ serve["ingress"] \in {"accepting", "serving", "stopping"}
    /\ ~awaiting /\ ~quarantine
    /\ ~mirrored
    /\ mirrored' = TRUE
    /\ UNCHANGED <<mainVars, serve, ready, ingressVars, health, reflection, up, accepted>>

\* A dial under a context that is done fails.
AwaitReference ==
    /\ background = "reference"
    /\ \/ ctx /\ background' = "ended"
       \/ /\ ~ctx /\ "reference" \in up
          /\ background' = IF reflection THEN "candidate" ELSE "schema"
    /\ UNCHANGED <<mainVars, serve, ready, decoder, awaiting, quarantine, backendVars>>

\* What awaitBackends does after configureSchema.
AfterSchema == IF reflection THEN "ended" ELSE "candidate"

\* The descriptors cannot be loaded, differ or conflict, or message.New fails.
SchemaFails ==
    /\ background = "schema"
    /\ background' = AfterSchema
    /\ UNCHANGED <<mainVars, serve, ready, decoder, awaiting, quarantine, backendVars>>

SetDecoder ==
    /\ background = "schema"
    /\ decoder' = TRUE
    /\ background' = "decoder"
    /\ UNCHANGED <<mainVars, serve, ready, awaiting, quarantine, backendVars>>

CheckContext ==
    /\ background = "decoder"
    /\ background' = IF ctx THEN AfterSchema ELSE "readying"
    /\ UNCHANGED <<mainVars, serve, ready, decoder, awaiting, quarantine, backendVars>>

SetReady ==
    /\ background = "readying"
    /\ ready' = [ready EXCEPT !["ingress"] = TRUE]
    /\ background' = AfterSchema
    /\ UNCHANGED <<mainVars, serve, decoder, awaiting, quarantine, backendVars>>

\* Mutant: the flag is left set.
CandidateAcceptsHeld ==
    /\ background = "candidate"
    /\ ~ctx /\ "candidate" \in up
    /\ background' = "ended"
    /\ UNCHANGED <<mainVars, serve, ready, decoder, awaiting, quarantine, backendVars>>

CandidateAccepts ==
    /\ background = "candidate"
    /\ ~ctx /\ "candidate" \in up
    /\ awaiting' = FALSE
    /\ background' = IF reflection THEN "schema" ELSE "ended"
    /\ UNCHANGED <<mainVars, serve, ready, decoder, quarantine, backendVars>>

\* The proxies' context is done, or the startup timeout has passed.
CandidateMissing ==
    /\ background = "candidate"
    /\ quarantine' = ~ctx
    /\ background' = "ended"
    /\ UNCHANGED <<mainVars, serve, ready, decoder, awaiting, backendVars>>

-----------------------------------------------------------------------------
StartStep ==
    \/ \E s \in Servers : StartServer(s)
    \/ \E s \in Servers : StartFails(s)
    \/ SkipHealth
    \/ Drain

WaitStep == WaitEnds \/ Drain

MainStep == StartStep \/ WaitEnds

ServeStep(s) ==
    \/ StartBindings(s)
    \/ LifecycleStart(s)
    \/ Cancelled(s)
    \/ ShutDown(s)
    \/ Exit(s)

BackgroundStep ==
    \/ AwaitReference
    \/ SchemaFails
    \/ SetDecoder
    \/ CheckContext
    \/ SetReady
    \/ CandidateAccepts
    \/ CandidateMissing

\* The mirror and its goroutines have ended.
Terminated ==
    /\ main = "returned"
    /\ background \in {"none", "ended"}
    /\ UNCHANGED processVars

MirrorNext ==
    \/ ParentEnds
    \/ \E b \in {"reference", "candidate"} : BackendAccepts(b)
    \/ MainStep
    \/ \E s \in Servers : ServeStep(s)
    \/ \E s \in Servers : ListenerFails(s)
    \/ MirrorRequest
    \/ BackgroundStep
    \/ Terminated

MirrorSpec == MirrorInit /\ [][MirrorNext]_processVars

-----------------------------------------------------------------------------
Serves == {"none", "starting", "accepting", "serving", "stopping", "drained", "exited"}

\* Every variable has its type.
MirrorTypeOK ==
    /\ parent \in BOOLEAN /\ ctx \in BOOLEAN
    /\ main \in Servers \cup {"waiting", "draining", "returned"}
    /\ running \in 0..3
    /\ exits \subseteq Servers
    /\ serve \in [Servers -> Serves]
    /\ ready \in [{"egress", "ingress"} -> BOOLEAN]
    /\ background \in {"none", "reference", "schema", "decoder", "readying", "candidate", "ended"}
    /\ decoder \in BOOLEAN /\ awaiting \in BOOLEAN /\ quarantine \in BOOLEAN
    /\ health \in BOOLEAN /\ reflection \in BOOLEAN
    /\ up \subseteq accepted /\ accepted \subseteq {"reference", "candidate"}
    /\ mirrored \in BOOLEAN

\* m.running counts the servers whose exit has not been received, so that drain waits
\* for every server and never for an exit that does not come, and once Start has failed
\* or Wait has returned no server is left running and no exit unread.
DrainsAll ==
    /\ MirrorTypeOK
    /\ running = Cardinality({s \in Servers : serve[s] \notin {"none", "exited"}}) + Cardinality(exits)
    /\ main = "returned" => exits = {} /\ \A s \in Servers : serve[s] \in {"none", "exited"}

\* Ingress reports ready only with a decoder and an accepting reference and, when the
\* schema is reflected, only once the candidate has accepted and is mirrored to.
ReadyMeansConfigured ==
    ready["ingress"] =>
        /\ decoder /\ "reference" \in accepted
        /\ reflection => "candidate" \in accepted /\ ~awaiting

\* CONTRIBUTING.md: ingress "mirrors nothing until the candidate first accepts a
\* connection". Listeners are served before lifecycle.start sets awaitingCandidate.
MirrorsNothingBeforeAccept == mirrored => "candidate" \in accepted

\* Once ingress waits for its backends and both accept, it mirrors, unless the candidate
\* took longer than its startup timeout or the mirror is stopping.
MirroringStarts ==
    (background # "none" /\ up = {"reference", "candidate"}) ~> (~awaiting \/ quarantine \/ ctx)

=============================================================================
