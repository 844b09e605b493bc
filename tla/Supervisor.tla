----------------------------- MODULE Supervisor -----------------------------
(***************************************************************************)
(* The two ways a mirror runs: as a proxy of services that run elsewhere   *)
(* (proxies.NewProxy and Mirror.Run), and under the supervisor             *)
(* (internal/supervisor), which starts the mirror and both services,       *)
(* splits the resources between them and stops everything when one part    *)
(* ends.  The mirror is that of MirrorProcess, whose caller's context is   *)
(* the supervisor's runCtx.                                                *)
(*                                                                         *)
(* One action is a step of the goroutine in Supervisor.Run, of a goroutine *)
(* that waits for a component, or of a service's process.                  *)
(***************************************************************************)
EXTENDS MirrorProcess

CONSTANTS
    Reflected,  \* bound: values of config.Mirror.Reflection under the supervisor
    Limited     \* bound: values of config.Limits.Enabled

ASSUME ConfigAssumption == Reflected \subseteq BOOLEAN /\ Limited \subseteq BOOLEAN

Roles == {"reference", "candidate"}
Components == Roles \cup {"mirror"}

VARIABLES
    run,        \* where Run is, or "proxy" when the mirror runs without a supervisor
    signalled,  \* the context of Run is done
    component,  \* how far each component is
    group,      \* services whose process group has a process that was not sent SIGKILL
    started,    \* s.running
    finished,   \* components with an exit in the channel s.exits
    limits,     \* s.limits is set
    leaves,     \* service cgroups that exist
    placed      \* services whose process was moved into its cgroup

limitVars == <<limits, leaves, placed>>
runVars == <<run, signalled, component, group, started, finished, limitVars>>
allVars == <<processVars, runVars>>

SupervisorInit ==
    /\ MirrorInit
    /\ \/ health /\ run = "proxy"
       \/ ~health /\ run = "limits" /\ reflection \in Reflected
    /\ signalled = FALSE
    /\ component = [c \in Components |-> "none"]
    /\ group = {}
    /\ started = 0 /\ finished = {}
    /\ limits = FALSE /\ leaves = {} /\ placed = {}

-----------------------------------------------------------------------------
(* Supervisor.Run.                                                         *)

\* The caller's context ends, and with it runCtx and the context of the proxies.
Signal ==
    /\ ~signalled
    /\ signalled' = TRUE
    /\ ParentEnds \/ (parent /\ UNCHANGED processVars)
    /\ UNCHANGED <<run, component, group, started, finished, limitVars>>

\* Where control.limit may have stopped: the candidate's leaf is made first.
limit == {{}, {"candidate"}, Roles}

\* setupLimits: both service leaves, none without limits. An error leaves the leaves it
\* has made and s.limits unset.
SetupLimits ==
    /\ run = "limits"
    /\ \/ limits' \in Limited /\ leaves' = {r \in Roles : limits'} /\ run' = "mirror"
       \/ TRUE \in Limited /\ leaves' \in limit /\ run' = "returned" /\ UNCHANGED limits
    /\ UNCHANGED <<processVars, signalled, component, group, started, finished, placed>>

\* Mirror.Start returns: its Wait runs in a goroutine, or startAll fails.
MirrorStarted ==
    /\ run = "mirror"
    /\ \/ /\ main = "waiting"
          /\ component' = [component EXCEPT !["mirror"] = "running"]
          /\ started' = started + 1
          /\ run' = "reference"
       \/ /\ main = "returned"
          /\ run' = "cancel"
          /\ UNCHANGED <<component, started>>
    /\ UNCHANGED <<processVars, signalled, group, finished, limitVars>>

\* Run is in launchService, waiting for the service to listen.
Awaiting(r) == [reference |-> "awaitReference", candidate |-> "awaitCandidate"][r]

\* launchService starts the process, whose exit a goroutine waits for.
StartProcess(r) ==
    /\ run = r
    /\ ~parent
    /\ component' = [component EXCEPT ![r] = "running"]
    /\ group' = group \cup {r}
    /\ started' = started + 1
    /\ run' = Awaiting(r)
    /\ UNCHANGED <<processVars, signalled, finished, limitVars>>

\* Mutant: a service that never listens is passed over.
AwaitUnchecked(r) ==
    /\ run = Awaiting(r)
    /\ run' = IF r = "reference" THEN "candidate" ELSE "place"
    /\ UNCHANGED <<processVars, signalled, component, group, started, finished, limitVars>>

\* launchService waits until the service listens, then the next one is started.
AwaitAccepting(r) ==
    /\ run = Awaiting(r)
    /\ ~parent /\ r \in up
    /\ run' = IF r = "reference" THEN "candidate" ELSE "place"
    /\ UNCHANGED <<processVars, signalled, component, group, started, finished, limitVars>>

\* The process does not start, or it does not listen before the startup timeout or the
\* end of runCtx: startAll fails.
LaunchFails(r) ==
    /\ run \in {r, Awaiting(r)}
    /\ run' = "cancel"
    /\ UNCHANGED <<processVars, signalled, component, group, started, finished, limitVars>>

\* Each service's process is moved into its leaf; a failure fails startAll.
Place ==
    /\ run = "place"
    /\ placed' \in IF limits THEN {{}, {"reference"}, Roles} ELSE {{}}
    /\ run' = IF limits /\ placed' # Roles THEN "cancel" ELSE "waiting"
    /\ UNCHANGED <<processVars, signalled, component, group, started, finished, limits, leaves>>

\* An exit is received.
TakeExit(c) ==
    /\ c \in finished
    /\ finished' = finished \ {c}
    /\ started' = started - 1

\* waitForExit, until the signal or the exit of a component.
WaitForExit ==
    /\ run = "waiting"
    /\ \/ signalled /\ UNCHANGED <<started, finished>>
       \/ \E c \in finished : TakeExit(c)
    /\ run' = "cancel"
    /\ UNCHANGED <<processVars, signalled, component, group, limitVars>>

\* Mutant: a failed start leaves runCtx open.
CancelOnSignal ==
    /\ run = "cancel"
    /\ run' = "draining"
    /\ UNCHANGED <<processVars, signalled, component, group, started, finished, limitVars>>

\* The deferred cancel of runCtx.
CancelRun ==
    /\ run = "cancel"
    /\ run' = "draining"
    /\ ParentEnds \/ (parent /\ UNCHANGED processVars)
    /\ UNCHANGED <<signalled, component, group, started, finished, limitVars>>

\* The deferred drain receives an exit for each component that was started.
DrainComponents ==
    /\ run = "draining"
    /\ \/ started > 0 /\ (\E c \in finished : TakeExit(c)) /\ UNCHANGED run
       \/ started = 0 /\ run' = "cleanup" /\ UNCHANGED <<started, finished>>
    /\ UNCHANGED <<processVars, signalled, component, group, limitVars>>

\* What control.cleanup may leave: a cgroup with a process in it cannot be removed, nor one
\* with a process that SIGKILL has not ended yet.
cleanup == {kept \in SUBSET (leaves \cap placed) : leaves \cap placed \cap group \subseteq kept}

\* The deferred cleanupLimits.
CleanupLimits ==
    /\ run = "cleanup"
    /\ leaves' \in IF limits THEN cleanup ELSE {leaves}
    /\ run' = "returned"
    /\ UNCHANGED <<processVars, signalled, component, group, started, finished, limits, placed>>

-----------------------------------------------------------------------------
(* The components.                                                         *)

\* The service listens.
ServiceAccepts(r) ==
    /\ r \in group
    /\ BackendAccepts(r)
    /\ UNCHANGED runVars

\* The process exits, leaving processes it started or not.
ProcessExits(r) ==
    /\ component[r] = "running"
    /\ component' = [component EXCEPT ![r] = "exited"]
    /\ group' \in {group, group \ {r}}
    /\ up' = up \cap group'
    /\ UNCHANGED <<mainVars, serve, ready, ingressVars, health, reflection, accepted, mirrored>>
    /\ UNCHANGED <<run, signalled, started, finished, limitVars>>

\* runCtx is done: SIGTERM, then SIGKILL after the shutdown timeout, ends the process.
Terminate(r) == parent /\ ProcessExits(r)

\* Mutant: what the process started is left.
ReapLeader(r) ==
    /\ component[r] = "exited"
    /\ component' = [component EXCEPT ![r] = "reaped"]
    /\ finished' = finished \cup {r}
    /\ UNCHANGED <<processVars, run, signalled, group, started, limitVars>>

\* managedProcess.wait sends SIGKILL to the group and returns, whether or not that has
\* taken effect; its goroutine sends the exit.
Reap(r) ==
    /\ component[r] = "exited"
    /\ component' = [component EXCEPT ![r] = "reaped"]
    /\ group' = group \ {r}
    /\ up' = up \ {r}
    /\ finished' = finished \cup {r}
    /\ UNCHANGED <<mainVars, serve, ready, ingressVars, health, reflection, accepted, mirrored>>
    /\ UNCHANGED <<run, signalled, started, limitVars>>

\* Mirror.Wait returns and its goroutine sends the exit.
MirrorExits ==
    /\ component["mirror"] = "running"
    /\ main = "returned"
    /\ component' = [component EXCEPT !["mirror"] = "reaped"]
    /\ finished' = finished \cup {"mirror"}
    /\ UNCHANGED <<processVars, run, signalled, group, started, limitVars>>

\* Mirror.Start within Run, and Mirror.Wait in its goroutine.
MirrorMain ==
    /\ \/ run \in {"proxy", "mirror"} /\ StartStep
       \/ (run = "proxy" \/ component["mirror"] = "running") /\ WaitStep
    /\ UNCHANGED runVars

-----------------------------------------------------------------------------
RunStep ==
    \/ SetupLimits
    \/ MirrorStarted
    \/ \E r \in Roles : StartProcess(r) \/ AwaitAccepting(r) \/ LaunchFails(r)
    \/ Place
    \/ WaitForExit
    \/ CancelRun
    \/ DrainComponents
    \/ CleanupLimits

\* The mirror's other goroutines.
MirrorServes ==
    /\ (\E s \in Servers : ServeStep(s)) \/ BackgroundStep
    /\ UNCHANGED runVars

ServerFails ==
    /\ \E s \in Servers : ListenerFails(s)
    /\ UNCHANGED runVars

\* A service that runs elsewhere listens.
ElsewhereAccepts(r) ==
    /\ run = "proxy"
    /\ BackendAccepts(r)
    /\ UNCHANGED runVars

\* The command has returned.
Returned == run = "returned" \/ (run = "proxy" /\ main = "returned")

Done ==
    /\ Returned
    /\ background \in {"none", "ended"}
    /\ UNCHANGED allVars

\* What the program does by itself, and the services' processes once runCtx is done.
ProgramStep ==
    \/ RunStep
    \/ \E r \in Roles : Terminate(r) \/ Reap(r)
    \/ MirrorExits
    \/ MirrorMain
    \/ MirrorServes

SupervisorNext ==
    \/ ProgramStep
    \/ Signal
    \/ \E r \in Roles : ServiceAccepts(r) \/ ElsewhereAccepts(r) \/ ProcessExits(r)
    \/ ServerFails
    \/ Done

SupervisorSpec == SupervisorInit /\ [][SupervisorNext]_allVars

\* The program runs on, timeouts expire, and a service's process ends once runCtx does.
\* No goroutine takes a step forever, so fairness to all of them together is enough.
\* Nothing makes the caller signal, a process exit by itself or a service listen.
SupervisorFairSpec == SupervisorSpec /\ WF_allVars(ProgramStep)

-----------------------------------------------------------------------------
\* Every variable has its type, s.running counts the components whose exit Run has not
\* received, so that drain waits for each and for no other, and once Run has returned
\* no component and no server of the mirror is left, no process of a service's group that
\* was not sent SIGKILL, and no cgroup but one that had such a process in it.  When
\* setupLimits failed nothing was started, but Run returns without removing the cgroups it had made.
NothingOutlives ==
    /\ MirrorTypeOK
    /\ component \in [Components -> {"none", "running", "exited", "reaped"}]
    /\ started = Cardinality({c \in Components : component[c] \in {"running", "exited"}}) + Cardinality(finished)
    /\ run = "returned" =>
        /\ finished = {} /\ group = {}
        /\ \A c \in Components : component[c] \in {"none", "reaped"}
        /\ \A s \in Servers : serve[s] \in {"none", "exited"}
        /\ leaves \subseteq placed \/ (~limits /\ \A c \in Components : component[c] = "none")

\* A service is started only once both proxies listen, so that it can reach its
\* dependencies as it starts, and the candidate only once the reference has accepted;
\* Run waits for the end with both services started, listening and, with limits, placed.
StartOrder ==
    /\ \A r \in Roles : component[r] # "none" => serve["egress"] # "none" /\ serve["ingress"] # "none"
    /\ component["candidate"] # "none" => "reference" \in accepted
    /\ run = "waiting" => accepted = Roles /\ (limits => placed = Roles)

\* Whatever ends, the caller's context, a proxy server, a service, or the start of one
\* of them, everything stops and the command returns.
StopsTogether ==
    (\/ parent \/ run = "cancel"
     \/ \E s \in Servers : serve[s] = "exited"
     \/ \E r \in Roles : component[r] = "exited") ~> Returned

\* supervise.Run and Mirror.Run drain all they have started before they return: neither a
\* server nor a service outlives the command, and of a service's process group and cgroup
\* only what SIGKILL has not ended by then, or what a failed setupLimits had made.
ServicesContained == DrainsAll /\ NothingOutlives

\* The order of the start: proxies listen before services start, the reference accepts
\* before the candidate starts, and the mirror is ready only with everything configured.
StartedInOrder == StartOrder /\ ReadyMeansConfigured

=============================================================================
