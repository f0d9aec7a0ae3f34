----------------------------- MODULE AppRunner -----------------------------
(***************************************************************************)
(* The app-runner container (server.ts, helpers.ts): the dev-server        *)
(* process behind /start, /stop and /restart, the exclusive package        *)
(* commands, and the agent's startBuildingApp tool as one of its callers.  *)
(*                                                                         *)
(* A handler runs without interruption up to its await.  When a process    *)
(* exits, everything that awaits its `exited` promise is resumed in one    *)
(* go, in the order it was registered: the watcher of the process first,   *)
(* then the /stop and /restart handlers in the order of their requests.    *)
(***************************************************************************)
EXTENDS Naturals, Sequences, FiniteSets

CONSTANTS Callers,    \* other HTTP clients than the agent, one request each
          MaxSpawns,  \* dev servers
          MaxSetups,  \* calls of startBuildingApp
          MaxFaults   \* failing commands, template errors, runner restarts

ASSUME RunnerAssumption ==
  /\ MaxSpawns \in Nat /\ MaxSetups \in Nat /\ MaxFaults \in Nat
  /\ IsFiniteSet(Callers) /\ "agent" \notin Callers

VARIABLES
  dev,         \* devServerProcess, 0 for null
  lastExit,    \* lastDevExitCode: "null" or "code"
  alive,       \* dev servers running
  killed,      \* those among them that have been sent SIGTERM
  spawned,     \* dev servers spawned so far
  awaiting,    \* per dev server, the /stop and /restart handlers that await
               \* its exit, in order
  operation,   \* currentOperation: "null", "install" or "package"
  commands,    \* package commands running, with the caller each answers
  reply,       \* per client, "pending" or the answer it got last
  manifests,   \* directories of the volume that hold a package.json
  setup,       \* await of startBuildingApp
  report,      \* what startBuildingApp returned last
  setups, faults,
  overlapped   \* history: a /stop or /restart came while another waited

server  == <<dev, lastExit, alive, killed, spawned, awaiting>>
package == <<operation, commands>>
agent   == <<setup, report, setups>>
vars    == <<server, package, agent, reply, manifests, faults, overlapped>>

Clients   == Callers \union {"agent"}
Processes == 1..MaxSpawns
\* env.APP_DIR, the root of the volume, and getMainRepoPath(env.APP_DIR).
Directories == {"APP_DIR", "main-repo"}

Answers == {"none", "pending", "error", "already_running", "started",
            "not_running", "stopped", "restarted", "busy", "completed", "failed"}
FailedSteps == {"template_download", "template_validation",
                "runner_install_unreachable", "install_failed",
                "runner_start_unreachable", "dev_server_start_failed", "rejected"}

Waiters == [by : Callers, kind : {"stop", "restart"}]

\* The pointer is null or points to a process that has not exited.
TypeOK ==
  /\ dev = 0 \/ dev \in alive
  /\ lastExit \in {"null", "code"}
  /\ killed \subseteq alive /\ alive \subseteq 1..spawned
  /\ spawned \in 0..MaxSpawns
  /\ awaiting \in [Processes -> Seq(Waiters)]
  /\ operation \in {"null", "install", "package"}
  /\ commands \subseteq [by : Clients, kind : {"install", "package"}]
  /\ reply \in [Clients -> Answers]
  /\ manifests \subseteq Directories
  /\ setup \in {"idle", "downloading", "installing", "starting"}
  /\ report \in {"none", "complete"} \union FailedSteps
  /\ setups \in 0..MaxSetups /\ faults \in 0..MaxFaults
  /\ overlapped \in BOOLEAN

Init ==
  /\ dev = 0 /\ lastExit = "null"
  /\ alive = {} /\ killed = {} /\ spawned = 0
  /\ awaiting = [p \in Processes |-> <<>>]
  /\ operation = "null" /\ commands = {}
  /\ reply = [c \in Clients |-> "none"]
  /\ manifests = {}
  /\ setup = "idle" /\ report = "none" /\ setups = 0
  /\ faults = 0
  /\ overlapped = FALSE

Fault == faults < MaxFaults /\ faults' = faults + 1

Respond(c, answer) == reply' = [reply EXCEPT ![c] = answer]

\* A client sends a request when it is not waiting for an answer.
Free(c) == reply[c] # "pending"

\* The clients whose /stop, or /restart, awaits the exit of process p.
Awaiting(p, kind) ==
  {c \in Callers : \E i \in DOMAIN awaiting[p] : awaiting[p][i] = [by |-> c, kind |-> kind]}

Restarting == UNION {Awaiting(p, "restart") : p \in Processes}
CanSpawn == spawned + Cardinality(Restarting) < MaxSpawns

-----------------------------------------------------------------------------
(* Dev server                                                              *)

Spawn ==
  /\ spawned' = spawned + 1
  /\ dev' = spawned + 1
  /\ alive' = alive \union {spawned + 1}
  /\ lastExit' = "null"

\* spawn throws when its directory, main-repo, does not exist.
SpawnOrThrow(c, answer) ==
  \/ "main-repo" \in manifests /\ Spawn /\ Respond(c, answer)
  \/ /\ "main-repo" \notin manifests
     /\ lastExit' = "null"
     /\ Respond(c, "error")
     /\ UNCHANGED <<dev, alive, spawned>>

Start(c) ==
  /\ CanSpawn
  /\ \/ dev # 0 /\ Respond(c, "already_running")
        /\ UNCHANGED <<dev, alive, spawned, lastExit>>
     \/ dev = 0 /\ SpawnOrThrow(c, "started")
  /\ UNCHANGED <<killed, awaiting, package, manifests, faults, overlapped>>

AwaitExit(c, kind) ==
  /\ killed' = killed \union {dev}
  /\ awaiting' = [awaiting EXCEPT ![dev] = Append(@, [by |-> c, kind |-> kind])]
  /\ overlapped' = (overlapped \/ \E p \in Processes : awaiting[p] # <<>>)
  /\ Respond(c, "pending")
  /\ UNCHANGED <<dev, lastExit, alive, spawned>>

Stop(c) ==
  /\ Free(c)
  /\ \/ dev # 0 /\ AwaitExit(c, "stop")
     \/ dev = 0 /\ Respond(c, "not_running") /\ UNCHANGED <<server, overlapped>>
  /\ UNCHANGED <<package, agent, manifests, faults>>

\* Mutant of Restart: the new server is spawned without awaiting the exit.
RestartAtOnce(c) ==
  /\ Free(c)
  /\ CanSpawn /\ "main-repo" \in manifests
  /\ killed' = killed \union ({dev} \ {0})
  /\ Spawn /\ Respond(c, "restarted")
  /\ UNCHANGED <<awaiting, overlapped, package, agent, manifests, faults>>

Restart(c) ==
  /\ Free(c)
  /\ CanSpawn
  /\ \/ dev # 0 /\ AwaitExit(c, "restart")
     \/ dev = 0 /\ SpawnOrThrow(c, "restarted")
        /\ UNCHANGED <<killed, awaiting, overlapped>>
  /\ UNCHANGED <<package, agent, manifests, faults>>

\* Mutant of Exits: a restart that finds the pointer already cleared by the
\* watcher gives up.
ExitsForgetRestarts(p) ==
  /\ p \in alive
  /\ alive' = alive \ {p} /\ killed' = killed \ {p}
  /\ dev' = IF dev = p THEN 0 ELSE dev
  /\ lastExit' = "code"
  /\ awaiting' = [awaiting EXCEPT ![p] = <<>>]
  /\ reply' = [c \in Clients |-> IF c \in Awaiting(p, "stop") THEN "stopped" ELSE reply[c]]
  /\ UNCHANGED <<spawned, package, agent, manifests, faults, overlapped>>

\* The process is gone and those that await it go on: its watcher clears the
\* pointer if it is still the current one, each /stop clears it whatever it
\* holds, each /restart clears it and spawns.  The last of them decides.
Exits(p) ==
  /\ p \in alive
  /\ LET waiters == awaiting[p]
         new     == Cardinality(Awaiting(p, "restart"))
         last    == IF waiters = <<>> THEN "watcher" ELSE waiters[Len(waiters)].kind
     IN  /\ spawned' = spawned + new
         /\ alive' = (alive \ {p}) \union (spawned + 1 .. spawned + new)
         /\ killed' = killed \ {p}
         /\ dev' = CASE last = "restart" -> spawned + new
                     [] last = "stop"    -> 0
                     [] last = "watcher" -> IF dev = p THEN 0 ELSE dev
         /\ lastExit' = IF last = "restart" THEN "null" ELSE "code"
         /\ awaiting' = [awaiting EXCEPT ![p] = <<>>]
         /\ reply' = [c \in Clients |-> CASE c \in Awaiting(p, "stop")    -> "stopped"
                                          [] c \in Awaiting(p, "restart") -> "restarted"
                                          [] OTHER                        -> reply[c]]
  /\ UNCHANGED <<package, agent, manifests, faults, overlapped>>

-----------------------------------------------------------------------------
(* Package commands                                                        *)

\* Mutant of RunExclusive: nobody looks at currentOperation.
RunShared(c, kind) ==
  /\ operation' = kind
  /\ commands' = commands \union {[by |-> c, kind |-> kind]}
  /\ Respond(c, "pending")
  /\ UNCHANGED <<server, overlapped>>

\* runExclusivePackageCommand, up to its await.
RunExclusive(c, kind) ==
  /\ \/ operation # "null" /\ Respond(c, "busy") /\ UNCHANGED package
     \/ /\ operation = "null"
        /\ operation' = kind
        /\ commands' = commands \union {[by |-> c, kind |-> kind]}
        /\ Respond(c, "pending")
  /\ UNCHANGED <<server, overlapped>>

RunPackageCommand(c, kind) ==
  /\ Free(c)
  /\ RunExclusive(c, kind)
  /\ UNCHANGED <<agent, manifests, faults>>

\* bun runs in env.APP_DIR.  Without a package.json there an install fails and
\* an add or remove of packages writes one.
BunSucceeds(kind) == kind = "package" \/ "APP_DIR" \in manifests

\* Mutant of CommandExits: the operation is cleared after success only.
CommandExitsKeepingLock(m) ==
  /\ m \in commands
  /\ commands' = commands \ {m}
  /\ operation' = IF BunSucceeds(m.kind) THEN "null" ELSE operation
  /\ Respond(m.by, IF BunSucceeds(m.kind) THEN "completed" ELSE "failed")
  /\ UNCHANGED <<server, agent, manifests, faults, overlapped>>

CommandExits(m) ==
  /\ m \in commands
  /\ commands' = commands \ {m}
  /\ operation' = "null"
  /\ \/ /\ BunSucceeds(m.kind)
        /\ Respond(m.by, "completed")
        /\ manifests' = manifests \union (IF m.kind = "package" THEN {"APP_DIR"} ELSE {})
        /\ UNCHANGED faults
     \/ /\ Respond(m.by, "failed")
        /\ IF BunSucceeds(m.kind) THEN Fault ELSE UNCHANGED faults
        /\ UNCHANGED manifests
  /\ UNCHANGED <<server, agent, overlapped>>

\* The container restarts: processes, operation and requests are gone, the
\* volume stays.
RunnerDies ==
  /\ Fault
  /\ dev' = 0 /\ lastExit' = "null" /\ alive' = {} /\ killed' = {}
  /\ awaiting' = [p \in Processes |-> <<>>]
  /\ operation' = "null" /\ commands' = {}
  /\ reply' = [c \in Clients |-> IF reply[c] = "pending" THEN "error" ELSE reply[c]]
  /\ UNCHANGED <<spawned, agent, manifests, overlapped>>

-----------------------------------------------------------------------------
(* startBuildingApp                                                        *)

Return(result) == setup' = "idle" /\ report' = result /\ UNCHANGED setups

\* The conversation's flag is set and the template asked for.
BeginSetup ==
  /\ setup = "idle" /\ setups < MaxSetups
  /\ setups' = setups + 1
  /\ setup' = "downloading"
  /\ report' = "none"
  /\ UNCHANGED <<server, package, reply, manifests, faults, overlapped>>

\* Extracted and valid, the install request follows at once.
TemplateExtracted ==
  /\ setup = "downloading"
  /\ setup' = "installing"
  /\ manifests' = manifests \union {"main-repo"}
  /\ RunExclusive("agent", "install")
  /\ UNCHANGED <<report, setups, faults>>

\* No such template, one without package.json, or an error that rejects the call.
TemplateFails ==
  /\ setup = "downloading"
  /\ Fault
  /\ \E step \in {"template_download", "template_validation", "rejected"} : Return(step)
  /\ UNCHANGED <<server, package, reply, manifests, overlapped>>

\* The runner does not answer at all.
RunnerUnreachable ==
  /\ Fault
  /\ \/ /\ setup = "downloading"
        /\ Return("runner_install_unreachable")
        /\ manifests' = manifests \union {"main-repo"}
     \/ /\ setup = "installing" /\ reply["agent"] = "completed"
        /\ Return("runner_start_unreachable")
        /\ UNCHANGED manifests
  /\ UNCHANGED <<server, package, reply, overlapped>>

\* The agent reads the answer to its install request.
InstallAnswered ==
  /\ setup = "installing" /\ Free("agent")
  /\ \/ /\ reply["agent"] = "completed"
        /\ setup' = "starting"
        /\ Start("agent")
        /\ UNCHANGED <<report, setups>>
     \/ /\ reply["agent"] # "completed"
        /\ Return(IF reply["agent"] = "error" THEN "runner_install_unreachable"
                  ELSE "install_failed")
        /\ UNCHANGED <<server, package, reply, manifests, faults, overlapped>>

\* Any 200 is taken for a server that runs.
StartAnswered ==
  /\ setup = "starting"
  /\ Return(IF reply["agent"] = "error" THEN "dev_server_start_failed" ELSE "complete")
  /\ UNCHANGED <<server, package, reply, manifests, faults, overlapped>>

-----------------------------------------------------------------------------
Setup == \/ TemplateExtracted \/ TemplateFails \/ RunnerUnreachable
         \/ InstallAnswered \/ StartAnswered

Next ==
  \/ BeginSetup \/ Setup
  \/ \E c \in Callers :
       \/ Free(c) /\ Start(c) /\ UNCHANGED agent
       \/ Stop(c) \/ Restart(c)
       \/ \E kind \in {"install", "package"} : RunPackageCommand(c, kind)
  \/ \E p \in alive : Exits(p)
  \/ \E m \in commands : CommandExits(m)
  \/ RunnerDies

\* Signalled processes exit, commands end and the agent reads its answers;
\* nothing obliges a client to call or a dev server to stay up.
Fairness ==
  /\ WF_vars(Setup)
  /\ WF_vars(\E p \in killed : Exits(p))
  /\ WF_vars(\E m \in commands : CommandExits(m))

Spec == Init /\ [][Next]_vars
FairSpec == Spec /\ Fairness

-----------------------------------------------------------------------------
(* Properties                                                              *)

\* While /stop and /restart requests do not overlap, there is never more than
\* one dev server to contend for DEV_PORT, and none that the pointer has lost,
\* which no request could stop any more (/restart awaits the exit).
OneServerOnPort ==
  ~overlapped => alive \subseteq {dev}

\* One bun command at a time changes the dependencies, whoever asks
\* (runExclusivePackageCommand).
OnePackageCommand ==
  /\ Cardinality(commands) <= 1
  /\ operation = "null" <=> commands = {}

\* A /restart that waits for the old server ends with an answer, however many
\* other requests wait with it, and is not forgotten by the watcher that clears
\* the pointer first.
RestartAnswered ==
  \A c \in Callers :
    c \in Restarting ~> reply[c] \in {"restarted", "error"}

\* The runner does not stay busy: a command that fails releases the operation
\* like one that succeeds (the finally of runExclusivePackageCommand).
PackageLockReleased == (operation # "null") ~> (operation = "null")

=============================================================================
