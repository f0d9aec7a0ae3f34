-------------------------- MODULE AppRunnerProofs --------------------------
(***************************************************************************)
(* Theorems about AppRunner, for any number of clients, dev servers, calls *)
(* of startBuildingApp and faults.                                         *)
(***************************************************************************)
EXTENDS AppRunner, FiniteSetTheorems, SequenceTheorems, TLAPS

-----------------------------------------------------------------------------
(* One package command                                                     *)

\* The operation is what the one command in progress is, or null.
Exclusive ==
  \/ commands = {} /\ operation = "null"
  \/ operation # "null" /\ \E m : commands = {m}

LEMMA ExclusiveStep == Exclusive /\ [Next]_vars => Exclusive'
<1> SUFFICES ASSUME Exclusive, [Next]_vars PROVE Exclusive'
  OBVIOUS
<1> USE DEF Exclusive
<1>0. ASSUME UNCHANGED package PROVE Exclusive'
  BY <1>0 DEF package
<1>1. CASE UNCHANGED vars
  BY <1>0, <1>1 DEF vars
<1>2. ASSUME NEW c, NEW kind \in {"install", "package"}, RunExclusive(c, kind)
      PROVE  Exclusive'
  BY <1>2 DEF RunExclusive, package
<1>3. CASE BeginSetup \/ Setup
  <2>1. CASE TemplateExtracted
    BY <1>2, <2>1 DEF TemplateExtracted
  <2>2. CASE BeginSetup \/ TemplateFails \/ RunnerUnreachable \/ StartAnswered
    BY <1>0, <2>2 DEF BeginSetup, TemplateFails, RunnerUnreachable, StartAnswered
  <2>3. CASE InstallAnswered
    BY <1>0, <2>3 DEF InstallAnswered, Start
  <2> QED
    BY <1>3, <2>1, <2>2, <2>3 DEF Setup
<1>4. ASSUME NEW c \in Callers, Start(c) \/ Stop(c) \/ Restart(c) PROVE Exclusive'
  BY <1>0, <1>4 DEF Start, Stop, Restart
<1>5. ASSUME NEW c \in Callers, NEW kind \in {"install", "package"},
             RunPackageCommand(c, kind)
      PROVE  Exclusive'
  BY <1>2, <1>5 DEF RunPackageCommand
<1>6. ASSUME NEW p \in alive, Exits(p) PROVE Exclusive'
  BY <1>0, <1>6 DEF Exits
<1>7. ASSUME NEW m \in commands, CommandExits(m) PROVE Exclusive'
  BY <1>7 DEF CommandExits
<1>8. CASE RunnerDies
  BY <1>8 DEF RunnerDies
<1> QED
  BY <1>1, <1>3, <1>4, <1>5, <1>6, <1>7, <1>8 DEF Next

\* At most one bun command changes the dependencies at a time, and the
\* operation is null exactly when none does, whoever asks, whatever fails and
\* however often the runner is restarted (runExclusivePackageCommand).
THEOREM PackageCommandsExclude == Spec => []OnePackageCommand
<1>1. Init => Exclusive
  BY DEF Init, Exclusive
<1>2. Exclusive => OnePackageCommand
  <2> SUFFICES ASSUME Exclusive PROVE OnePackageCommand
    OBVIOUS
  <2>1. CASE commands = {} /\ operation = "null"
    BY <2>1, FS_EmptySet DEF OnePackageCommand
  <2>2. CASE operation # "null" /\ \E m : commands = {m}
    <3>1. Cardinality(commands) = 1
      BY <2>2, FS_Singleton
    <3> QED
      BY <2>2, <3>1 DEF OnePackageCommand
  <2> QED
    BY <2>1, <2>2 DEF Exclusive
<1> QED
  BY <1>1, <1>2, ExclusiveStep, PTL DEF Spec

-----------------------------------------------------------------------------
(* Who awaits what                                                         *)

Kinds == {"stop", "restart"}

\* The current dev server is one that was spawned.
LEMMA PointerIsProcess ==
  ASSUME TypeOK, dev # 0 PROVE dev \in Processes /\ dev \in alive
<1>1. dev \in alive /\ alive \subseteq 1..spawned /\ spawned \in 0..MaxSpawns
  BY DEF TypeOK
<1>2. dev \in 1..spawned /\ spawned \in Nat /\ MaxSpawns \in Nat /\ spawned <= MaxSpawns
  BY <1>1, RunnerAssumption
<1> QED
  BY <1>1, <1>2 DEF Processes

LEMMA RestartingFinite ==
  /\ IsFiniteSet(Restarting) /\ Cardinality(Restarting) \in Nat
  /\ \A p \in Processes : /\ IsFiniteSet(Awaiting(p, "restart"))
                          /\ Cardinality(Awaiting(p, "restart")) \in Nat
                          /\ Cardinality(Awaiting(p, "restart")) <= Cardinality(Restarting)
<1>1. Restarting \in SUBSET Callers
  BY DEF Restarting, Awaiting
<1>2. IsFiniteSet(Restarting)
  BY <1>1, RunnerAssumption, FS_Subset
<1>3. ASSUME NEW p \in Processes
      PROVE  /\ IsFiniteSet(Awaiting(p, "restart"))
             /\ Cardinality(Awaiting(p, "restart")) \in Nat
             /\ Cardinality(Awaiting(p, "restart")) <= Cardinality(Restarting)
  <2>1. Awaiting(p, "restart") \in SUBSET Restarting
    BY DEF Restarting
  <2>2. /\ IsFiniteSet(Awaiting(p, "restart"))
        /\ Cardinality(Awaiting(p, "restart")) <= Cardinality(Restarting)
    BY <1>2, <2>1, FS_Subset
  <2> QED
    BY <2>2, FS_CardinalityType
<1>4. Cardinality(Restarting) \in Nat
  BY <1>2, FS_CardinalityType
<1> QED
  BY <1>2, <1>3, <1>4

\* A request joins those that await the current server.
LEMMA JoinsAwaiting ==
  ASSUME TypeOK, NEW c \in Callers, NEW kind \in Kinds, dev # 0, AwaitExit(c, kind)
  PROVE  /\ awaiting' \in [Processes -> Seq(Waiters)]
         /\ Len(awaiting'[dev]) = Len(awaiting[dev]) + 1
         /\ \A p \in Processes : p # dev => awaiting'[p] = awaiting[p]
         /\ \A p \in Processes, k \in Kinds :
              Awaiting(p, k)' = IF p = dev /\ k = kind THEN Awaiting(p, k) \union {c}
                                ELSE Awaiting(p, k)
<1> DEFINE w == [by |-> c, kind |-> kind]
<1>0. w \in Waiters
  BY DEF Waiters, Kinds
<1> HIDE DEF w
<1>1. /\ dev \in Processes /\ awaiting \in [Processes -> Seq(Waiters)]
      /\ awaiting' = [awaiting EXCEPT ![dev] = Append(@, w)]
  BY PointerIsProcess DEF TypeOK, AwaitExit, w
<1>2. awaiting[dev] \in Seq(Waiters) /\ awaiting'[dev] = Append(awaiting[dev], w)
  BY <1>1
<1>3. /\ awaiting'[dev] \in Seq(Waiters)
      /\ Len(awaiting'[dev]) = Len(awaiting[dev]) + 1
      /\ \A i \in 1..Len(awaiting[dev]) : awaiting'[dev][i] = awaiting[dev][i]
      /\ awaiting'[dev][Len(awaiting[dev]) + 1] = w
  BY <1>0, <1>2, AppendProperties
<1>4. /\ DOMAIN awaiting[dev] = 1..Len(awaiting[dev])
      /\ DOMAIN awaiting'[dev] = 1..(Len(awaiting[dev]) + 1)
      /\ Len(awaiting[dev]) \in Nat
  BY <1>2, <1>3, LenProperties
<1>5. ASSUME NEW x
      PROVE  (\E i \in DOMAIN awaiting'[dev] : awaiting'[dev][i] = x)
               <=> (\E i \in DOMAIN awaiting[dev] : awaiting[dev][i] = x) \/ x = w
  <2>1. ASSUME NEW i \in DOMAIN awaiting'[dev], awaiting'[dev][i] = x
        PROVE  (\E j \in DOMAIN awaiting[dev] : awaiting[dev][j] = x) \/ x = w
    <3>1. i \in 1..Len(awaiting[dev]) \/ i = Len(awaiting[dev]) + 1
      BY <1>4
    <3> QED
      BY <1>3, <1>4, <2>1, <3>1
  <2>2. ASSUME NEW i \in DOMAIN awaiting[dev], awaiting[dev][i] = x
        PROVE  \E j \in DOMAIN awaiting'[dev] : awaiting'[dev][j] = x
    <3>1. i \in DOMAIN awaiting'[dev]
      BY <1>4
    <3> QED
      BY <1>3, <1>4, <2>2, <3>1
  <2>3. ASSUME x = w PROVE \E j \in DOMAIN awaiting'[dev] : awaiting'[dev][j] = x
    <3>1. Len(awaiting[dev]) + 1 \in DOMAIN awaiting'[dev]
      BY <1>4
    <3> QED
      BY <1>3, <2>3, <3>1
  <2> QED
    BY <2>1, <2>2, <2>3
<1>6. \A p \in Processes : p # dev => awaiting'[p] = awaiting[p]
  BY <1>1
<1>7. ASSUME NEW p \in Processes, NEW k \in Kinds
      PROVE  Awaiting(p, k)' = IF p = dev /\ k = kind THEN Awaiting(p, k) \union {c}
                               ELSE Awaiting(p, k)
  <2>1. CASE p # dev
    BY <1>6, <2>1 DEF Awaiting
  <2>2. CASE p = dev
    <3>1. ASSUME NEW d \in Callers
          PROVE  d \in Awaiting(p, k)' <=> d \in Awaiting(p, k) \/ (d = c /\ k = kind)
      <4>1. [by |-> d, kind |-> k] = w <=> d = c /\ k = kind
        BY DEF w
      <4> QED
        BY <1>5, <2>2, <4>1 DEF Awaiting
    <3>2. Awaiting(p, k)' \subseteq Callers /\ Awaiting(p, k) \subseteq Callers
      BY DEF Awaiting
    <3> QED
      BY <2>2, <3>1, <3>2
  <2> QED
    BY <2>1, <2>2
<1>8. awaiting' \in [Processes -> Seq(Waiters)]
  BY <1>1, <1>2, <1>3
<1> QED
  BY <1>3, <1>6, <1>7, <1>8

\* Nobody awaits a process that is gone.
LEMMA LeavesAwaiting ==
  ASSUME TypeOK, NEW p \in Processes, Exits(p)
  PROVE  /\ awaiting' \in [Processes -> Seq(Waiters)]
         /\ awaiting'[p] = <<>> /\ \A q \in Processes : q # p => awaiting'[q] = awaiting[q]
         /\ \A q \in Processes, k \in Kinds :
              Awaiting(q, k)' = IF q = p THEN {} ELSE Awaiting(q, k)
<1>1. awaiting \in [Processes -> Seq(Waiters)] /\ awaiting' = [awaiting EXCEPT ![p] = <<>>]
  BY DEF TypeOK, Exits
<1>2. <<>> \in Seq(Waiters) /\ DOMAIN <<>> = {}
  BY EmptySeq
<1> QED
  BY <1>1, <1>2 DEF Awaiting

-----------------------------------------------------------------------------
(* Type correctness                                                        *)

\* A client awaits one process at most, and while it does it waits for that
\* answer only.
WaitsOnce ==
  \A c \in Callers, p, q \in Processes, k, l \in Kinds :
    c \in Awaiting(p, k) /\ c \in Awaiting(q, l) => p = q
WaitersAreBusy ==
  \A c \in Callers, p \in Processes, k \in Kinds :
    c \in Awaiting(p, k) => reply[c] = "pending" /\ \A m \in commands : m.by # c
CommandersAreBusy == \A m \in commands : m.by \in Callers => reply[m.by] = "pending"
Busy == WaitsOnce /\ WaitersAreBusy /\ CommandersAreBusy

\* Every /restart that waits has a dev server left to spawn.
SpawnsLeft == spawned + Cardinality(Restarting) <= MaxSpawns

RunnerInv == TypeOK /\ Busy /\ SpawnsLeft

LEMMA RunnerInit == Init => RunnerInv
<1> SUFFICES ASSUME Init PROVE RunnerInv
  OBVIOUS
<1>1. <<>> \in Seq(Waiters) /\ DOMAIN <<>> = {}
  BY EmptySeq
<1>2. TypeOK
  <2>1. awaiting \in [Processes -> Seq(Waiters)] /\ reply \in [Clients -> Answers]
    BY <1>1 DEF Init, Answers
  <2>2. spawned \in 0..MaxSpawns /\ setups \in 0..MaxSetups /\ faults \in 0..MaxFaults
    BY RunnerAssumption DEF Init
  <2> QED
    BY <2>1, <2>2 DEF Init, TypeOK
<1>3. \A p \in Processes, k \in Kinds : Awaiting(p, k) = {}
  BY <1>1 DEF Init, Awaiting
<1>4. Restarting = {}
  BY <1>3 DEF Restarting, Kinds
<1>5. SpawnsLeft
  BY <1>4, FS_EmptySet, RunnerAssumption DEF SpawnsLeft, Init
<1> QED
  BY <1>2, <1>3, <1>5 DEF RunnerInv, Busy, WaitsOnce, WaitersAreBusy, CommandersAreBusy, Init

\* Who awaits what depends on nothing but the list.
LEMMA SameAwaiting ==
  ASSUME awaiting' = awaiting
  PROVE  /\ \A p, k : Awaiting(p, k)' = Awaiting(p, k)
         /\ Restarting' = Restarting
BY DEF Awaiting, Restarting

\* Answers that go to a client that awaits no process and has no command keep
\* the others busy.
LEMMA BusyAfterAnswer ==
  ASSUME TypeOK, Busy, NEW c \in Clients, awaiting' = awaiting, commands' = commands,
         c = "agent" \/ Free(c), NEW answer, reply' = [reply EXCEPT ![c] = answer]
  PROVE  Busy'
<1>1. \A d \in Callers : d # c => reply'[d] = reply[d]
  BY DEF TypeOK, Clients
<1>2. \A d \in Callers, p \in Processes, k \in Kinds : d \in Awaiting(p, k) => d # c
  BY RunnerAssumption DEF Busy, WaitersAreBusy, Free
<1>3. \A m \in commands : m.by \in Callers => m.by # c
  BY RunnerAssumption DEF Busy, CommandersAreBusy, Free
<1> QED
  BY <1>1, <1>2, <1>3, SameAwaiting
    DEF Busy, WaitsOnce, WaitersAreBusy, CommandersAreBusy

\* What answers no client, or the same client, and starts nothing keeps the
\* waiters' part of the invariant.
LEMMA RunnerUnchanged ==
  ASSUME RunnerInv, UNCHANGED <<spawned, awaiting>>, Busy', TypeOK'
  PROVE  RunnerInv'
BY SameAwaiting DEF RunnerInv, SpawnsLeft

\* A dev server is spawned for a request that may spawn one.
LEMMA RunnerSpawns ==
  ASSUME RunnerInv, NEW c \in Clients, c = "agent" \/ Free(c), CanSpawn, dev = 0,
         NEW answer \in Answers, SpawnOrThrow(c, answer),
         UNCHANGED <<killed, awaiting, package, manifests, faults, overlapped>>,
         setup' \in {"idle", "downloading", "installing", "starting"},
         report' \in {"none", "complete"} \union FailedSteps, setups' \in 0..MaxSetups
  PROVE  RunnerInv'
<1>0. spawned \in Nat /\ Cardinality(Restarting) \in Nat /\ Cardinality(Restarting)' \in Nat
  BY RestartingFinite, SameAwaiting, RunnerAssumption DEF RunnerInv, TypeOK
<1>1. PICK a \in Answers : Respond(c, a)
  BY DEF SpawnOrThrow, Answers
<1>2. reply' \in [Clients -> Answers]
  BY <1>1 DEF RunnerInv, TypeOK, Respond
<1>3. Busy'
  BY <1>1, BusyAfterAnswer DEF RunnerInv, Respond, package
<1>4. Restarting' = Restarting
  BY SameAwaiting
<1>5. CASE Spawn
  <2>1. /\ spawned' = spawned + 1 /\ dev' = spawned + 1 /\ lastExit' = "null"
        /\ alive' = alive \union {spawned + 1}
    BY <1>5 DEF Spawn
  <2>2. spawned' \in 0..MaxSpawns /\ SpawnsLeft'
    BY <1>0, <1>4, <2>1, RunnerAssumption DEF CanSpawn, SpawnsLeft
  <2>3. alive' \subseteq 1..spawned' /\ killed' \subseteq alive' /\ dev' \in alive'
    BY <1>0, <2>1 DEF RunnerInv, TypeOK
  <2>4. TypeOK'
    BY <1>2, <2>1, <2>2, <2>3 DEF RunnerInv, TypeOK, package
  <2> QED
    BY <1>3, <2>2, <2>4 DEF RunnerInv
<1>6. CASE lastExit' = "null" /\ UNCHANGED <<dev, alive, spawned>>
  <2>1. TypeOK'
    BY <1>2, <1>6 DEF RunnerInv, TypeOK, package
  <2> QED
    BY <1>3, <1>6, <2>1, RunnerUnchanged
<1> QED
  BY <1>5, <1>6 DEF SpawnOrThrow

\* A client is answered at once.
LEMMA RunnerAnswers ==
  ASSUME RunnerInv, NEW c \in Clients, c = "agent" \/ Free(c), NEW answer \in Answers,
         Respond(c, answer), UNCHANGED <<server, package, manifests, faults, overlapped>>,
         setup' \in {"idle", "downloading", "installing", "starting"},
         report' \in {"none", "complete"} \union FailedSteps, setups' \in 0..MaxSetups
  PROVE  RunnerInv'
<1>1. reply' \in [Clients -> Answers]
  BY DEF RunnerInv, TypeOK, Respond
<1>2. Busy'
  BY BusyAfterAnswer DEF RunnerInv, Respond, package, server
<1>3. TypeOK'
  BY <1>1 DEF RunnerInv, TypeOK, server, package
<1> QED
  BY <1>2, <1>3, RunnerUnchanged DEF server

\* A /stop or /restart joins those that await the current server.
LEMMA RunnerWaits ==
  ASSUME RunnerInv, NEW c \in Callers, Free(c), NEW kind \in Kinds, dev # 0,
         kind = "restart" => CanSpawn,
         AwaitExit(c, kind), UNCHANGED <<package, agent, manifests, faults>>
  PROVE  RunnerInv'
<1>0. /\ awaiting' \in [Processes -> Seq(Waiters)]
      /\ \A p \in Processes, k \in Kinds :
           Awaiting(p, k)' = IF p = dev /\ k = kind THEN Awaiting(p, k) \union {c}
                             ELSE Awaiting(p, k)
  BY JoinsAwaiting DEF RunnerInv
<1>1. /\ killed' = killed \union {dev} /\ dev \in alive /\ dev \in Processes
      /\ reply' = [reply EXCEPT ![c] = "pending"]
      /\ UNCHANGED <<dev, lastExit, alive, spawned>> /\ overlapped' \in BOOLEAN
  BY PointerIsProcess DEF RunnerInv, AwaitExit, Respond, TypeOK
<1>2. TypeOK'
  <2>1. reply' \in [Clients -> Answers]
    BY <1>1 DEF RunnerInv, TypeOK, Answers
  <2> QED
    BY <1>0, <1>1, <2>1 DEF RunnerInv, TypeOK, package, agent
<1>3. Busy'
  <2>1. /\ \A p \in Processes, k \in Kinds : c \notin Awaiting(p, k)
        /\ \A m \in commands : m.by # c
    BY DEF RunnerInv, Busy, WaitersAreBusy, CommandersAreBusy, Free
  <2>2. \A d \in Clients : reply'[d] = IF d = c THEN "pending" ELSE reply[d]
    BY <1>1 DEF RunnerInv, TypeOK
  <2>3. WaitsOnce'
    BY <1>0, <2>1 DEF RunnerInv, Busy, WaitsOnce
  <2>4. WaitersAreBusy' /\ CommandersAreBusy'
    BY <1>0, <2>1, <2>2
      DEF RunnerInv, Busy, WaitersAreBusy, CommandersAreBusy, package, Clients
  <2> QED
    BY <2>3, <2>4 DEF Busy
<1>4. SpawnsLeft'
  <2>1. spawned \in Nat /\ IsFiniteSet(Restarting) /\ Cardinality(Restarting) \in Nat
    BY RestartingFinite, RunnerAssumption DEF RunnerInv, TypeOK
  <2>2. CASE kind = "stop"
    <3>1. \A p \in Processes : Awaiting(p, "restart")' = Awaiting(p, "restart")
      BY <1>0, <2>2 DEF Kinds
    <3>2. Restarting' = Restarting
      BY <3>1 DEF Restarting
    <3> QED
      BY <1>1, <3>2 DEF RunnerInv, SpawnsLeft
  <2>3. CASE kind = "restart"
    <3>1. \A p \in Processes :
            Awaiting(p, "restart")' = IF p = dev THEN Awaiting(p, "restart") \union {c}
                                      ELSE Awaiting(p, "restart")
      BY <1>0, <2>3 DEF Kinds
    <3>2. Restarting' = Restarting \union {c}
      BY <1>1, <3>1 DEF Restarting
    <3>3. Cardinality(Restarting') \in Nat
          /\ Cardinality(Restarting') <= Cardinality(Restarting) + 1
      BY <2>1, <3>2, FS_AddElement
    <3>4. spawned + Cardinality(Restarting) < MaxSpawns
      BY <2>3 DEF CanSpawn
    <3> QED
      BY <1>1, <2>1, <3>3, <3>4, RunnerAssumption DEF SpawnsLeft
  <2> QED
    BY <2>2, <2>3 DEF Kinds
<1> QED
  BY <1>2, <1>3, <1>4 DEF RunnerInv

\* What the exit of a process leaves: as many new servers as /restart awaited it.
LEMMA RunnerExits == ASSUME RunnerInv, NEW p \in alive, Exits(p) PROVE RunnerInv'
<1> DEFINE new == Cardinality(Awaiting(p, "restart"))
<1>0. p \in Processes /\ spawned \in Nat
  BY RunnerAssumption DEF RunnerInv, TypeOK, Processes
<1>1. /\ awaiting' \in [Processes -> Seq(Waiters)]
      /\ \A q \in Processes, k \in Kinds :
           Awaiting(q, k)' = IF q = p THEN {} ELSE Awaiting(q, k)
  BY <1>0, LeavesAwaiting DEF RunnerInv
<1>2. /\ new \in Nat /\ new <= Cardinality(Restarting) /\ Cardinality(Restarting) \in Nat
      /\ IsFiniteSet(Awaiting(p, "restart")) /\ IsFiniteSet(Restarting)
  BY <1>0, RestartingFinite
<1>3. /\ spawned' = spawned + new
      /\ alive' = (alive \ {p}) \union (spawned + 1 .. spawned + new)
      /\ killed' = killed \ {p} /\ lastExit' \in {"null", "code"}
      /\ UNCHANGED <<package, agent, manifests, faults, overlapped>>
  BY DEF Exits
<1>4. reply' = [c \in Clients |-> CASE c \in Awaiting(p, "stop")    -> "stopped"
                                    [] c \in Awaiting(p, "restart") -> "restarted"
                                    [] OTHER                        -> reply[c]]
  BY DEF Exits
<1> HIDE DEF new
<1>5. Restarting' = Restarting \ Awaiting(p, "restart")
  <2>1. ASSUME NEW q \in Processes, q # p
        PROVE  /\ Awaiting(q, "restart")' = Awaiting(q, "restart")
               /\ Awaiting(q, "restart") \intersect Awaiting(p, "restart") = {}
    <3>1. Awaiting(q, "restart") \subseteq Callers
      BY DEF Awaiting
    <3> QED
      BY <1>0, <1>1, <2>1, <3>1 DEF RunnerInv, Busy, WaitsOnce, Kinds
  <2>2. Awaiting(p, "restart")' = {}
    BY <1>0, <1>1 DEF Kinds
  <2> QED
    BY <1>0, <2>1, <2>2 DEF Restarting
<1>6. SpawnsLeft'
  <2>1. Awaiting(p, "restart") \subseteq Restarting
    BY <1>0 DEF Restarting
  <2>2. Restarting \intersect Awaiting(p, "restart") = Awaiting(p, "restart")
    BY <2>1
  <2>3. Cardinality(Restarting') = Cardinality(Restarting) - new
    BY <1>2, <1>5, <2>2, FS_Difference DEF new
  <2> QED
    BY <1>0, <1>2, <1>3, <2>3, RunnerAssumption DEF RunnerInv, SpawnsLeft
<1>7. TypeOK'
  <2>1. spawned' \in 0..MaxSpawns
    BY <1>0, <1>2, <1>3, RunnerAssumption DEF RunnerInv, SpawnsLeft
  <2>2. alive' \subseteq 1..spawned' /\ killed' \subseteq alive'
    BY <1>0, <1>2, <1>3 DEF RunnerInv, TypeOK
  <2>3. reply' \in [Clients -> Answers]
    BY <1>4 DEF RunnerInv, TypeOK, Answers
  <2>4. dev' = 0 \/ dev' \in alive'
    <3> DEFINE last == IF awaiting[p] = <<>> THEN "watcher"
                       ELSE awaiting[p][Len(awaiting[p])].kind
    <3>1. dev' = CASE last = "restart" -> spawned + new
                   [] last = "stop"    -> 0
                   [] last = "watcher" -> IF dev = p THEN 0 ELSE dev
      BY DEF Exits, new
    <3>2. awaiting[p] \in Seq(Waiters)
      BY <1>0 DEF RunnerInv, TypeOK
    <3>3. CASE awaiting[p] = <<>>
      <4>1. dev' = IF dev = p THEN 0 ELSE dev
        BY <3>1, <3>3
      <4> QED
        BY <1>3, <4>1 DEF RunnerInv, TypeOK
    <3>4. CASE awaiting[p] # <<>>
      <4> DEFINE w == awaiting[p][Len(awaiting[p])]
      <4>1. Len(awaiting[p]) \in DOMAIN awaiting[p] /\ w \in Waiters
        BY <3>2, <3>4, EmptySeq, LenProperties, ElementOfSeq
      <4>2. w.by \in Callers /\ w.kind \in {"stop", "restart"}
            /\ w = [by |-> w.by, kind |-> w.kind]
        BY <4>1 DEF Waiters
      <4>3. CASE w.kind = "stop"
        BY <3>1, <3>4, <4>3
      <4>4. CASE w.kind = "restart"
        <5>1. w.by \in Awaiting(p, "restart")
          BY <4>1, <4>2, <4>4 DEF Awaiting
        <5>2. new >= 1
          <6>1. new # 0
            BY <1>2, <5>1, FS_EmptySet DEF new
          <6> QED
            BY <1>2, <6>1
        <5>3. dev' = spawned + new
          BY <3>1, <3>4, <4>4
        <5> QED
          BY <1>0, <1>2, <1>3, <5>2, <5>3
      <4> QED
        BY <4>2, <4>3, <4>4
    <3> QED
      BY <3>3, <3>4
  <2> QED
    BY <1>1, <1>3, <2>1, <2>2, <2>3, <2>4 DEF RunnerInv, TypeOK, package, agent
<1>8. Busy'
  <2>1. \A c \in Clients : c \notin Awaiting(p, "stop") /\ c \notin Awaiting(p, "restart")
                             => reply'[c] = reply[c]
    BY <1>4
  <2>2. WaitsOnce'
    BY <1>1 DEF RunnerInv, Busy, WaitsOnce
  <2>3. WaitersAreBusy'
    <3> SUFFICES ASSUME NEW c \in Callers, NEW q \in Processes, NEW k \in Kinds,
                        c \in Awaiting(q, k)'
                 PROVE  reply'[c] = "pending" /\ \A m \in commands' : m.by # c
      BY DEF WaitersAreBusy
    <3>1. q # p /\ c \in Awaiting(q, k)
      BY <1>1
    <3>2. c \notin Awaiting(p, "stop") /\ c \notin Awaiting(p, "restart")
      BY <1>0, <3>1 DEF RunnerInv, Busy, WaitsOnce, Kinds
    <3> QED
      BY <1>3, <2>1, <3>1, <3>2 DEF RunnerInv, Busy, WaitersAreBusy, package, Clients
  <2>4. CommandersAreBusy'
    <3> SUFFICES ASSUME NEW m \in commands, m.by \in Callers PROVE reply'[m.by] = "pending"
      BY <1>3 DEF CommandersAreBusy, package
    <3>1. m.by \notin Awaiting(p, "stop") /\ m.by \notin Awaiting(p, "restart")
      BY <1>0 DEF RunnerInv, Busy, WaitersAreBusy, Kinds
    <3> QED
      BY <2>1, <3>1 DEF RunnerInv, Busy, CommandersAreBusy, Clients
  <2> QED
    BY <2>2, <2>3, <2>4 DEF Busy
<1> QED
  BY <1>6, <1>7, <1>8 DEF RunnerInv

\* A package request is refused or becomes the command in progress.
LEMMA RunnerRuns ==
  ASSUME RunnerInv, NEW c \in Clients, c = "agent" \/ Free(c),
         NEW kind \in {"install", "package"}, RunExclusive(c, kind),
         UNCHANGED <<report, setups, faults>>, manifests' \subseteq Directories,
         setup' \in {"idle", "downloading", "installing", "starting"}
  PROVE  RunnerInv'
<1>1. /\ UNCHANGED <<server, overlapped>>
      /\ \E a \in {"busy", "pending"} : reply' = [reply EXCEPT ![c] = a]
  BY DEF RunExclusive, Respond
<1>2. reply' \in [Clients -> Answers]
  BY <1>1 DEF RunnerInv, TypeOK, Answers
<1>3. CASE operation # "null" /\ Respond(c, "busy") /\ UNCHANGED package
  <2>1. Busy'
    BY <1>1, <1>3, BusyAfterAnswer DEF RunnerInv, Respond, package, server
  <2>2. TypeOK'
    BY <1>1, <1>2, <1>3 DEF RunnerInv, TypeOK, server, package
  <2> QED
    BY <1>1, <2>1, <2>2, RunnerUnchanged DEF server
<1>4. CASE /\ operation' = kind /\ reply' = [reply EXCEPT ![c] = "pending"]
           /\ commands' = commands \union {[by |-> c, kind |-> kind]}
  <2>1. TypeOK'
    BY <1>1, <1>2, <1>4 DEF RunnerInv, TypeOK, server
  <2>2. \A d \in Clients : reply'[d] = IF d = c THEN "pending" ELSE reply[d]
    BY <1>4 DEF RunnerInv, TypeOK
  <2>3. \A d \in Callers, p \in Processes, k \in Kinds : d \in Awaiting(p, k) => d # c
    BY RunnerAssumption DEF RunnerInv, Busy, WaitersAreBusy, Free
  <2>4. \A p, k : Awaiting(p, k)' = Awaiting(p, k)
    BY <1>1, SameAwaiting DEF server
  <2>5. WaitsOnce' /\ WaitersAreBusy'
    BY <1>4, <2>2, <2>3, <2>4 DEF RunnerInv, Busy, WaitsOnce, WaitersAreBusy, Clients
  <2>6. CommandersAreBusy'
    BY <1>4, <2>2 DEF RunnerInv, Busy, CommandersAreBusy, Clients
  <2> QED
    BY <1>1, <2>1, <2>5, <2>6, RunnerUnchanged DEF Busy, server
<1> QED
  BY <1>3, <1>4 DEF RunExclusive, Respond

\* A command answers its own client, which awaits nothing else.
LEMMA RunnerCommandExits ==
  ASSUME RunnerInv, Exclusive, NEW m \in commands, CommandExits(m) PROVE RunnerInv'
<1>1. /\ commands' = {} /\ operation' = "null" /\ UNCHANGED <<server, agent, overlapped>>
      /\ \E a \in {"completed", "failed"} : reply' = [reply EXCEPT ![m.by] = a]
      /\ manifests' \subseteq Directories
      /\ faults' = faults \/ (faults < MaxFaults /\ faults' = faults + 1)
  BY DEF CommandExits, Exclusive, Respond, Fault, RunnerInv, TypeOK, Directories
<1>2. faults' \in 0..MaxFaults
  BY <1>1, RunnerAssumption DEF RunnerInv, TypeOK
<1>3. reply' \in [Clients -> Answers]
  BY <1>1 DEF RunnerInv, TypeOK, Answers
<1>4. TypeOK'
  BY <1>1, <1>2, <1>3 DEF RunnerInv, TypeOK, server, agent
<1>5. \A d \in Callers, p \in Processes, k \in Kinds :
        d \in Awaiting(p, k) => reply'[d] = "pending"
  BY <1>1 DEF RunnerInv, Busy, WaitersAreBusy, TypeOK, Clients
<1>6. Busy'
  BY <1>1, <1>5, SameAwaiting
    DEF RunnerInv, Busy, WaitsOnce, WaitersAreBusy, CommandersAreBusy, server
<1> QED
  BY <1>1, <1>4, <1>6, RunnerUnchanged DEF server

\* A runner that restarts has forgotten everybody.
LEMMA RunnerRestarts == ASSUME RunnerInv, RunnerDies PROVE RunnerInv'
<1>1. <<>> \in Seq(Waiters) /\ DOMAIN <<>> = {}
  BY EmptySeq
<1>2. /\ awaiting' = [p \in Processes |-> <<>>] /\ commands' = {} /\ spawned' = spawned
      /\ faults < MaxFaults /\ faults' = faults + 1
      /\ reply' = [c \in Clients |-> IF reply[c] = "pending" THEN "error" ELSE reply[c]]
  BY DEF RunnerDies, Fault
<1>3. \A p \in Processes, k \in Kinds : Awaiting(p, k)' = {}
  BY <1>1, <1>2 DEF Awaiting
<1>4. Restarting' = {}
  BY <1>3 DEF Restarting, Kinds
<1>5. SpawnsLeft'
  <2>1. Cardinality(Restarting') = 0 /\ spawned \in 0..MaxSpawns
    BY <1>4, FS_EmptySet DEF RunnerInv, TypeOK
  <2> QED
    BY <1>2, <2>1, RunnerAssumption DEF SpawnsLeft
<1>6. TypeOK'
  <2>1. awaiting' \in [Processes -> Seq(Waiters)] /\ reply' \in [Clients -> Answers]
    BY <1>1, <1>2 DEF RunnerInv, TypeOK, Answers
  <2>2. faults' \in 0..MaxFaults
    BY <1>2, RunnerAssumption DEF RunnerInv, TypeOK
  <2> QED
    BY <1>2, <2>1, <2>2 DEF RunnerDies, RunnerInv, TypeOK, agent
<1>7. Busy'
  BY <1>2, <1>3 DEF Busy, WaitsOnce, WaitersAreBusy, CommandersAreBusy
<1> QED
  BY <1>5, <1>6, <1>7 DEF RunnerInv

\* The tool's own steps answer nobody.
LEMMA RunnerSetup ==
  ASSUME RunnerInv, UNCHANGED <<server, package, reply, overlapped>>,
         setup' \in {"idle", "downloading", "installing", "starting"},
         report' \in {"none", "complete"} \union FailedSteps, setups' \in 0..MaxSetups,
         manifests' \subseteq Directories,
         faults' = faults \/ (faults < MaxFaults /\ faults' = faults + 1)
  PROVE  RunnerInv'
<1>1. faults' \in 0..MaxFaults
  BY RunnerAssumption DEF RunnerInv, TypeOK
<1>2. TypeOK'
  BY <1>1 DEF RunnerInv, TypeOK, server, package
<1>3. Busy'
  BY SameAwaiting DEF RunnerInv, Busy, WaitsOnce, WaitersAreBusy, CommandersAreBusy,
                      server, package
<1> QED
  BY <1>2, <1>3, RunnerUnchanged DEF server

LEMMA RunnerStep == RunnerInv /\ Exclusive /\ [Next]_vars => RunnerInv'
<1> SUFFICES ASSUME RunnerInv, Exclusive, [Next]_vars PROVE RunnerInv'
  OBVIOUS
<1>0. /\ setup \in {"idle", "downloading", "installing", "starting"}
      /\ report \in {"none", "complete"} \union FailedSteps
      /\ setups \in 0..MaxSetups /\ manifests \subseteq Directories /\ MaxSetups \in Nat
  BY RunnerAssumption DEF RunnerInv, TypeOK
<1>1. CASE UNCHANGED vars
  BY <1>0, <1>1, RunnerSetup DEF vars, agent
<1>2. CASE BeginSetup
  BY <1>0, <1>2, RunnerSetup DEF BeginSetup
<1>3. CASE TemplateExtracted
  <2>1. "agent" \in Clients /\ manifests' \subseteq Directories
    BY <1>0, <1>3 DEF TemplateExtracted, Directories, Clients
  <2> QED
    BY <1>3, <2>1, RunnerRuns DEF TemplateExtracted
<1>4. CASE TemplateFails \/ RunnerUnreachable
  <2>1. /\ setup' = "idle" /\ report' \in FailedSteps /\ manifests' \subseteq Directories
        /\ UNCHANGED <<server, package, reply, overlapped, setups>>
        /\ faults < MaxFaults /\ faults' = faults + 1
    BY <1>0, <1>4 DEF TemplateFails, RunnerUnreachable, Fault, Return, FailedSteps, Directories
  <2> QED
    BY <1>0, <2>1, RunnerSetup
<1>5. ASSUME NEW c \in Clients, c = "agent" \/ Free(c), Start(c),
             setup' \in {"idle", "downloading", "installing", "starting"},
             UNCHANGED <<report, setups>>
      PROVE  RunnerInv'
  <2>1. CASE Respond(c, "already_running") /\ UNCHANGED <<dev, alive, spawned, lastExit>>
    BY <1>0, <1>5, <2>1, RunnerAnswers DEF Start, server, Answers
  <2>2. CASE dev = 0 /\ SpawnOrThrow(c, "started")
    BY <1>0, <1>5, <2>2, RunnerSpawns DEF Start, Answers
  <2> QED
    BY <1>5, <2>1, <2>2 DEF Start
<1>6. CASE InstallAnswered
  <2>1. CASE setup' = "starting" /\ Start("agent") /\ UNCHANGED <<report, setups>>
    BY <1>5, <2>1 DEF Clients
  <2>2. CASE /\ setup' = "idle" /\ report' \in FailedSteps
             /\ UNCHANGED <<server, package, reply, manifests, faults, overlapped, setups>>
    BY <1>0, <2>2, RunnerSetup
  <2> QED
    BY <1>6, <2>1, <2>2 DEF InstallAnswered, Return, FailedSteps
<1>7. CASE StartAnswered
  <2>1. /\ setup' = "idle" /\ report' \in {"none", "complete"} \union FailedSteps
        /\ UNCHANGED <<server, package, reply, manifests, faults, overlapped, setups>>
    BY <1>7 DEF StartAnswered, Return, FailedSteps
  <2> QED
    BY <1>0, <2>1, RunnerSetup
<1>8. ASSUME NEW c \in Callers, Free(c) /\ Start(c) /\ UNCHANGED agent PROVE RunnerInv'
  BY <1>0, <1>5, <1>8 DEF agent, Clients
<1>9. ASSUME NEW c \in Callers, Stop(c) PROVE RunnerInv'
  <2>1. CASE dev # 0 /\ AwaitExit(c, "stop")
    BY <1>9, <2>1, RunnerWaits DEF Stop, Kinds
  <2>2. CASE Respond(c, "not_running") /\ UNCHANGED <<server, overlapped>>
    BY <1>0, <1>9, <2>2, RunnerAnswers DEF Stop, agent, Answers, Clients
  <2> QED
    BY <1>9, <2>1, <2>2 DEF Stop
<1>10. ASSUME NEW c \in Callers, Restart(c) PROVE RunnerInv'
  <2>1. CASE dev # 0 /\ AwaitExit(c, "restart")
    BY <1>10, <2>1, RunnerWaits DEF Restart, Kinds
  <2>2. CASE /\ dev = 0 /\ SpawnOrThrow(c, "restarted")
             /\ UNCHANGED <<killed, awaiting, overlapped>>
    BY <1>0, <1>10, <2>2, RunnerSpawns DEF Restart, agent, Answers, Clients
  <2> QED
    BY <1>10, <2>1, <2>2 DEF Restart
<1>11. ASSUME NEW c \in Callers, NEW kind \in {"install", "package"},
              RunPackageCommand(c, kind)
       PROVE  RunnerInv'
  BY <1>0, <1>11, RunnerRuns DEF RunPackageCommand, agent, Clients
<1>12. ASSUME NEW p \in alive, Exits(p) PROVE RunnerInv'
  BY <1>12, RunnerExits
<1>13. ASSUME NEW m \in commands, CommandExits(m) PROVE RunnerInv'
  BY <1>13, RunnerCommandExits
<1>14. CASE RunnerDies
  BY <1>14, RunnerRestarts
<1> QED
  BY <1>1, <1>2, <1>3, <1>4, <1>6, <1>7, <1>8, <1>9, <1>10, <1>11, <1>12, <1>13, <1>14
    DEF Next, Setup

LEMMA RunnerHolds == Spec => [](RunnerInv /\ Exclusive)
<1>1. Init => Exclusive
  BY DEF Init, Exclusive
<1> QED
  BY <1>1, RunnerInit, RunnerStep, ExclusiveStep, PTL DEF Spec

\* The pointer to the dev server is null or points to a process that has not
\* exited, and every server that was sent SIGTERM and every one that is awaited
\* is one that was spawned.
THEOREM RunnerTypeCorrect == Spec => []TypeOK
<1>1. RunnerInv => TypeOK
  BY DEF RunnerInv
<1> QED
  BY <1>1, RunnerHolds, PTL

-----------------------------------------------------------------------------
(* One server on the port                                                  *)

\* OneServerOnPort is not inductive alone: an exit spawns one server for each
\* /restart that awaits it, so one request at most may wait, and for the
\* current server.
OneWaits ==
  \A p \in Processes : awaiting[p] # <<>> => p = dev /\ Len(awaiting[p]) = 1
PortInv == ~overlapped => alive \subseteq {dev} /\ OneWaits

LEMMA PortUnchanged ==
  ASSUME PortInv, UNCHANGED <<dev, alive, awaiting>>, overlapped => overlapped'
  PROVE  PortInv'
<1>1. OneWaits' <=> OneWaits
  BY DEF OneWaits
<1>2. CASE overlapped'
  BY <1>2 DEF PortInv
<1>3. CASE ~overlapped'
  BY <1>1, <1>3 DEF PortInv
<1> QED
  BY <1>2, <1>3

\* A server is spawned when there is none and nobody waits.
LEMMA PortSpawns ==
  ASSUME RunnerInv, PortInv, NEW c, NEW answer, dev = 0, SpawnOrThrow(c, answer),
         UNCHANGED <<awaiting, overlapped>>
  PROVE  PortInv'
<1>1. CASE Spawn
  <2>1. dev' = spawned + 1 /\ alive' = alive \union {spawned + 1}
    BY <1>1 DEF Spawn
  <2>2. 0 \notin alive /\ 0 \notin Processes
    BY DEF RunnerInv, TypeOK, Processes
  <2>3. ~overlapped => alive = {} /\ \A p \in Processes : awaiting[p] = <<>>
    BY <2>2 DEF PortInv, OneWaits
  <2> QED
    BY <2>1, <2>3 DEF PortInv, OneWaits
<1> QED
  BY <1>1, PortUnchanged DEF SpawnOrThrow

\* A request waits for the current server; a second one is an overlap.
LEMMA PortWaits ==
  ASSUME RunnerInv, PortInv, NEW c \in Callers, NEW kind \in Kinds, dev # 0,
         AwaitExit(c, kind)
  PROVE  PortInv'
<1>1. /\ Len(awaiting'[dev]) = Len(awaiting[dev]) + 1
      /\ \A p \in Processes : p # dev => awaiting'[p] = awaiting[p]
  BY JoinsAwaiting DEF RunnerInv
<1>2. UNCHANGED <<dev, alive>> /\ dev \in Processes
  BY PointerIsProcess DEF AwaitExit, RunnerInv
<1> SUFFICES ASSUME ~overlapped' PROVE (alive \subseteq {dev} /\ OneWaits)'
  BY DEF PortInv
<1>3. ~overlapped /\ \A p \in Processes : awaiting[p] = <<>>
  BY DEF AwaitExit
<1>4. Len(awaiting'[dev]) = 1
  BY <1>1, <1>2, <1>3, EmptySeq
<1> QED
  BY <1>1, <1>2, <1>3, <1>4 DEF PortInv, OneWaits

\* The server exits, and is replaced by one when a /restart awaited it.
LEMMA PortExits == ASSUME RunnerInv, PortInv, NEW p \in alive, Exits(p) PROVE PortInv'
<1> DEFINE new == Cardinality(Awaiting(p, "restart"))
           last == IF awaiting[p] = <<>> THEN "watcher"
                   ELSE awaiting[p][Len(awaiting[p])].kind
<1>0. p \in Processes /\ spawned \in Nat /\ awaiting[p] \in Seq(Waiters)
  BY RunnerAssumption DEF RunnerInv, TypeOK, Processes
<1>1. /\ alive' = (alive \ {p}) \union (spawned + 1 .. spawned + new)
      /\ overlapped' = overlapped
      /\ dev' = CASE last = "restart" -> spawned + new
                  [] last = "stop"    -> 0
                  [] last = "watcher" -> IF dev = p THEN 0 ELSE dev
  BY DEF Exits
<1>2. awaiting'[p] = <<>> /\ \A q \in Processes : q # p => awaiting'[q] = awaiting[q]
  BY <1>0, LeavesAwaiting DEF RunnerInv
<1> SUFFICES ASSUME ~overlapped PROVE (alive \subseteq {dev} /\ OneWaits)'
  BY <1>1 DEF PortInv
<1>3. p = dev /\ alive = {p} /\ OneWaits
  BY DEF PortInv
<1>4. \A q \in Processes : awaiting'[q] = <<>>
  BY <1>2, <1>3 DEF OneWaits
<1>5. OneWaits'
  BY <1>4 DEF OneWaits
<1>6. alive' = spawned + 1 .. spawned + new
  BY <1>1, <1>3
<1>7. CASE awaiting[p] = <<>>
  <2>1. Awaiting(p, "restart") = {}
    BY <1>7, EmptySeq DEF Awaiting
  <2>2. new = 0
    BY <2>1, FS_EmptySet
  <2> QED
    BY <1>0, <1>5, <1>6, <2>2
<1>8. CASE awaiting[p] # <<>>
  <2> DEFINE w == awaiting[p][1]
  <2>1. Len(awaiting[p]) = 1 /\ DOMAIN awaiting[p] = {1}
    BY <1>0, <1>3, <1>8, LenProperties DEF OneWaits
  <2>2. w \in Waiters /\ last = w.kind
    BY <1>0, <1>8, <2>1, ElementOfSeq
  <2>3. w.by \in Callers /\ w.kind \in {"stop", "restart"}
        /\ w = [by |-> w.by, kind |-> w.kind]
    BY <2>2 DEF Waiters
  <2>4. \A c \in Callers : c \in Awaiting(p, "restart") <=> w = [by |-> c, kind |-> "restart"]
    BY <2>1 DEF Awaiting
  <2>5. Awaiting(p, "restart") \subseteq Callers
    BY DEF Awaiting
  <2> HIDE DEF w, last
  <2>6. CASE w.kind = "stop"
    <3>1. Awaiting(p, "restart") = {}
      BY <2>3, <2>4, <2>5, <2>6
    <3>2. new = 0
      BY <3>1, FS_EmptySet
    <3> QED
      BY <1>0, <1>5, <1>6, <3>2
  <2>7. CASE w.kind = "restart"
    <3>1. Awaiting(p, "restart") = {w.by}
      BY <2>3, <2>4, <2>5, <2>7
    <3>2. new = 1
      BY <3>1, FS_Singleton
    <3>3. dev' = spawned + 1
      BY <1>1, <2>2, <2>7, <3>2
    <3> QED
      BY <1>0, <1>5, <1>6, <3>2, <3>3
  <2> QED
    BY <2>3, <2>6, <2>7
<1> QED
  BY <1>7, <1>8

LEMMA PortStep == RunnerInv /\ PortInv /\ [Next]_vars => PortInv'
<1> SUFFICES ASSUME RunnerInv, PortInv, [Next]_vars PROVE PortInv'
  OBVIOUS
<1>0. ASSUME UNCHANGED <<server, overlapped>> PROVE PortInv'
  BY <1>0, PortUnchanged DEF server
<1>1. CASE UNCHANGED vars
  BY <1>0, <1>1 DEF vars
<1>2. ASSUME NEW c, Start(c) PROVE PortInv'
  <2>1. CASE dev = 0 /\ SpawnOrThrow(c, "started")
    BY <1>2, <2>1, PortSpawns DEF Start
  <2>2. CASE UNCHANGED <<dev, alive>>
    BY <1>2, <2>2, PortUnchanged DEF Start
  <2> QED
    BY <1>2, <2>1, <2>2 DEF Start
<1>3. CASE BeginSetup \/ Setup
  <2>1. CASE InstallAnswered
    BY <1>0, <1>2, <2>1 DEF InstallAnswered
  <2>2. CASE BeginSetup \/ TemplateFails \/ RunnerUnreachable \/ StartAnswered
    BY <1>0, <2>2 DEF BeginSetup, TemplateFails, RunnerUnreachable, StartAnswered
  <2>3. CASE TemplateExtracted
    BY <1>0, <2>3 DEF TemplateExtracted, RunExclusive
  <2> QED
    BY <1>3, <2>1, <2>2, <2>3 DEF Setup
<1>4. ASSUME NEW c \in Callers, Stop(c) PROVE PortInv'
  BY <1>0, <1>4, PortWaits DEF Stop, Kinds
<1>5. ASSUME NEW c \in Callers, Restart(c) PROVE PortInv'
  <2>1. CASE dev # 0 /\ AwaitExit(c, "restart")
    BY <2>1, PortWaits DEF Kinds
  <2>2. CASE dev = 0 /\ SpawnOrThrow(c, "restarted") /\ UNCHANGED <<awaiting, overlapped>>
    BY <2>2, PortSpawns
  <2> QED
    BY <1>5, <2>1, <2>2 DEF Restart
<1>6. ASSUME NEW c \in Callers, NEW kind \in {"install", "package"},
             RunPackageCommand(c, kind)
      PROVE  PortInv'
  BY <1>0, <1>6 DEF RunPackageCommand, RunExclusive
<1>7. ASSUME NEW p \in alive, Exits(p) PROVE PortInv'
  BY <1>7, PortExits
<1>8. ASSUME NEW m \in commands, CommandExits(m) PROVE PortInv'
  BY <1>0, <1>8 DEF CommandExits
<1>9. CASE RunnerDies
  BY <1>9 DEF RunnerDies, PortInv, OneWaits
<1> QED
  BY <1>1, <1>2, <1>3, <1>4, <1>5, <1>6, <1>7, <1>8, <1>9 DEF Next

\* While /stop and /restart do not overlap, whatever /start, package commands,
\* crashes of dev servers and restarts of the runner do, at most one dev server
\* contends for the port and the pointer has it (/restart awaits the exit).
THEOREM DevServerAlone == Spec => []OneServerOnPort
<1>1. Init => PortInv
  BY DEF Init, PortInv, OneWaits
<1>2. PortInv => OneServerOnPort
  BY DEF PortInv, OneServerOnPort
<1> QED
  BY <1>1, <1>2, RunnerHolds, PortStep, PTL DEF Spec

=============================================================================
