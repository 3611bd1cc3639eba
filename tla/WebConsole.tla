----------------------------- MODULE WebConsole -----------------------------
(***************************************************************************)
(* Starting, stopping and replacing the system from the web console.       *)
(* Flask serves every request on a thread of its own, and all requests act *)
(* on the global system_instance without a lock.  A request is the list of *)
(* the steps it still has to take; a step is what one thread does to the   *)
(* shared state at once.  Each service of a system has a flag, and loops   *)
(* that end when they find the flag down after a sleep.                    *)
(***************************************************************************)
EXTENDS Naturals, Sequences, FiniteSets

CONSTANTS
  Requests,         \* the threads that serve requests
  max_log_entries,
  MaxSystems,       \* bound: the systems ever created
  MaxLoops,         \* bound: the loops of one service alive at a time
  MaxRequests       \* bound: the requests that are ever served

ASSUME ConsoleAssumption ==
  /\ IsFiniteSet(Requests)
  /\ {max_log_entries, MaxSystems, MaxLoops, MaxRequests} \subseteq Nat \ {0}

Systems == 1 .. MaxSystems
None == 0

\* The services of a system with a running flag: the system itself, BinSimulator,
\* FogNodeSimulator, LeaderManager's heartbeat, a FogNode.
Services == {"system", "bins", "fog", "heartbeat", "node"}

\* Those whose flag a thread's loop reads; fog's is the delivery thread.
Loops == Services \ {"system"}

VARIABLES
  system_instance,  \* the global, None before the first system
  served,           \* how many requests have arrived
  created,          \* how many systems were created
  up,               \* per system, the services whose flag is up
  loops,            \* per system and service, its loops alive
  event_log,        \* per system, the number of entries of its log
  todo,             \* per request, the steps left
  on,               \* per request, the system it works on
  alerting,         \* per system, its simulation threads logging an overflow
  overlapped        \* ghost: two requests were served at the same time

vars == <<served, system_instance, created, up, loops, event_log, todo, on, alerting,
          overlapped>>

Step == [do : {"enter", "create", "append", "trim"}]
          \cup [do : {"raise", "clear"}, s : Services]
          \cup [do : {"spawn"}, s : Loops]
          \cup [do : {"test"}, s : Services, skip : Nat]

Enter == [do |-> "enter"]
Create == [do |-> "create"]
Raise(s) == [do |-> "raise", s |-> s]
Clear(s) == [do |-> "clear", s |-> s]
Spawn(s) == [do |-> "spawn", s |-> s]

\* "if self.running: return", which leaves out the next n steps.
Test(s, n) == [do |-> "test", s |-> s, skip |-> n]

\* _log_event appends the entry and then looks at the length.
Log == <<[do |-> "append"], [do |-> "trim"]>>

\* FogNode.start_node
StartNode == <<Test("node", 2), Raise("node"), Spawn("node")>>

\* LeaderManager.start_heartbeat_service
StartHeartbeat == <<Test("heartbeat", 2), Raise("heartbeat"), Spawn("heartbeat")>>

\* BinSimulator.start_simulation
StartBins == <<Test("bins", 2), Raise("bins"), Spawn("bins")>>

\* FogNodeSimulator.start_simulation: nodes, delivery, heartbeat.
StartFog ==
  <<Test("fog", 8), Raise("fog")>> \o StartNode \o <<Spawn("fog")>> \o StartHeartbeat

\* SmartWasteSystem.start
Start == <<Test("system", 15), Raise("system")>> \o StartBins \o StartFog \o Log

\* Faulty variant of Stop: the heartbeat service is left alone.
Stop_Beating ==
  <<Clear("system"), Clear("bins"), Clear("fog"), Clear("node")>> \o Log

\* SmartWasteSystem.stop, BinSimulator.stop_simulation and
\* FogNodeSimulator.stop_simulation.
Stop ==
  <<Clear("system"), Clear("bins"), Clear("fog"), Clear("heartbeat"), Clear("node")>>
    \o Log

\* api_system_start creates the system if there is none.
ApiStart == (IF system_instance = None THEN <<Create>> ELSE <<>>) \o <<Enter>> \o Start

\* api_system_stop, and Ctrl+C in launch.py.
ApiStop == IF system_instance = None THEN <<>> ELSE <<Enter>> \o Stop

\* Faulty variant of ApiConfig: the system in place is not stopped.
ApiConfig_Replaced == <<Create, Enter>> \o Start

\* api_system_config stops the system in place and starts a new one.
ApiConfig == ApiStop \o <<Create, Enter>> \o Start

\* api_empty_bin and api_trigger_election, as far as the console keeps them.
ApiAct == IF system_instance = None THEN <<>> ELSE <<Enter>> \o Log

-----------------------------------------------------------------------------
Init ==
  /\ system_instance = None /\ created = 0 /\ served = 0
  /\ up = [i \in Systems |-> {}]
  /\ loops = [i \in Systems |-> [s \in Loops |-> 0]]
  /\ event_log = [i \in Systems |-> 0]
  /\ todo = [r \in Requests |-> <<>>]
  /\ on = [r \in Requests |-> None]
  /\ alerting = [i \in Systems |-> 0]
  /\ overlapped = FALSE

\* A request arrives.
Arrive(r, steps) ==
  /\ todo[r] = <<>>
  /\ steps # <<>>
  /\ served < MaxRequests /\ served' = served + 1
  /\ todo' = [todo EXCEPT ![r] = steps]
  /\ on' = [on EXCEPT ![r] = None]
  /\ overlapped' = (overlapped \/ \E q \in Requests \ {r} : todo[q] # <<>>)
  /\ UNCHANGED <<system_instance, created, up, loops, event_log, alerting>>

\* The request's next step is of this kind; it is taken.
Takes(r, kind) ==
  /\ todo[r] # <<>>
  /\ Head(todo[r]).do = kind
  /\ todo' = [todo EXCEPT ![r] = Tail(@)]

\* The system is built and assigned to the global.
CreateSystem(r) ==
  /\ Takes(r, "create")
  /\ created < MaxSystems
  /\ created' = created + 1 /\ system_instance' = created + 1
  /\ UNCHANGED <<served, up, loops, event_log, on, alerting, overlapped>>

\* The method is called on the system that is the global now.
EnterSystem(r) ==
  /\ Takes(r, "enter")
  /\ on' = [on EXCEPT ![r] = system_instance]
  /\ UNCHANGED <<served, system_instance, created, up, loops, event_log, alerting,
                 overlapped>>

TestFlag(r) ==
  /\ todo[r] # <<>>
  /\ LET step == Head(todo[r])
     IN /\ step.do = "test"
        /\ todo' = [todo EXCEPT ![r] =
             IF step.s \in up[on[r]] THEN SubSeq(@, step.skip + 2, Len(@)) ELSE Tail(@)]
  /\ UNCHANGED <<served, system_instance, created, up, loops, event_log, on, alerting,
                 overlapped>>

RaiseFlag(r) ==
  /\ Takes(r, "raise")
  /\ up' = [up EXCEPT ![on[r]] = @ \cup {Head(todo[r]).s}]
  /\ UNCHANGED <<served, system_instance, created, loops, event_log, on, alerting,
                 overlapped>>

ClearFlag(r) ==
  /\ Takes(r, "clear")
  /\ up' = [up EXCEPT ![on[r]] = @ \ {Head(todo[r]).s}]
  /\ UNCHANGED <<served, system_instance, created, loops, event_log, on, alerting,
                 overlapped>>

\* A thread with the service's loop is started.
SpawnLoop(r) ==
  /\ Takes(r, "spawn")
  /\ LET s == Head(todo[r]).s
     IN /\ loops[on[r]][s] < MaxLoops
        /\ loops' = [loops EXCEPT ![on[r]][s] = @ + 1]
  /\ UNCHANGED <<served, system_instance, created, up, event_log, on, alerting,
                 overlapped>>

AppendEntry(r) ==
  /\ Takes(r, "append")
  /\ event_log' = [event_log EXCEPT ![on[r]] = @ + 1]
  /\ UNCHANGED <<served, system_instance, created, up, loops, on, alerting,
                 overlapped>>

\* Faulty variant of Trimmed: the oldest entry goes only at the exact length.
Trimmed_Exact(n) == IF n = max_log_entries + 1 THEN n - 1 ELSE n

\* The log without its oldest entry if it is too long.
Trimmed(n) == IF n > max_log_entries THEN n - 1 ELSE n

Trim(r) ==
  /\ Takes(r, "trim")
  /\ event_log' = [event_log EXCEPT ![on[r]] = Trimmed(@)]
  /\ UNCHANGED <<served, system_instance, created, up, loops, on, alerting,
                 overlapped>>

\* A simulation thread logs an overflow (handle_overflow).
AlertAppend(i) ==
  /\ alerting[i] < loops[i]["bins"]
  /\ event_log' = [event_log EXCEPT ![i] = @ + 1]
  /\ alerting' = [alerting EXCEPT ![i] = @ + 1]
  /\ UNCHANGED <<served, system_instance, created, up, loops, todo, on,
                 overlapped>>

AlertTrim(i) ==
  /\ alerting[i] > 0
  /\ event_log' = [event_log EXCEPT ![i] = Trimmed(@)]
  /\ alerting' = [alerting EXCEPT ![i] = @ - 1]
  /\ UNCHANGED <<served, system_instance, created, up, loops, todo, on,
                 overlapped>>

\* Faulty variant of Ends: the loops read the flag of the whole system.
Ends_System(i, s) == "system" \notin up[i]

\* A loop ends when it finds the flag of its service down.
Ends(i, s) == s \notin up[i]

LoopEnds(i, s) ==
  /\ loops[i][s] > 0
  /\ Ends(i, s)
  /\ s = "bins" => alerting[i] < loops[i][s]
  /\ loops' = [loops EXCEPT ![i][s] = @ - 1]
  /\ UNCHANGED <<served, system_instance, created, up, event_log, todo, on, alerting,
                 overlapped>>

Serve(r) ==
  \/ CreateSystem(r) \/ EnterSystem(r) \/ TestFlag(r) \/ RaiseFlag(r) \/ ClearFlag(r)
  \/ SpawnLoop(r) \/ AppendEntry(r) \/ Trim(r)

Next ==
  \/ \E r \in Requests :
       \/ Serve(r)
       \/ Arrive(r, ApiStart) \/ Arrive(r, ApiStop) \/ Arrive(r, ApiConfig)
       \/ Arrive(r, ApiAct)
  \/ \E i \in Systems : AlertAppend(i) \/ AlertTrim(i) \/ \E s \in Loops : LoopEnds(i, s)

Spec == Init /\ [][Next]_vars

-----------------------------------------------------------------------------
TypeOK ==
  /\ created \in 0 .. MaxSystems /\ served \in 0 .. MaxRequests
  /\ system_instance \in 0 .. created
  /\ up \in [Systems -> SUBSET Services]
  /\ loops \in [Systems -> [Loops -> 0 .. MaxLoops]]
  /\ event_log \in [Systems -> Nat]
  /\ todo \in [Requests -> Seq(Step)] /\ on \in [Requests -> 0 .. MaxSystems]
  /\ alerting \in [Systems -> 0 .. MaxLoops] /\ overlapped \in BOOLEAN

\* While requests come one at a time, only the system the console shows runs: a
\* system that was replaced has no service up (api_system_config).
OnlyOneRuns ==
  ~overlapped => \A i \in Systems : i # system_instance => up[i] = {}

\* While requests come one at a time, a system is started or stopped as a whole, also
\* when it is started twice or stopped before it ran (start, stop and the guards of
\* the services they reach).
StartedAsAWhole ==
  (~overlapped /\ \A r \in Requests : todo[r] = <<>>)
    => \A i \in Systems : up[i] \in {{}, Services}

\* The request is about to start the loop of service s of system i.
AboutToSpawn(i, s) ==
  \E r \in Requests :
    on[r] = i /\ \E k \in DOMAIN todo[r] : todo[r][k] = Spawn(s)

\* However requests overlap, a service whose flag is up has a loop, or a request is
\* about to start one: it never only looks as if it ran (start_simulation,
\* start_node, start_heartbeat_service and the loops).
UpHasLoop ==
  \A i \in Systems, s \in Loops :
    s \in up[i] => loops[i][s] > 0 \/ AboutToSpawn(i, s)

\* The log never holds more entries than max_log_entries and those just appended by
\* threads that have yet to look at its length (_log_event).
LogBounded ==
  \A i \in Systems :
    event_log[i] <= max_log_entries
      + Cardinality({r \in Requests :
          on[r] = i /\ todo[r] # <<>> /\ Head(todo[r]).do = "trim"})
      + alerting[i]
=============================================================================
