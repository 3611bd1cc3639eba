-------------------------- MODULE WebConsoleProofs --------------------------
(***************************************************************************)
(* Proofs about WebConsole, for any number of requests, systems and loops. *)
(*                                                                         *)
(* A request is the list of the steps it has left, so what is true of the  *)
(* system between two steps depends on what the lists still hold.          *)
(* WellFormed says what every such list keeps of the program it is the     *)
(* rest of; Mode says how the flags of the system and the rest of the one  *)
(* request under way fit together while requests come one at a time.       *)
(***************************************************************************)
EXTENDS WebConsole, FiniteSetTheorems, TLAPS

Append1 == [do |-> "append"]
Trim1 == [do |-> "trim"]

\* A raised flag's loop is started further on.
LoopFollows(q) ==
  \A k \in DOMAIN q, s \in Loops :
    q[k] = Raise(s) => \E j \in DOMAIN q : k < j /\ q[j] = Spawn(s)

\* A flag is raised once, and not looked at again.
RaisedOnce(q) ==
  \A k, j \in DOMAIN q, s \in Services :
    k < j /\ q[k] = Raise(s)
      => q[j] # Raise(s) /\ \A n \in Nat : q[j] # Test(s, n)

\* From k on, the loop at j is started only after its flag was raised.
RaisedBetween(q, k, j, s) == \E i \in DOMAIN q : k < i /\ i < j /\ q[i] = Raise(s)

\* What a test leaves out is there, and holds with every loop its flag.
SkipsWhole(q) ==
  \A k \in DOMAIN q, s \in Services, n \in Nat :
    q[k] = Test(s, n)
      => /\ k + n <= Len(q)
         /\ \A j \in DOMAIN q, t \in Loops :
              k < j /\ j <= k + n /\ q[j] = Spawn(t) => RaisedBetween(q, k, j, t)

\* A method that starts a loop raises its flag itself.
EntersAfresh(q) ==
  \A k, j \in DOMAIN q, s \in Loops :
    k < j /\ q[k] = Enter /\ q[j] = Spawn(s) => RaisedBetween(q, k, j, s)

\* A new system is started at once, and as a whole; nothing is stopped after it.
StartsCreated(q) ==
  \A k \in DOMAIN q :
    q[k] = Create
      => /\ k + 1 \in DOMAIN q /\ q[k + 1] = Enter
         /\ \A s \in Services : \E j \in DOMAIN q : k < j /\ q[j] = Raise(s)
         /\ \A j \in DOMAIN q : k < j => q[j].do \notin {"create", "clear"}

\* A thread that appends an entry looks at the length next.
LogsTrim(q) ==
  \A k \in DOMAIN q : q[k] = Append1 => k + 1 \in DOMAIN q /\ q[k + 1] = Trim1

\* What the rest of every request's program satisfies.
WellFormed(q) ==
  /\ LoopFollows(q) /\ RaisedOnce(q) /\ SkipsWhole(q)
  /\ EntersAfresh(q) /\ StartsCreated(q) /\ LogsTrim(q)

\* The request has raised the flag of s and not yet started its loop.
Committed(q, s) ==
  \E j \in DOMAIN q : q[j] = Spawn(s) /\ \A i \in DOMAIN q : i < j => q[i] # Raise(s)

\* A flag that is up has a loop, or a request committed to start it.
Backed ==
  \A i \in Systems, s \in Loops :
    s \in up[i] => \/ loops[i][s] > 0
                   \/ \E r \in Requests : on[r] = i /\ Committed(todo[r], s)

\* The system a request works on is one that was created.
OnCreated(r) ==
  todo[r] # <<>>
    => \/ Head(todo[r]) = Create
       \/ /\ system_instance # None
          /\ Head(todo[r]) = Enter \/ on[r] \in 1 .. created

\* While requests come one at a time: at most one is under way, ...
OneAtATime ==
  \A r, p \in Requests : todo[r] # <<>> /\ todo[p] # <<>> => r = p

\* ... and once it is in a method it works on the system in place.
OnCurrent(r) ==
  todo[r] # <<>>
    => Head(todo[r]) \in {Create, Enter} \/ on[r] = system_instance

\* The flags of the system in place.
Flags == IF system_instance = None THEN {} ELSE up[system_instance]

\* The request leaves the flags alone.
Leaves(q, U) ==
  /\ U \in {{}, Services}
  /\ \A k \in DOMAIN q : q[k].do \in {"enter", "append", "trim", "spawn"}

\* The request stops the system, and may then start a new one.
Stops(q, U) ==
  /\ \A s \in U : \E k \in DOMAIN q : q[k] = Clear(s)
  /\ \A k \in DOMAIN q :
       q[k].do \in {"raise", "test"} => \E j \in DOMAIN q : j < k /\ q[j] = Create

\* The request starts the system: what is not up is still to be raised, and every
\* test it has left finds its flag down.
Starts(q, U) ==
  /\ \A s \in Services : s \in U \/ \E k \in DOMAIN q : q[k] = Raise(s)
  /\ \A k \in DOMAIN q : q[k].do = "test" => q[k].s \notin U
  /\ \A k \in DOMAIN q : q[k].do \notin {"create", "clear"}

\* The request is about to find that the system runs.
FindsRunning(q, U) ==
  /\ U = Services
  /\ \E k \in DOMAIN q : /\ q[k] = Test("system", Len(q) - k)
                         /\ \A j \in DOMAIN q : j < k => q[j] = Enter

Mode(q, U) == Leaves(q, U) \/ Stops(q, U) \/ Starts(q, U) \/ FindsRunning(q, U)

\* The inductive invariant while requests come one at a time.
Alone ==
  /\ OneAtATime
  /\ \A r \in Requests : OnCurrent(r) /\ (todo[r] # <<>> => Mode(todo[r], Flags))
  /\ (\A r \in Requests : todo[r] = <<>>) => Flags \in {{}, Services}
  /\ \A i \in Systems : i # system_instance => up[i] = {}
  /\ \A i \in Systems : i > created => up[i] = {}

IInv ==
  /\ TypeOK
  /\ \A r \in Requests : WellFormed(todo[r]) /\ OnCreated(r)
  /\ Backed
  /\ LogBounded
  /\ ~overlapped => Alone
-----------------------------------------------------------------------------
(***************************************************************************)
(* The programs.                                                           *)
(***************************************************************************)

LEMMA StepTypes ==
  /\ Enter \in Step /\ Create \in Step /\ Append1 \in Step /\ Trim1 \in Step
  /\ \A s \in Services : Raise(s) \in Step /\ Clear(s) \in Step
  /\ \A s \in Loops : Spawn(s) \in Step
  /\ \A s \in Services, n \in Nat : Test(s, n) \in Step
  BY DEF Step, Enter, Create, Append1, Trim1, Raise, Clear, Spawn, Test

\* A step is one of these kinds.
LEMMA StepKinds ==
  ASSUME NEW x \in Step
  PROVE  \/ x = Enter \/ x = Create \/ x = Append1 \/ x = Trim1
         \/ \E s \in Services : x = Raise(s) \/ x = Clear(s)
         \/ \E s \in Loops : x = Spawn(s)
         \/ \E s \in Services, n \in Nat : x = Test(s, n)
  BY DEF Step, Enter, Create, Append1, Trim1, Raise, Clear, Spawn, Test

\* The steps of different kinds differ.
LEMMA Kinds ==
  /\ Enter.do = "enter" /\ Create.do = "create"
  /\ Append1.do = "append" /\ Trim1.do = "trim"
  /\ \A s : /\ Raise(s).do = "raise" /\ Raise(s).s = s
            /\ Clear(s).do = "clear" /\ Clear(s).s = s
            /\ Spawn(s).do = "spawn" /\ Spawn(s).s = s
            /\ \A n : /\ Test(s, n).do = "test" /\ Test(s, n).s = s
                      /\ Test(s, n).skip = n
  BY DEF Enter, Create, Append1, Trim1, Raise, Clear, Spawn, Test

LEMMA LoopsAre == Loops = {"bins", "fog", "heartbeat", "node"} /\ Loops \subseteq Services
  BY DEF Loops, Services

LEMMA Joined ==
  ASSUME NEW p \in Seq(Step), NEW q \in Seq(Step)
  PROVE  /\ p \o q \in Seq(Step) /\ Len(p \o q) = Len(p) + Len(q)
         /\ \A k \in 1 .. Len(p) : (p \o q)[k] = p[k]
         /\ \A k \in 1 .. Len(q) : (p \o q)[Len(p) + k] = q[k]
         /\ \A k \in 1 .. Len(p \o q) : k > Len(p) => (p \o q)[k] = q[k - Len(p)]
  OBVIOUS

\* Adding the three steps with which a service is started.
LEMMA ServiceJoined ==
  ASSUME NEW p \in Seq(Step), NEW s \in Loops, NEW e,
         e = <<Test(s, 2), Raise(s), Spawn(s)>>
  PROVE  /\ p \o e \in Seq(Step) /\ Len(p \o e) = Len(p) + 3
         /\ \A k \in 1 .. Len(p) : (p \o e)[k] = p[k]
         /\ (p \o e)[Len(p) + 1] = Test(s, 2)
         /\ (p \o e)[Len(p) + 2] = Raise(s)
         /\ (p \o e)[Len(p) + 3] = Spawn(s)
<1>1. Test(s, 2) \in Step /\ Raise(s) \in Step /\ Spawn(s) \in Step
  BY StepTypes, LoopsAre
<1>2. /\ e \in Seq(Step) /\ Len(e) = 3
      /\ e[1] = Test(s, 2) /\ e[2] = Raise(s) /\ e[3] = Spawn(s)
  BY <1>1
<1> QED BY <1>2, Joined

\* Adding one step.
LEMMA OneJoined ==
  ASSUME NEW p \in Seq(Step), NEW x \in Step
  PROVE  /\ p \o <<x>> \in Seq(Step) /\ Len(p \o <<x>>) = Len(p) + 1
         /\ \A k \in 1 .. Len(p) : (p \o <<x>>)[k] = p[k]
         /\ (p \o <<x>>)[Len(p) + 1] = x
  OBVIOUS

\* _log_event
LEMMA LogSteps ==
  Log \in Seq(Step) /\ Len(Log) = 2 /\ Log[1] = Append1 /\ Log[2] = Trim1
  BY StepTypes DEF Log, Append1, Trim1

\* FogNodeSimulator.start_simulation, step by step.
LEMMA FogSteps ==
  /\ StartFog \in Seq(Step) /\ Len(StartFog) = 9
  /\ StartFog[1] = Test("fog", 8) /\ StartFog[2] = Raise("fog")
  /\ StartFog[3] = Test("node", 2) /\ StartFog[4] = Raise("node")
  /\ StartFog[5] = Spawn("node") /\ StartFog[6] = Spawn("fog")
  /\ StartFog[7] = Test("heartbeat", 2) /\ StartFog[8] = Raise("heartbeat")
  /\ StartFog[9] = Spawn("heartbeat")
<1> DEFINE a == <<Test("fog", 8), Raise("fog")>>
           b == a \o StartNode
           c == b \o <<Spawn("fog")>>
<1>1. {"fog", "node", "heartbeat"} \subseteq Loops
  BY LoopsAre
<1>2. /\ a \in Seq(Step) /\ Len(a) = 2
      /\ a[1] = Test("fog", 8) /\ a[2] = Raise("fog")
  <2>1. Test("fog", 8) \in Step /\ Raise("fog") \in Step
    BY <1>1, LoopsAre, StepTypes
  <2> QED BY <2>1
<1> HIDE DEF a
<1>3. /\ b \in Seq(Step) /\ Len(b) = 5
      /\ b[1] = Test("fog", 8) /\ b[2] = Raise("fog")
      /\ b[3] = Test("node", 2) /\ b[4] = Raise("node") /\ b[5] = Spawn("node")
  <2>1. /\ b \in Seq(Step) /\ Len(b) = Len(a) + 3
        /\ \A k \in 1 .. Len(a) : b[k] = a[k]
        /\ b[Len(a) + 1] = Test("node", 2)
        /\ b[Len(a) + 2] = Raise("node")
        /\ b[Len(a) + 3] = Spawn("node")
    BY <1>1, <1>2, ServiceJoined DEF StartNode
  <2> HIDE DEF b
  <2> QED BY <1>2, <2>1
<1> HIDE DEF b
<1>4. /\ c \in Seq(Step) /\ Len(c) = 6
      /\ c[1] = Test("fog", 8) /\ c[2] = Raise("fog")
      /\ c[3] = Test("node", 2) /\ c[4] = Raise("node") /\ c[5] = Spawn("node")
      /\ c[6] = Spawn("fog")
  <2>1. Spawn("fog") \in Step
    BY <1>1, StepTypes
  <2>2. /\ c \in Seq(Step) /\ Len(c) = Len(b) + 1
        /\ \A k \in 1 .. Len(b) : c[k] = b[k]
        /\ c[Len(b) + 1] = Spawn("fog")
    BY <1>3, <2>1, OneJoined
  <2> HIDE DEF c
  <2> QED BY <1>3, <2>2
<1> HIDE DEF c
<1>5. /\ StartFog \in Seq(Step) /\ Len(StartFog) = Len(c) + 3
      /\ \A k \in 1 .. Len(c) : StartFog[k] = c[k]
      /\ StartFog[Len(c) + 1] = Test("heartbeat", 2)
      /\ StartFog[Len(c) + 2] = Raise("heartbeat")
      /\ StartFog[Len(c) + 3] = Spawn("heartbeat")
  <2>1. StartFog = c \o StartHeartbeat
    BY DEF StartFog, a, b, c
  <2> QED BY <1>1, <1>4, <2>1, ServiceJoined DEF StartHeartbeat
<1> QED BY <1>4, <1>5

\* SmartWasteSystem.start, step by step.
LEMMA StartSteps ==
  /\ Start \in Seq(Step) /\ Len(Start) = 16
  /\ Start[1] = Test("system", 15) /\ Start[2] = Raise("system")
  /\ Start[3] = Test("bins", 2) /\ Start[4] = Raise("bins") /\ Start[5] = Spawn("bins")
  /\ Start[6] = Test("fog", 8) /\ Start[7] = Raise("fog")
  /\ Start[8] = Test("node", 2) /\ Start[9] = Raise("node")
  /\ Start[10] = Spawn("node") /\ Start[11] = Spawn("fog")
  /\ Start[12] = Test("heartbeat", 2) /\ Start[13] = Raise("heartbeat")
  /\ Start[14] = Spawn("heartbeat")
  /\ Start[15] = Append1 /\ Start[16] = Trim1
<1> DEFINE a == <<Test("system", 15), Raise("system")>>
           b == a \o StartBins
           c == b \o StartFog
<1>1. /\ a \in Seq(Step) /\ Len(a) = 2
      /\ a[1] = Test("system", 15) /\ a[2] = Raise("system")
  <2>1. Test("system", 15) \in Step /\ Raise("system") \in Step
    BY StepTypes DEF Services
  <2> QED BY <2>1
<1> HIDE DEF a
<1>2. /\ b \in Seq(Step) /\ Len(b) = 5
      /\ b[1] = Test("system", 15) /\ b[2] = Raise("system")
      /\ b[3] = Test("bins", 2) /\ b[4] = Raise("bins") /\ b[5] = Spawn("bins")
  <2>1. /\ b \in Seq(Step) /\ Len(b) = Len(a) + 3
        /\ \A k \in 1 .. Len(a) : b[k] = a[k]
        /\ b[Len(a) + 1] = Test("bins", 2)
        /\ b[Len(a) + 2] = Raise("bins")
        /\ b[Len(a) + 3] = Spawn("bins")
    BY <1>1, LoopsAre, ServiceJoined DEF StartBins
  <2> HIDE DEF b
  <2> QED BY <1>1, <2>1
<1> HIDE DEF b
<1>3. /\ c \in Seq(Step) /\ Len(c) = 14
      /\ c[1] = Test("system", 15) /\ c[2] = Raise("system")
      /\ c[3] = Test("bins", 2) /\ c[4] = Raise("bins") /\ c[5] = Spawn("bins")
      /\ c[6] = Test("fog", 8) /\ c[7] = Raise("fog")
      /\ c[8] = Test("node", 2) /\ c[9] = Raise("node")
      /\ c[10] = Spawn("node") /\ c[11] = Spawn("fog")
      /\ c[12] = Test("heartbeat", 2) /\ c[13] = Raise("heartbeat")
      /\ c[14] = Spawn("heartbeat")
  <2>1. /\ c \in Seq(Step) /\ Len(c) = Len(b) + Len(StartFog)
        /\ \A k \in 1 .. Len(b) : c[k] = b[k]
        /\ \A k \in 1 .. Len(c) : k > Len(b) => c[k] = StartFog[k - Len(b)]
    BY <1>2, FogSteps, Joined
  <2> HIDE DEF c
  <2> QED BY <1>2, <2>1, FogSteps
<1> HIDE DEF c
<1>4. /\ Start \in Seq(Step) /\ Len(Start) = Len(c) + 2
      /\ \A k \in 1 .. Len(c) : Start[k] = c[k]
      /\ Start[Len(c) + 1] = Append1 /\ Start[Len(c) + 2] = Trim1
  <2>1. Start = c \o Log
    BY DEF Start, a, b, c
  <2>2. /\ c \o Log \in Seq(Step) /\ Len(c \o Log) = Len(c) + Len(Log)
        /\ \A k \in 1 .. Len(c) : (c \o Log)[k] = c[k]
        /\ \A k \in 1 .. Len(Log) : (c \o Log)[Len(c) + k] = Log[k]
    BY <1>3, LogSteps, Joined
  <2> QED BY <2>1, <2>2, LogSteps
<1> QED BY <1>3, <1>4

\* What start keeps: nothing in it creates, enters or stops a system, every flag is
\* raised, and every loop is started after its flag.
LEMMA StartShape ==
  /\ LoopFollows(Start) /\ RaisedOnce(Start) /\ SkipsWhole(Start) /\ LogsTrim(Start)
  /\ \A k \in DOMAIN Start : Start[k].do \notin {"create", "clear", "enter"}
  /\ \A s \in Services : \E k \in DOMAIN Start : Start[k] = Raise(s)
  /\ \A j \in DOMAIN Start, s \in Loops :
       Start[j] = Spawn(s) => RaisedBetween(Start, 0, j, s)
<1> DEFINE P == Start
<1>1. DOMAIN P = 1 .. 16 /\ Len(P) = 16
  BY StartSteps
<1>2. \A k \in 1 .. 16, s \in Services :
        P[k] = Raise(s) => \/ k = 2 /\ s = "system"
                           \/ k = 4 /\ s = "bins"
                           \/ k = 7 /\ s = "fog"
                           \/ k = 9 /\ s = "node"
                           \/ k = 13 /\ s = "heartbeat"
  BY StartSteps, Kinds
<1>3. \A k \in 1 .. 16, s \in Loops :
        P[k] = Spawn(s) => \/ k = 5 /\ s = "bins"
                           \/ k = 10 /\ s = "node"
                           \/ k = 11 /\ s = "fog"
                           \/ k = 14 /\ s = "heartbeat"
  BY StartSteps, Kinds
<1>4. \A k \in 1 .. 16, s \in Services, n \in Nat :
        P[k] = Test(s, n) => \/ k = 1 /\ s = "system" /\ n = 15
                             \/ k = 3 /\ s = "bins" /\ n = 2
                             \/ k = 6 /\ s = "fog" /\ n = 8
                             \/ k = 8 /\ s = "node" /\ n = 2
                             \/ k = 12 /\ s = "heartbeat" /\ n = 2
  BY StartSteps, Kinds
<1>5. \A k \in 1 .. 16 : P[k] = Append1 => k = 15
  BY StartSteps, Kinds
<1>6. /\ P[2] = Raise("system") /\ P[4] = Raise("bins") /\ P[5] = Spawn("bins")
      /\ P[7] = Raise("fog") /\ P[9] = Raise("node") /\ P[10] = Spawn("node")
      /\ P[11] = Spawn("fog") /\ P[13] = Raise("heartbeat")
      /\ P[14] = Spawn("heartbeat") /\ P[16] = Trim1
  BY StartSteps
<1>7. \A k \in DOMAIN P : P[k].do \notin {"create", "clear", "enter"}
  BY <1>1, StartSteps, Kinds
<1> HIDE DEF P
<1>8. LoopFollows(P)
  BY <1>1, <1>2, <1>6, LoopsAre DEF LoopFollows
<1>9. RaisedOnce(P)
  BY <1>1, <1>2, <1>4 DEF RaisedOnce
<1>10. \A j \in DOMAIN P, s \in Loops : P[j] = Spawn(s) => RaisedBetween(P, 0, j, s)
  BY <1>1, <1>3, <1>6 DEF RaisedBetween
<1>11. SkipsWhole(P)
  BY <1>1, <1>3, <1>4, <1>6 DEF SkipsWhole, RaisedBetween
<1>12. LogsTrim(P)
  BY <1>1, <1>5, <1>6 DEF LogsTrim
<1>13. \A s \in Services : \E k \in DOMAIN P : P[k] = Raise(s)
  BY <1>1, <1>6 DEF Services
<1> QED BY <1>7, <1>8, <1>9, <1>10, <1>11, <1>12, <1>13 DEF P

-----------------------------------------------------------------------------
(***************************************************************************)
(* What is left of a program.                                              *)
(***************************************************************************)

\* e is what is left of q after its first n steps.
IsRest(q, n, e) ==
  /\ n \in 0 .. Len(q)
  /\ e \in Seq(Step) /\ Len(e) = Len(q) - n
  /\ \A k \in 1 .. Len(q) - n : e[k] = q[n + k]

LEMMA RestElements ==
  ASSUME NEW q \in Seq(Step), NEW n, NEW e, IsRest(q, n, e)
  PROVE  /\ n \in Nat /\ e \in Seq(Step) /\ Len(q) \in Nat /\ Len(e) = Len(q) - n
         /\ DOMAIN e = 1 .. Len(q) - n /\ DOMAIN q = 1 .. Len(q)
         /\ \A k \in DOMAIN e : n + k \in DOMAIN q /\ e[k] = q[n + k]
         /\ \A k \in DOMAIN q : k > n => k - n \in DOMAIN e /\ e[k - n] = q[k]
<1>1. Len(q) \in Nat /\ DOMAIN q = 1 .. Len(q) /\ n \in 0 .. Len(q) /\ n \in Nat
  BY DEF IsRest
<1>2. /\ e \in Seq(Step) /\ Len(e) = Len(q) - n
      /\ \A k \in 1 .. Len(q) - n : e[k] = q[n + k]
  BY DEF IsRest
<1>3. DOMAIN e = 1 .. Len(q) - n
  BY <1>2
<1>4. \A k \in DOMAIN e : n + k \in DOMAIN q
  BY <1>1, <1>3
<1>5. ASSUME NEW k \in DOMAIN q, k > n PROVE k - n \in DOMAIN e /\ e[k - n] = q[k]
  <2>1. k - n \in 1 .. Len(q) - n /\ n + (k - n) = k
    BY <1>1, <1>5
  <2> QED BY <1>2, <1>3, <2>1
<1> QED BY <1>1, <1>2, <1>3, <1>4, <1>5

\* What is left after the first step, ...
LEMMA TailIsRest ==
  ASSUME NEW q \in Seq(Step), q # <<>>
  PROVE  IsRest(q, 1, Tail(q))
  BY DEF IsRest

\* ... and after it and the n steps it leaves out.
LEMMA SkipIsRest ==
  ASSUME NEW q \in Seq(Step), NEW n \in Nat, n + 1 <= Len(q)
  PROVE  IsRest(q, n + 1, SubSeq(q, n + 2, Len(q)))
<1> DEFINE e == SubSeq(q, n + 2, Len(q))
<1>1. Len(q) \in Nat /\ n + 1 \in 0 .. Len(q)
  OBVIOUS
<1>2. e \in Seq(Step) /\ Len(e) = Len(q) - (n + 1)
  BY <1>1
<1>3. \A k \in 1 .. Len(q) - (n + 1) : e[k] = q[(n + 1) + k]
  BY <1>1
<1> QED BY <1>1, <1>2, <1>3 DEF IsRest

LEMMA RestWellFormed ==
  ASSUME NEW q \in Seq(Step), NEW n, NEW e, IsRest(q, n, e), WellFormed(q)
  PROVE  WellFormed(e)
<1>1. /\ n \in Nat /\ e \in Seq(Step) /\ Len(e) = Len(q) - n /\ Len(q) \in Nat
      /\ DOMAIN e = 1 .. Len(q) - n /\ DOMAIN q = 1 .. Len(q)
      /\ \A k \in DOMAIN e : n + k \in DOMAIN q /\ e[k] = q[n + k]
      /\ \A k \in DOMAIN q : k > n => k - n \in DOMAIN e /\ e[k - n] = q[k]
  BY RestElements
<1>2. ASSUME NEW k \in DOMAIN e, NEW j \in DOMAIN e, NEW s \in Loops,
             RaisedBetween(q, n + k, n + j, s)
      PROVE  RaisedBetween(e, k, j, s)
  <2>1. PICK i \in DOMAIN q : n + k < i /\ i < n + j /\ q[i] = Raise(s)
    BY <1>2 DEF RaisedBetween
  <2>2. i - n \in DOMAIN e /\ e[i - n] = Raise(s) /\ k < i - n /\ i - n < j
    BY <1>1, <2>1
  <2> QED BY <2>2 DEF RaisedBetween
<1>3. LoopFollows(e)
  <2> SUFFICES ASSUME NEW k \in DOMAIN e, NEW s \in Loops, e[k] = Raise(s)
               PROVE  \E j \in DOMAIN e : k < j /\ e[j] = Spawn(s)
    BY DEF LoopFollows
  <2>1. PICK j \in DOMAIN q : n + k < j /\ q[j] = Spawn(s)
    BY <1>1 DEF WellFormed, LoopFollows
  <2>2. j - n \in DOMAIN e /\ e[j - n] = Spawn(s) /\ k < j - n
    BY <1>1, <2>1
  <2> QED BY <2>2
<1>4. RaisedOnce(e)
  <2> SUFFICES ASSUME NEW k \in DOMAIN e, NEW j \in DOMAIN e, NEW s \in Services,
                      k < j, e[k] = Raise(s)
               PROVE  e[j] # Raise(s) /\ \A m \in Nat : e[j] # Test(s, m)
    BY DEF RaisedOnce
  <2>1. n + k < n + j
    BY <1>1
  <2> QED BY <1>1, <2>1 DEF WellFormed, RaisedOnce
<1>5. SkipsWhole(e)
  <2> SUFFICES ASSUME NEW k \in DOMAIN e, NEW s \in Services, NEW m \in Nat,
                      e[k] = Test(s, m)
               PROVE  /\ k + m <= Len(e)
                      /\ \A j \in DOMAIN e, t \in Loops :
                           k < j /\ j <= k + m /\ e[j] = Spawn(t)
                             => RaisedBetween(e, k, j, t)
    BY DEF SkipsWhole
  <2>1. n + k \in DOMAIN q /\ q[n + k] = Test(s, m)
    BY <1>1
  <2>2. n + k + m <= Len(q)
    BY <2>1 DEF WellFormed, SkipsWhole
  <2>3. ASSUME NEW j \in DOMAIN e, NEW t \in Loops,
               k < j, j <= k + m, e[j] = Spawn(t)
        PROVE  RaisedBetween(e, k, j, t)
    <3>1. /\ n + j \in DOMAIN q /\ q[n + j] = Spawn(t)
          /\ n + k < n + j /\ n + j <= (n + k) + m
      BY <1>1, <2>3
    <3>2. RaisedBetween(q, n + k, n + j, t)
      BY <2>1, <3>1 DEF WellFormed, SkipsWhole
    <3> QED BY <1>2, <3>2
  <2> QED BY <1>1, <2>2, <2>3
<1>6. EntersAfresh(e)
  <2> SUFFICES ASSUME NEW k \in DOMAIN e, NEW j \in DOMAIN e, NEW s \in Loops,
                      k < j, e[k] = Enter, e[j] = Spawn(s)
               PROVE  RaisedBetween(e, k, j, s)
    BY DEF EntersAfresh
  <2>1. n + k < n + j
    BY <1>1
  <2>2. RaisedBetween(q, n + k, n + j, s)
    BY <1>1, <2>1 DEF WellFormed, EntersAfresh
  <2> QED BY <1>2, <2>2
<1>7. StartsCreated(e)
  <2> SUFFICES ASSUME NEW k \in DOMAIN e, e[k] = Create
               PROVE  /\ k + 1 \in DOMAIN e /\ e[k + 1] = Enter
                      /\ \A s \in Services : \E j \in DOMAIN e : k < j /\ e[j] = Raise(s)
                      /\ \A j \in DOMAIN e : k < j => e[j].do \notin {"create", "clear"}
    BY DEF StartsCreated
  <2>1. /\ n + k \in DOMAIN q /\ n + k + 1 \in DOMAIN q /\ q[n + k + 1] = Enter
        /\ \A s \in Services : \E j \in DOMAIN q : n + k < j /\ q[j] = Raise(s)
        /\ \A j \in DOMAIN q : n + k < j => q[j].do \notin {"create", "clear"}
    BY <1>1 DEF WellFormed, StartsCreated
  <2>2. k + 1 \in DOMAIN e /\ e[k + 1] = Enter
    BY <1>1, <2>1
  <2>3. ASSUME NEW s \in Services PROVE \E j \in DOMAIN e : k < j /\ e[j] = Raise(s)
    <3>1. PICK j \in DOMAIN q : n + k < j /\ q[j] = Raise(s)
      BY <2>1
    <3>2. j - n \in DOMAIN e /\ e[j - n] = Raise(s) /\ k < j - n
      BY <1>1, <3>1
    <3> QED BY <3>2
  <2>4. ASSUME NEW j \in DOMAIN e, k < j PROVE e[j].do \notin {"create", "clear"}
    <3>1. n + j \in DOMAIN q /\ n + k < n + j /\ e[j] = q[n + j]
      BY <1>1, <2>4
    <3> QED BY <2>1, <3>1
  <2> QED BY <2>2, <2>3, <2>4
<1>8. LogsTrim(e)
  <2> SUFFICES ASSUME NEW k \in DOMAIN e, e[k] = Append1
               PROVE  k + 1 \in DOMAIN e /\ e[k + 1] = Trim1
    BY DEF LogsTrim
  <2>1. n + k + 1 \in DOMAIN q /\ q[n + k + 1] = Trim1
    BY <1>1 DEF WellFormed, LogsTrim
  <2> QED BY <1>1, <2>1
<1> QED BY <1>3, <1>4, <1>5, <1>6, <1>7, <1>8 DEF WellFormed

-----------------------------------------------------------------------------
(***************************************************************************)
(* What a request begins with.                                             *)
(***************************************************************************)

\* What comes before start in a program: methods are entered, a system is stopped,
\* entries are logged, and at most one system is created, at the end.
Calm(p) ==
  /\ \A k \in DOMAIN p : p[k] = Create \/ p[k].do \in {"enter", "clear", "append", "trim"}
  /\ \A k \in DOMAIN p :
       p[k] = Create => /\ k + 1 \in DOMAIN p /\ p[k + 1] = Enter
                        /\ \A j \in DOMAIN p : k < j => p[j].do \notin {"create", "clear"}
  /\ LogsTrim(p)

LEMMA CalmSteps ==
  ASSUME NEW p \in Seq(Step), Calm(p), NEW k \in DOMAIN p
  PROVE  p[k].do \notin {"raise", "test", "spawn"}
  BY Kinds DEF Calm

LEMMA CalmAlone ==
  ASSUME NEW p \in Seq(Step), Calm(p), \A k \in DOMAIN p : p[k] # Create
  PROVE  WellFormed(p)
<1>1. \A k \in DOMAIN p : /\ \A s : p[k] # Raise(s) /\ p[k] # Spawn(s)
                          /\ \A s, n : p[k] # Test(s, n)
  BY CalmSteps, Kinds
<1> QED BY <1>1 DEF WellFormed, LoopFollows, RaisedOnce, SkipsWhole, EntersAfresh,
                    StartsCreated, LogsTrim, Calm

\* The positions of p \o Start: those of p, ...
LEMMA BeforeStart ==
  ASSUME NEW p \in Seq(Step), NEW q, q = p \o Start, NEW n, n = Len(p)
  PROVE  /\ q \in Seq(Step) /\ n \in Nat /\ Len(q) = n + 16
         /\ DOMAIN p = 1 .. n /\ DOMAIN q = 1 .. n + 16 /\ DOMAIN Start = 1 .. 16
         /\ \A k \in 1 .. n : k \in DOMAIN q /\ q[k] = p[k]
<1>1. /\ q \in Seq(Step) /\ Len(q) = Len(p) + Len(Start)
      /\ \A k \in 1 .. Len(p) : q[k] = p[k]
  BY StartSteps, Joined
<1>2. n \in Nat /\ Len(Start) = 16 /\ DOMAIN p = 1 .. n /\ DOMAIN Start = 1 .. 16
  BY StartSteps
<1>3. Len(q) = n + 16 /\ DOMAIN q = 1 .. n + 16
  BY <1>1, <1>2
<1>4. \A k \in 1 .. n : k \in DOMAIN q /\ q[k] = p[k]
  BY <1>1, <1>2, <1>3
<1> QED BY <1>1, <1>2, <1>3, <1>4

\* ... then those of Start, ...
LEMMA AtStart ==
  ASSUME NEW p \in Seq(Step), NEW q, q = p \o Start, NEW n, n = Len(p), NEW j \in 1 .. 16
  PROVE  n + j \in DOMAIN q /\ q[n + j] = Start[j]
<1>1. /\ \A k \in 1 .. Len(Start) : q[Len(p) + k] = Start[k]
      /\ Len(Start) = 16
  BY StartSteps, Joined
<1>2. q[n + j] = Start[j]
  BY <1>1
<1>3. n \in Nat /\ DOMAIN q = 1 .. n + 16
  BY BeforeStart
<1> QED BY <1>2, <1>3

\* ... and no other.
LEMMA NotBefore ==
  ASSUME NEW n \in Nat, NEW k \in 1 .. n + 16
  PROVE  k \in 1 .. n \/ \E j \in 1 .. 16 : k = n + j
<1>1. CASE k <= n
  BY <1>1
<1>2. CASE ~(k <= n)
  <2>1. k - n \in 1 .. 16 /\ k = n + (k - n)
    BY <1>2
  <2> QED BY <2>1
<1> QED BY <1>1, <1>2

\* q is p, and then the start of a system.
AndStarts(p, q) == q = p \o Start

LEMMA CalmBefore ==
  ASSUME NEW p \in Seq(Step), Calm(p), NEW q, AndStarts(p, q)
  PROVE  q \in Seq(Step) /\ WellFormed(q)
<1> DEFINE n == Len(p)
<1>1. /\ q \in Seq(Step) /\ n \in Nat /\ Len(q) = n + 16
      /\ DOMAIN p = 1 .. n /\ DOMAIN q = 1 .. n + 16 /\ DOMAIN Start = 1 .. 16
  BY BeforeStart DEF AndStarts
<1>d. n \in Nat /\ Len(q) = n + 16
  BY <1>1
<1>a. \A k \in 1 .. n : k \in DOMAIN q /\ q[k] = p[k]
  BY BeforeStart DEF AndStarts
<1>e. n = Len(p)
  OBVIOUS
<1>b. \A j \in 1 .. 16 : n + j \in DOMAIN q /\ q[n + j] = Start[j]
  <2> HIDE DEF n
  <2> QED BY <1>e, AtStart DEF AndStarts
<1>c. \A k \in DOMAIN q : k \in 1 .. n \/ \E j \in 1 .. 16 : k = n + j
  <2> HIDE DEF n
  <2> QED BY <1>1, NotBefore
<1> HIDE DEF n
<1>2. \A k \in 1 .. n : q[k].do \notin {"raise", "test", "spawn"}
  BY <1>1, <1>a, CalmSteps
<1>3. ASSUME NEW k \in DOMAIN q, q[k].do \in {"raise", "test", "spawn"}
      PROVE  \E j \in 1 .. 16 : k = n + j /\ q[k] = Start[j]
  BY <1>2, <1>3, <1>b, <1>c
<1>4. ASSUME NEW k \in DOMAIN q, q[k].do \in {"create", "clear", "enter"}
      PROVE  k \in 1 .. n /\ q[k] = p[k]
  BY <1>1, <1>4, <1>a, <1>b, <1>c, StartShape
<1>5. ASSUME NEW k \in Int, NEW i \in Int, NEW j \in 1 .. 16, NEW s \in Loops,
             k <= n + i, RaisedBetween(Start, i, j, s)
      PROVE  RaisedBetween(q, k, n + j, s)
  <2>1. PICK h \in 1 .. 16 : i < h /\ h < j /\ Start[h] = Raise(s)
    BY <1>1, <1>5 DEF RaisedBetween
  <2>2. n + h \in DOMAIN q /\ q[n + h] = Raise(s)
    BY <1>b, <2>1
  <2>3. k < n + h /\ n + h < n + j
    BY <1>1, <1>5, <2>1
  <2> QED BY <2>2, <2>3 DEF RaisedBetween
<1>6. LoopFollows(q)
  <2> SUFFICES ASSUME NEW k \in DOMAIN q, NEW s \in Loops, q[k] = Raise(s)
               PROVE  \E j \in DOMAIN q : k < j /\ q[j] = Spawn(s)
    BY DEF LoopFollows
  <2>1. PICK i \in 1 .. 16 : k = n + i /\ Start[i] = Raise(s)
    BY <1>3, Kinds
  <2>2. PICK j \in 1 .. 16 : i < j /\ Start[j] = Spawn(s)
    BY <1>1, <2>1, StartShape DEF LoopFollows
  <2>3. n + j \in DOMAIN q /\ q[n + j] = Spawn(s)
    BY <1>b, <2>2
  <2>4. k < n + j
    BY <1>1, <2>1, <2>2
  <2> QED BY <2>3, <2>4
<1>7. RaisedOnce(q)
  <2> SUFFICES ASSUME NEW k \in DOMAIN q, NEW j \in DOMAIN q, NEW s \in Services,
                      k < j, q[k] = Raise(s),
                      q[j] = Raise(s) \/ \E m \in Nat : q[j] = Test(s, m)
               PROVE  FALSE
    BY DEF RaisedOnce
  <2>1. PICK i \in 1 .. 16 : k = n + i /\ Start[i] = Raise(s)
    BY <1>3, Kinds
  <2>2. q[j].do \in {"raise", "test"}
    BY Kinds
  <2>3. PICK h \in 1 .. 16 : j = n + h /\ q[j] = Start[h]
    BY <1>3, <2>2
  <2>4. i < h
    BY <1>1, <2>1, <2>3
  <2>5. /\ i \in DOMAIN Start /\ h \in DOMAIN Start
        /\ Start[h] = Raise(s) \/ \E m \in Nat : Start[h] = Test(s, m)
    BY <1>1, <2>3
  <2> QED BY <2>1, <2>4, <2>5, StartShape DEF RaisedOnce
<1>8. SkipsWhole(q)
  <2> SUFFICES ASSUME NEW k \in DOMAIN q, NEW s \in Services, NEW m \in Nat,
                      q[k] = Test(s, m)
               PROVE  /\ k + m <= Len(q)
                      /\ \A j \in DOMAIN q, t \in Loops :
                           k < j /\ j <= k + m /\ q[j] = Spawn(t)
                             => RaisedBetween(q, k, j, t)
    BY DEF SkipsWhole
  <2>1. PICK i \in 1 .. 16 : k = n + i /\ Start[i] = Test(s, m)
    BY <1>3, Kinds
  <2>2. i + m <= 16
    BY <1>1, <2>1, StartShape, StartSteps DEF SkipsWhole
  <2>3. ASSUME NEW j \in DOMAIN q, NEW t \in Loops,
               k < j, j <= k + m, q[j] = Spawn(t)
        PROVE  RaisedBetween(q, k, j, t)
    <3>1. PICK h \in 1 .. 16 : j = n + h /\ Start[h] = Spawn(t)
      BY <1>3, <2>3, Kinds
    <3>2. i < h /\ h <= i + m
      BY <1>d, <2>1, <2>3, <3>1
    <3>3. RaisedBetween(Start, i, h, t)
      BY <1>1, <2>1, <3>1, <3>2, StartShape DEF SkipsWhole
    <3>4. k \in Int /\ i \in Int /\ k <= n + i
      BY <1>1, <2>1
    <3> QED BY <1>5, <3>1, <3>3, <3>4
  <2>4. k + m <= Len(q)
    BY <1>d, <2>1, <2>2
  <2> QED BY <2>3, <2>4
<1>9. EntersAfresh(q)
  <2> SUFFICES ASSUME NEW k \in DOMAIN q, NEW j \in DOMAIN q, NEW s \in Loops,
                      k < j, q[k] = Enter, q[j] = Spawn(s)
               PROVE  RaisedBetween(q, k, j, s)
    BY DEF EntersAfresh
  <2>1. k \in 1 .. n
    BY <1>4, Kinds
  <2>2. PICK h \in 1 .. 16 : j = n + h /\ Start[h] = Spawn(s)
    BY <1>3, Kinds
  <2>3. RaisedBetween(Start, 0, h, s)
    BY <1>1, <2>2, StartShape
  <2>4. k \in Int /\ k <= n + 0
    BY <1>1, <2>1
  <2> QED BY <1>5, <2>2, <2>3, <2>4
<1>10. StartsCreated(q)
  <2> SUFFICES ASSUME NEW k \in DOMAIN q, q[k] = Create
               PROVE  /\ k + 1 \in DOMAIN q /\ q[k + 1] = Enter
                      /\ \A s \in Services : \E j \in DOMAIN q : k < j /\ q[j] = Raise(s)
                      /\ \A j \in DOMAIN q : k < j => q[j].do \notin {"create", "clear"}
    BY DEF StartsCreated
  <2>1. k \in 1 .. n /\ p[k] = Create
    BY <1>4, Kinds
  <2>3. /\ k + 1 \in DOMAIN p /\ p[k + 1] = Enter
        /\ \A j \in DOMAIN p : k < j => p[j].do \notin {"create", "clear"}
    BY <1>1, <2>1 DEF Calm
  <2>4. k + 1 \in DOMAIN q /\ q[k + 1] = Enter
    BY <1>1, <1>a, <2>3
  <2>5. ASSUME NEW s \in Services PROVE \E j \in DOMAIN q : k < j /\ q[j] = Raise(s)
    <3>1. PICK j \in 1 .. 16 : Start[j] = Raise(s)
      BY <1>1, StartShape
    <3>2. n + j \in DOMAIN q /\ q[n + j] = Raise(s)
      BY <1>b, <3>1
    <3>3. k < n + j
      BY <1>1, <2>1
    <3> QED BY <3>2, <3>3
  <2>6. ASSUME NEW j \in DOMAIN q, k < j PROVE q[j].do \notin {"create", "clear"}
    <3>1. q[j].do \in {"create", "clear", "enter"} => j \in DOMAIN p /\ q[j] = p[j]
      BY <1>1, <1>4
    <3> QED BY <2>3, <2>6, <3>1
  <2> QED BY <2>4, <2>5, <2>6
<1>11. LogsTrim(q)
  <2> SUFFICES ASSUME NEW k \in DOMAIN q, q[k] = Append1
               PROVE  k + 1 \in DOMAIN q /\ q[k + 1] = Trim1
    BY DEF LogsTrim
  <2>1. CASE k \in 1 .. n
    <3>1. k + 1 \in DOMAIN p /\ p[k + 1] = Trim1
      BY <1>1, <1>a, <2>1 DEF Calm, LogsTrim
    <3> QED BY <1>1, <1>a, <3>1
  <2>2. ASSUME NEW j \in 1 .. 16, k = n + j PROVE k + 1 \in DOMAIN q /\ q[k + 1] = Trim1
    <3>0. Start[j] = Append1
      BY <1>b, <2>2
    <3>1. j + 1 \in 1 .. 16 /\ Start[j + 1] = Trim1
      BY <1>1, <3>0, StartShape DEF LogsTrim
    <3>2. k + 1 = n + (j + 1)
      BY <1>1, <2>2
    <3> QED BY <1>b, <3>1, <3>2
  <2> QED BY <1>c, <2>1, <2>2
<1> QED BY <1>1, <1>6, <1>7, <1>8, <1>9, <1>10, <1>11 DEF WellFormed

\* SmartWasteSystem.stop, step by step.
LEMMA StopSteps ==
  /\ Stop \in Seq(Step) /\ Len(Stop) = 7
  /\ Stop[1] = Clear("system") /\ Stop[2] = Clear("bins") /\ Stop[3] = Clear("fog")
  /\ Stop[4] = Clear("heartbeat") /\ Stop[5] = Clear("node")
  /\ Stop[6] = Append1 /\ Stop[7] = Trim1
<1> DEFINE a == <<Clear("system"), Clear("bins"), Clear("fog"), Clear("heartbeat"),
                  Clear("node")>>
<1>1. \A s \in Services : Clear(s) \in Step
  BY StepTypes
<1>2. /\ a \in Seq(Step) /\ Len(a) = 5
      /\ a[1] = Clear("system") /\ a[2] = Clear("bins") /\ a[3] = Clear("fog")
      /\ a[4] = Clear("heartbeat") /\ a[5] = Clear("node")
  BY <1>1 DEF Services
<1>3. Stop = a \o Log
  BY DEF Stop
<1> HIDE DEF a
<1>4. /\ Stop \in Seq(Step) /\ Len(Stop) = Len(a) + Len(Log)
      /\ \A k \in 1 .. Len(a) : Stop[k] = a[k]
      /\ \A k \in 1 .. Len(Log) : Stop[Len(a) + k] = Log[k]
  BY <1>2, <1>3, LogSteps, Joined
<1>5. Len(Log) = 2 /\ Log[1] = Append1 /\ Log[2] = Trim1
  BY LogSteps
<1> QED BY <1>2, <1>4, <1>5

\* Entering a method before p.
LEMMA Entered ==
  ASSUME NEW p \in Seq(Step), NEW e, e = <<Enter>> \o p
  PROVE  /\ e \in Seq(Step) /\ Len(e) = Len(p) + 1 /\ e[1] = Enter
         /\ \A k \in 1 .. Len(p) : e[k + 1] = p[k]
<1>1. <<Enter>> \in Seq(Step) /\ Len(<<Enter>>) = 1 /\ <<Enter>>[1] = Enter
  BY StepTypes
<1>2. /\ e \in Seq(Step) /\ Len(e) = Len(<<Enter>>) + Len(p)
      /\ \A k \in 1 .. Len(<<Enter>>) : e[k] = <<Enter>>[k]
      /\ \A k \in 1 .. Len(p) : e[Len(<<Enter>>) + k] = p[k]
  BY <1>1, Joined
<1> QED BY <1>1, <1>2

LEMMA StopAt ==
  ASSUME NEW e, \A k \in 1 .. Len(Stop) : e[k + 1] = Stop[k]
  PROVE  /\ e[2] = Stop[1] /\ e[3] = Stop[2] /\ e[4] = Stop[3] /\ e[5] = Stop[4]
         /\ e[6] = Stop[5] /\ e[7] = Stop[6] /\ e[8] = Stop[7]
<1>1. \A k \in 1 .. 7 : e[k + 1] = Stop[k]
  BY StopSteps
<1> QED BY <1>1

LEMMA EnterStop ==
  ASSUME NEW e, e = <<Enter>> \o Stop
  PROVE  /\ e \in Seq(Step) /\ Len(e) = 8 /\ e[1] = Enter
         /\ e[2] = Clear("system") /\ e[3] = Clear("bins") /\ e[4] = Clear("fog")
         /\ e[5] = Clear("heartbeat") /\ e[6] = Clear("node")
         /\ e[7] = Append1 /\ e[8] = Trim1
<1>1. /\ e \in Seq(Step) /\ Len(e) = Len(Stop) + 1 /\ e[1] = Enter
      /\ \A k \in 1 .. Len(Stop) : e[k + 1] = Stop[k]
  BY StopSteps, Entered
<1>3. /\ e[2] = Stop[1] /\ e[3] = Stop[2] /\ e[4] = Stop[3] /\ e[5] = Stop[4]
      /\ e[6] = Stop[5] /\ e[7] = Stop[6] /\ e[8] = Stop[7]
  BY <1>1, StopAt
<1>4. Len(e) = 8
  BY <1>1, StopSteps
<1> QED BY <1>1, <1>3, <1>4, StopSteps

LEMMA EnterLog ==
  ASSUME NEW e, e = <<Enter>> \o Log
  PROVE  /\ e \in Seq(Step) /\ Len(e) = 3 /\ e[1] = Enter
         /\ e[2] = Append1 /\ e[3] = Trim1
<1>1. /\ e \in Seq(Step) /\ Len(e) = Len(Log) + 1 /\ e[1] = Enter
      /\ \A k \in 1 .. Len(Log) : e[k + 1] = Log[k]
  BY LogSteps, Entered
<1>2. e[2] = Log[1] /\ e[3] = Log[2] /\ Len(e) = 3
  BY <1>1, LogSteps
<1> QED BY <1>1, <1>2, LogSteps

LEMMA CreateEnter ==
  /\ <<Create, Enter>> \in Seq(Step) /\ Len(<<Create, Enter>>) = 2
  /\ <<Create, Enter>>[1] = Create /\ <<Create, Enter>>[2] = Enter
  BY StepTypes

\* The requests' programs.
Programs == {ApiStart, ApiStop, ApiConfig, ApiAct}

\* Every request enters a method of a system that is there, or creates one first.
Begins(p) == p[1] = Create \/ (p[1] = Enter /\ system_instance # None)

\* A request that leaves the flags alone, or stops the system, ...
EndsCalm(p, steps) ==
  /\ steps = p /\ \A k \in DOMAIN p : p[k] # Create
  /\ \/ \A k \in DOMAIN p : p[k].do # "clear"
     \/ \A s \in Services : \E k \in DOMAIN p : p[k] = Clear(s)

\* ... one that starts the system in place, ...
EndsStarting(p, steps) ==
  steps = p \o Start /\ system_instance # None /\ Len(p) = 1 /\ p[1] = Enter

\* ... and one that replaces it by a new one.
EndsReplacing(p, steps) ==
  /\ steps = p \o Start /\ \E k \in DOMAIN p : p[k] = Create
  /\ system_instance # None => \A s \in Services : \E k \in DOMAIN p : p[k] = Clear(s)

LEMMA ProgramShapes ==
  ASSUME NEW steps \in Programs, steps # <<>>
  PROVE  \E p \in Seq(Step) :
           /\ Calm(p) /\ p # <<>> /\ Begins(p)
           /\ EndsCalm(p, steps) \/ EndsStarting(p, steps) \/ EndsReplacing(p, steps)
<1>1. ASSUME steps = (<<>> \o <<Create, Enter>>) \o Start, system_instance = None
      PROVE  \E p \in Seq(Step) : /\ Calm(p) /\ p # <<>> /\ Begins(p)
                                  /\ EndsReplacing(p, steps)
  <2> DEFINE p == <<>> \o <<Create, Enter>>
  <2>1. p \in Seq(Step) /\ Len(p) = 2 /\ p[1] = Create /\ p[2] = Enter
    BY CreateEnter
  <2>2. steps = p \o Start
    BY <1>1
  <2> HIDE DEF p
  <2>3. Calm(p)
    BY <2>1, Kinds DEF Calm, LogsTrim
  <2>4. 1 \in DOMAIN p /\ p[1] = Create
    BY <2>1
  <2>5. p # <<>> /\ Begins(p)
    BY <2>4 DEF Begins
  <2>6. EndsReplacing(p, steps)
    BY <1>1, <2>2, <2>4 DEF EndsReplacing
  <2> QED BY <2>1, <2>3, <2>5, <2>6
<1>2. ASSUME steps = (<<Create>> \o <<Enter>>) \o Start, system_instance = None
      PROVE  \E p \in Seq(Step) : /\ Calm(p) /\ p # <<>> /\ Begins(p)
                                  /\ EndsReplacing(p, steps)
  <2> DEFINE p == <<Create>> \o <<Enter>>
  <2>1. p \in Seq(Step) /\ Len(p) = 2 /\ p[1] = Create /\ p[2] = Enter
    <3>1. <<Create>> \in Seq(Step) /\ Len(<<Create>>) = 1 /\ <<Create>>[1] = Create
      BY StepTypes
    <3>2. Enter \in Step
      BY StepTypes
    <3> QED BY <3>1, <3>2, OneJoined
  <2>2. steps = p \o Start
    BY <1>2
  <2> HIDE DEF p
  <2>3. Calm(p)
    BY <2>1, Kinds DEF Calm, LogsTrim
  <2>4. 1 \in DOMAIN p /\ p[1] = Create
    BY <2>1
  <2>5. p # <<>> /\ Begins(p)
    BY <2>4 DEF Begins
  <2>6. EndsReplacing(p, steps)
    BY <1>2, <2>2, <2>4 DEF EndsReplacing
  <2> QED BY <2>1, <2>3, <2>5, <2>6
<1>3. ASSUME steps = (<<>> \o <<Enter>>) \o Start, system_instance # None
      PROVE  \E p \in Seq(Step) : /\ Calm(p) /\ p # <<>> /\ Begins(p)
                                  /\ EndsStarting(p, steps)
  <2> DEFINE p == <<>> \o <<Enter>>
  <2>1. p \in Seq(Step) /\ Len(p) = 1 /\ p[1] = Enter
    BY StepTypes
  <2>2. steps = p \o Start
    BY <1>3
  <2> HIDE DEF p
  <2>3. Calm(p)
    BY <2>1, Kinds DEF Calm, LogsTrim
  <2>4. p # <<>> /\ Begins(p) /\ EndsStarting(p, steps)
    BY <1>3, <2>1, <2>2 DEF Begins, EndsStarting
  <2> QED BY <2>1, <2>3, <2>4
<1>4. ASSUME steps = <<Enter>> \o Stop, system_instance # None
      PROVE  \E p \in Seq(Step) : /\ Calm(p) /\ p # <<>> /\ Begins(p)
                                  /\ EndsCalm(p, steps)
  <2> DEFINE p == steps
  <2>1. /\ p \in Seq(Step) /\ Len(p) = 8 /\ p[1] = Enter
        /\ p[2] = Clear("system") /\ p[3] = Clear("bins") /\ p[4] = Clear("fog")
        /\ p[5] = Clear("heartbeat") /\ p[6] = Clear("node")
        /\ p[7] = Append1 /\ p[8] = Trim1
    BY <1>4, EnterStop
  <2>2. DOMAIN p = 1 .. 8
    BY <2>1
  <2>3. Calm(p) /\ \A k \in DOMAIN p : p[k] # Create
    BY <2>1, <2>2, Kinds DEF Calm, LogsTrim
  <2>4. \A s \in Services : \E k \in DOMAIN p : p[k] = Clear(s)
    BY <2>1, <2>2 DEF Services
  <2>5. p # <<>> /\ Begins(p) /\ EndsCalm(p, steps)
    BY <1>4, <2>1, <2>3, <2>4 DEF Begins, EndsCalm
  <2> QED BY <2>1, <2>3, <2>5
<1>5. ASSUME steps = <<Enter>> \o Log, system_instance # None
      PROVE  \E p \in Seq(Step) : /\ Calm(p) /\ p # <<>> /\ Begins(p)
                                  /\ EndsCalm(p, steps)
  <2> DEFINE p == steps
  <2>1. /\ p \in Seq(Step) /\ Len(p) = 3 /\ p[1] = Enter
        /\ p[2] = Append1 /\ p[3] = Trim1
    BY <1>5, EnterLog
  <2>2. DOMAIN p = 1 .. 3
    BY <2>1
  <2>3. Calm(p) /\ \A k \in DOMAIN p : p[k] # Create /\ p[k].do # "clear"
    BY <2>1, <2>2, Kinds DEF Calm, LogsTrim
  <2>5. p # <<>> /\ Begins(p) /\ EndsCalm(p, steps)
    BY <1>5, <2>1, <2>3 DEF Begins, EndsCalm
  <2> QED BY <2>1, <2>3, <2>5
<1>6. ASSUME steps = ((<<Enter>> \o Stop) \o <<Create, Enter>>) \o Start,
             system_instance # None
      PROVE  \E p \in Seq(Step) : /\ Calm(p) /\ p # <<>> /\ Begins(p)
                                  /\ EndsReplacing(p, steps)
  <2> DEFINE a == <<Enter>> \o Stop
             p == a \o <<Create, Enter>>
  <2>1. /\ a \in Seq(Step) /\ Len(a) = 8 /\ a[1] = Enter
        /\ a[2] = Clear("system") /\ a[3] = Clear("bins") /\ a[4] = Clear("fog")
        /\ a[5] = Clear("heartbeat") /\ a[6] = Clear("node")
        /\ a[7] = Append1 /\ a[8] = Trim1
    BY EnterStop
  <2>2. steps = p \o Start
    BY <1>6
  <2> HIDE DEF a
  <2>3. /\ p \in Seq(Step) /\ Len(p) = 10
        /\ \A k \in 1 .. 8 : p[k] = a[k]
        /\ p[9] = Create /\ p[10] = Enter
    <3>1. /\ p \in Seq(Step) /\ Len(p) = Len(a) + Len(<<Create, Enter>>)
          /\ \A k \in 1 .. Len(a) : p[k] = a[k]
          /\ \A k \in 1 .. Len(<<Create, Enter>>) : p[Len(a) + k] = <<Create, Enter>>[k]
      BY <2>1, CreateEnter, Joined
    <3>2. p[8 + 1] = Create /\ p[8 + 2] = Enter
      BY <2>1, <3>1, CreateEnter
    <3> HIDE DEF p
    <3> QED BY <2>1, <3>1, <3>2, CreateEnter
  <2> HIDE DEF p
  <2>4. DOMAIN p = 1 .. 10
    BY <2>3
  <2>5. /\ p[1] = Enter
        /\ p[2] = Clear("system") /\ p[3] = Clear("bins") /\ p[4] = Clear("fog")
        /\ p[5] = Clear("heartbeat") /\ p[6] = Clear("node")
        /\ p[7] = Append1 /\ p[8] = Trim1 /\ p[9] = Create /\ p[10] = Enter
    BY <2>1, <2>3
  <2>6. Calm(p)
    BY <2>4, <2>5, Kinds DEF Calm, LogsTrim
  <2>7. \A s \in Services : \E k \in DOMAIN p : p[k] = Clear(s)
    BY <2>4, <2>5 DEF Services
  <2>8. 9 \in DOMAIN p /\ p # <<>>
    BY <2>4
  <2>9. p # <<>> /\ Begins(p) /\ EndsReplacing(p, steps)
    BY <1>6, <2>2, <2>5, <2>7, <2>8 DEF Begins, EndsReplacing
  <2> QED BY <2>3, <2>6, <2>9
<1>7. CASE steps = ApiStart
  BY <1>2, <1>3, <1>7 DEF ApiStart
<1>8. CASE steps = ApiStop
  BY <1>4, <1>8 DEF ApiStop
<1>9. CASE steps = ApiConfig
  BY <1>1, <1>6, <1>9 DEF ApiConfig, ApiStop
<1>10. CASE steps = ApiAct
  BY <1>5, <1>10 DEF ApiAct
<1> QED BY <1>7, <1>8, <1>9, <1>10 DEF Programs

\* So every program is well formed, and fits the flags it finds.
LEMMA ProgramFits ==
  ASSUME NEW steps \in Programs, steps # <<>>
  PROVE  /\ steps \in Seq(Step) /\ WellFormed(steps)
         /\ \/ Head(steps) = Create
            \/ Head(steps) = Enter /\ system_instance # None
         /\ Flags \in {{}, Services} => Mode(steps, Flags)
<1>1. PICK p \in Seq(Step) :
        /\ Calm(p) /\ p # <<>> /\ Begins(p)
        /\ EndsCalm(p, steps) \/ EndsStarting(p, steps) \/ EndsReplacing(p, steps)
  BY ProgramShapes
<1>2. Len(p) \in Nat /\ Len(p) > 0 /\ DOMAIN p = 1 .. Len(p) /\ 1 \in DOMAIN p
  BY <1>1
<1>3. CASE EndsCalm(p, steps)
  <2>1. steps = p /\ \A k \in DOMAIN p : p[k] # Create
    BY <1>3 DEF EndsCalm
  <2>2. WellFormed(p)
    BY <1>1, <2>1, CalmAlone
  <2>3. Head(p) = p[1]
    BY <1>1
  <2>4. \A k \in DOMAIN p : p[k].do \in {"enter", "clear", "append", "trim"}
    BY <1>1, <2>1 DEF Calm
  <2>5. ASSUME Flags \in {{}, Services} PROVE Mode(p, Flags)
    <3>1. CASE \A k \in DOMAIN p : p[k].do # "clear"
      BY <2>4, <2>5, <3>1 DEF Mode, Leaves
    <3>2. CASE \A s \in Services : \E k \in DOMAIN p : p[k] = Clear(s)
      BY <2>4, <2>5, <3>2 DEF Mode, Stops
    <3> QED BY <1>3, <3>1, <3>2 DEF EndsCalm
  <2> QED BY <1>1, <2>1, <2>2, <2>3, <2>5 DEF Begins
<1>4. ASSUME steps = p \o Start
      PROVE  /\ steps \in Seq(Step) /\ WellFormed(steps)
             /\ \/ Head(steps) = Create
                \/ Head(steps) = Enter /\ system_instance # None
  <2>1. steps \in Seq(Step) /\ WellFormed(steps)
    BY <1>1, <1>4, CalmBefore DEF AndStarts
  <2>2. 1 \in DOMAIN steps /\ steps[1] = p[1]
    BY <1>2, <1>4, BeforeStart
  <2> HIDE <1>4
  <2>3. Head(steps) = steps[1]
    BY <2>1, <2>2
  <2> QED BY <1>1, <2>1, <2>2, <2>3 DEF Begins
<1>5. ASSUME EndsStarting(p, steps), Flags \in {{}, Services} PROVE Mode(steps, Flags)
  <2> DEFINE n == Len(p)
  <2>0. n = Len(p)
    OBVIOUS
  <2>1. steps = p \o Start /\ system_instance # None /\ n = 1 /\ p[1] = Enter
    BY <1>5 DEF EndsStarting
  <2> HIDE DEF n
  <2>2. /\ Len(steps) = n + 16 /\ DOMAIN steps = 1 .. n + 16 /\ DOMAIN Start = 1 .. 16
        /\ \A k \in 1 .. n : k \in DOMAIN steps /\ steps[k] = p[k]
    BY <2>0, <2>1, BeforeStart
  <2>3. \A j \in 1 .. 16 : n + j \in DOMAIN steps /\ steps[n + j] = Start[j]
    <3>1. steps = p \o Start
      BY <2>1
    <3> QED BY <2>0, <3>1, AtStart
  <2>4. \A k \in DOMAIN steps : k \in 1 .. n \/ \E j \in 1 .. 16 : k = n + j
    BY <2>1, <2>2, NotBefore
  <2>5. steps[1] = Enter
    BY <2>1, <2>2
  <2>6. CASE Flags = {}
    <3>1. ASSUME NEW s \in Services PROVE \E k \in DOMAIN steps : steps[k] = Raise(s)
      <4>1. PICK j \in 1 .. 16 : Start[j] = Raise(s)
        BY <2>2, StartShape
      <4> QED BY <2>3, <4>1
    <3>2. ASSUME NEW k \in DOMAIN steps PROVE steps[k].do \notin {"create", "clear"}
      <4>1. CASE k \in 1 .. n
        <5>1. k = 1
          BY <2>1, <4>1
        <5> QED BY <2>5, <5>1, Kinds
      <4>2. ASSUME NEW j \in 1 .. 16, k = n + j
            PROVE  steps[k].do \notin {"create", "clear"}
        BY <2>2, <2>3, <4>2, StartShape
      <4> QED BY <2>4, <4>1, <4>2
    <3>3. Starts(steps, Flags)
      BY <2>1, <2>6, <3>1, <3>2 DEF Starts
    <3> QED BY <3>3 DEF Mode
  <2>7. CASE Flags = Services
    <3>1. 2 \in DOMAIN steps /\ steps[2] = Test("system", 15)
      <4>1. steps[n + 1] = Start[1] /\ n + 1 \in DOMAIN steps
        BY <2>3
      <4>2. n + 1 = 2
        BY <2>1
      <4> QED BY <4>1, <4>2, StartSteps
    <3>2. Len(steps) - 2 = 15
      BY <2>1, <2>2
    <3>3. ASSUME NEW j \in DOMAIN steps, j < 2 PROVE steps[j] = Enter
      <4>1. DOMAIN steps = 1 .. n + 16 /\ n = 1 /\ p[1] = Enter
        BY <2>1, <2>2
      <4>2. j = 1
        BY <3>3, <4>1
      <4>3. steps[1] = p[1]
        BY <2>2, <4>1
      <4> QED BY <4>1, <4>2, <4>3
    <3>4. FindsRunning(steps, Flags)
      BY <2>7, <3>1, <3>2, <3>3 DEF FindsRunning
    <3> QED BY <3>4 DEF Mode
  <2> QED BY <1>5, <2>6, <2>7
<1>6. ASSUME EndsReplacing(p, steps), Flags \in {{}, Services} PROVE Mode(steps, Flags)
  <2> DEFINE n == Len(p)
  <2>1. /\ steps = p \o Start /\ \E k \in DOMAIN p : p[k] = Create
        /\ system_instance # None => \A s \in Services : \E k \in DOMAIN p : p[k] = Clear(s)
    BY <1>6 DEF EndsReplacing
  <2>2. /\ DOMAIN p = 1 .. n /\ DOMAIN steps = 1 .. n + 16 /\ n \in Nat
        /\ \A k \in 1 .. n : k \in DOMAIN steps /\ steps[k] = p[k]
    BY <2>1, BeforeStart
  <2> HIDE DEF n
  <2>3. PICK c \in DOMAIN p : p[c] = Create
    BY <2>1
  <2>4. ASSUME NEW k \in DOMAIN steps, steps[k].do \in {"raise", "test"}
        PROVE  \E j \in DOMAIN steps : j < k /\ steps[j] = Create
    <3>1. ~(k \in 1 .. n)
      BY <1>1, <2>2, <2>4, CalmSteps
    <3>2. k > n /\ c \in 1 .. n /\ c < k
      BY <2>2, <3>1
    <3> QED BY <2>2, <2>3, <3>2
  <2>5. ASSUME NEW s \in Services, system_instance # None
        PROVE  \E k \in DOMAIN steps : steps[k] = Clear(s)
    BY <2>1, <2>2, <2>5
  <2>6. Flags = {} \/ system_instance # None
    BY DEF Flags
  <2>7. ASSUME NEW s \in Flags PROVE \E k \in DOMAIN steps : steps[k] = Clear(s)
    <3>1. system_instance # None
      BY <2>6, <2>7
    <3> QED BY <1>6, <2>5, <2>7, <3>1
  <2> QED BY <2>4, <2>7 DEF Mode, Stops
<1> QED BY <1>1, <1>3, <1>4, <1>5, <1>6 DEF EndsStarting, EndsReplacing

-----------------------------------------------------------------------------
(***************************************************************************)
(* What a step does to the request that takes it.                          *)
(***************************************************************************)

\* The step the request is about to take.
LEMMA NextStep ==
  ASSUME TypeOK, NEW r \in Requests, todo[r] # <<>>
  PROVE  /\ todo[r] \in Seq(Step) /\ Head(todo[r]) = todo[r][1] /\ Head(todo[r]) \in Step
         /\ 1 \in DOMAIN todo[r]
  BY DEF TypeOK

LEMMA KindOf ==
  ASSUME NEW x \in Step
  PROVE  /\ x.do = "create" <=> x = Create
         /\ x.do = "enter" <=> x = Enter
         /\ x.do = "append" <=> x = Append1
         /\ x.do = "trim" <=> x = Trim1
         /\ x.do = "raise" <=> x.s \in Services /\ x = Raise(x.s)
         /\ x.do = "clear" <=> x.s \in Services /\ x = Clear(x.s)
         /\ x.do = "spawn" <=> x.s \in Loops /\ x = Spawn(x.s)
         /\ x.do = "test" <=> /\ x.s \in Services /\ x.skip \in Nat
                              /\ x = Test(x.s, x.skip)
  BY StepKinds, Kinds

\* The request goes on with what is left after n steps.
Advances(r, n) ==
  /\ IsRest(todo[r], n, todo'[r])
  /\ todo' = [todo EXCEPT ![r] = todo'[r]]

LEMMA TakesAdvances ==
  ASSUME TypeOK, NEW r \in Requests, NEW kind, Takes(r, kind)
  PROVE  Advances(r, 1)
<1>1. todo[r] \in Seq(Step) /\ todo[r] # <<>> /\ todo'[r] = Tail(todo[r])
  BY DEF Takes, TypeOK
<1> QED BY <1>1, TailIsRest DEF Takes, Advances

\* A test that finds the flag up leaves out steps, and no other step does.
LEMMA TestAdvances ==
  ASSUME TypeOK, NEW r \in Requests, SkipsWhole(todo[r]), TestFlag(r)
  PROVE  LET x == Head(todo[r])
         IN /\ x.do = "test"
            /\ IF x.s \in up[on[r]] THEN Advances(r, x.skip + 1) ELSE Advances(r, 1)
<1> DEFINE q == todo[r]
           x == Head(q)
<1>1. q # <<>> /\ x.do = "test"
  BY DEF TestFlag
<1>2. /\ q \in Seq(Step) /\ x = q[1] /\ x.s \in Services /\ x.skip \in Nat
      /\ x = Test(x.s, x.skip) /\ 1 \in DOMAIN q
  BY <1>1, NextStep, KindOf
<1>3. 1 + x.skip <= Len(q)
  BY <1>2 DEF SkipsWhole
<1>4. IsRest(q, 1, Tail(q)) /\ IsRest(q, x.skip + 1, SubSeq(q, x.skip + 2, Len(q)))
  <2>1. x.skip + 1 <= Len(q)
    BY <1>2, <1>3
  <2> QED BY <1>1, <1>2, <2>1, TailIsRest, SkipIsRest
<1>5. todo' = [todo EXCEPT ![r] = todo'[r]]
  BY DEF TestFlag, TypeOK
<1>6. todo'[r] = IF x.s \in up[on[r]] THEN SubSeq(q, x.skip + 2, Len(q)) ELSE Tail(q)
  BY DEF TestFlag, TypeOK
<1> QED BY <1>1, <1>4, <1>5, <1>6 DEF Advances

LEMMA ServeAdvances ==
  ASSUME TypeOK, NEW r \in Requests, SkipsWhole(todo[r]), Serve(r)
  PROVE  todo[r] # <<>> /\ \E n : Advances(r, n)
<1>1. todo[r] # <<>>
  BY DEF Serve, CreateSystem, EnterSystem, TestFlag, RaiseFlag, ClearFlag, SpawnLoop,
         AppendEntry, Trim, Takes
<1>2. CASE TestFlag(r)
  BY <1>1, <1>2, TestAdvances
<1>3. CASE \E kind : Takes(r, kind)
  BY <1>1, <1>3, TakesAdvances
<1> QED BY <1>2, <1>3 DEF Serve, CreateSystem, EnterSystem, RaiseFlag, ClearFlag,
                          SpawnLoop, AppendEntry, Trim

\* The steps of the requests that arrive.
Arrives(r) == \E steps \in Programs : Arrive(r, steps)

\* The next-state relation, as requests that arrive, that go on, and loops.
LoopStep ==
  \E i \in Systems : AlertAppend(i) \/ AlertTrim(i) \/ \E s \in Loops : LoopEnds(i, s)

LEMMA NextCases ==
  ASSUME Next
  PROVE  (\E r \in Requests : Serve(r) \/ Arrives(r)) \/ LoopStep
  BY DEF Next, Arrives, Programs, LoopStep

-----------------------------------------------------------------------------
\* The variables keep their types.
LEMMA TypeStep == TypeOK /\ [Next]_vars => TypeOK'
<1> SUFFICES ASSUME TypeOK, Next PROVE TypeOK'
  BY DEF vars, TypeOK
<1> USE DEF TypeOK
<1>0. /\ MaxSystems \in Nat /\ MaxLoops \in Nat /\ MaxRequests \in Nat
      /\ max_log_entries \in Nat
  BY ConsoleAssumption
<1>1. \A n \in Nat : Trimmed(n) \in Nat
  BY <1>0 DEF Trimmed
<1>2. ASSUME NEW r \in Requests, NEW kind, Takes(r, kind)
      PROVE  todo' \in [Requests -> Seq(Step)] /\ Head(todo[r]) \in Step
                /\ Head(todo[r]).do = kind
  BY <1>2, NextStep DEF Takes
<1>3. ASSUME NEW r \in Requests, Arrives(r) PROVE TypeOK'
  <2>1. PICK steps \in Programs : Arrive(r, steps)
    BY <1>3 DEF Arrives
  <2>2. steps \in Seq(Step)
    BY <2>1, ProgramFits DEF Arrive
  <2>3. todo' \in [Requests -> Seq(Step)] /\ on' \in [Requests -> 0 .. MaxSystems]
    BY <1>0, <2>1, <2>2 DEF Arrive, None
  <2> QED BY <1>0, <2>1, <2>3 DEF Arrive
<1>4. ASSUME NEW r \in Requests, Serve(r) PROVE TypeOK'
  <2>1. CASE CreateSystem(r)
    <3>1. todo' \in [Requests -> Seq(Step)]
      BY <1>2, <2>1 DEF CreateSystem
    <3>2. created' \in 0 .. MaxSystems /\ system_instance' \in 0 .. created'
      BY <1>0, <2>1 DEF CreateSystem
    <3> QED BY <2>1, <3>1, <3>2 DEF CreateSystem
  <2>2. CASE EnterSystem(r)
    <3>1. todo' \in [Requests -> Seq(Step)]
      BY <1>2, <2>2 DEF EnterSystem
    <3>2. system_instance \in 0 .. MaxSystems
      BY <1>0
    <3>3. on' \in [Requests -> 0 .. MaxSystems]
      BY <2>2, <3>2 DEF EnterSystem
    <3> QED BY <2>2, <3>1, <3>3 DEF EnterSystem
  <2>3. CASE TestFlag(r)
    <3>1. todo[r] # <<>> /\ Head(todo[r]).do = "test"
      BY <2>3 DEF TestFlag
    <3>2. todo[r] \in Seq(Step) /\ Head(todo[r]).skip \in Nat
      BY <3>1, NextStep, KindOf
    <3>3. /\ SubSeq(todo[r], Head(todo[r]).skip + 2, Len(todo[r])) \in Seq(Step)
          /\ Tail(todo[r]) \in Seq(Step)
      BY <3>1, <3>2
    <3>4. todo' \in [Requests -> Seq(Step)]
      BY <2>3, <3>3 DEF TestFlag
    <3> QED BY <2>3, <3>4 DEF TestFlag
  <2>4. CASE RaiseFlag(r)
    <3>1. todo' \in [Requests -> Seq(Step)] /\ Head(todo[r]).s \in Services
      BY <1>2, <2>4, KindOf DEF RaiseFlag
    <3>2. up' \in [Systems -> SUBSET Services]
      BY <2>4, <3>1 DEF RaiseFlag
    <3> QED BY <2>4, <3>1, <3>2 DEF RaiseFlag
  <2>5. CASE ClearFlag(r)
    <3>1. todo' \in [Requests -> Seq(Step)]
      BY <1>2, <2>5 DEF ClearFlag
    <3>2. up' \in [Systems -> SUBSET Services]
      BY <2>5, <3>1 DEF ClearFlag
    <3> QED BY <2>5, <3>1, <3>2 DEF ClearFlag
  <2>6. CASE SpawnLoop(r)
    <3>1. todo' \in [Requests -> Seq(Step)] /\ Head(todo[r]).s \in Loops
      BY <1>2, <2>6, KindOf DEF SpawnLoop
    <3>2. loops' \in [Systems -> [Loops -> 0 .. MaxLoops]]
      <4> DEFINE s == Head(todo[r]).s
                 i == on[r]
      <4>1. loops' = [loops EXCEPT ![i][s] = @ + 1] /\ loops[i][s] < MaxLoops /\ s \in Loops
        BY <2>6, <3>1 DEF SpawnLoop
      <4> HIDE DEF s, i
      <4>2. CASE i \in Systems
        <5>1. loops[i] \in [Loops -> 0 .. MaxLoops] /\ loops[i][s] \in 0 .. MaxLoops
          BY <4>1, <4>2
        <5>2. loops[i][s] + 1 \in 0 .. MaxLoops
          BY <1>0, <4>1, <5>1
        <5>3. [loops[i] EXCEPT ![s] = @ + 1] \in [Loops -> 0 .. MaxLoops]
          BY <5>1, <5>2
        <5> QED BY <4>1, <5>3
      <4>3. CASE i \notin Systems
        BY <4>1, <4>3
      <4> QED BY <4>2, <4>3
    <3> QED BY <2>6, <3>1, <3>2 DEF SpawnLoop
  <2>7. CASE AppendEntry(r)
    <3>1. todo' \in [Requests -> Seq(Step)]
      BY <1>2, <2>7 DEF AppendEntry
    <3>2. event_log' = [event_log EXCEPT ![on[r]] = @ + 1]
      BY <2>7 DEF AppendEntry
    <3>3. \A i \in Systems : event_log[i] + 1 \in Nat
      OBVIOUS
    <3>4. event_log' \in [Systems -> Nat]
      BY <3>2, <3>3
    <3> QED BY <2>7, <3>1, <3>4 DEF AppendEntry
  <2>8. CASE Trim(r)
    <3>1. todo' \in [Requests -> Seq(Step)]
      BY <1>2, <2>8 DEF Trim
    <3>2. event_log' \in [Systems -> Nat]
      BY <1>1, <2>8 DEF Trim
    <3> QED BY <2>8, <3>1, <3>2 DEF Trim
  <2> QED BY <1>4, <2>1, <2>2, <2>3, <2>4, <2>5, <2>6, <2>7, <2>8 DEF Serve
<1>5. ASSUME LoopStep PROVE TypeOK'
  <2>1. ASSUME NEW i \in Systems, AlertAppend(i) PROVE TypeOK'
    <3>1. event_log' = [event_log EXCEPT ![i] = event_log[i] + 1]
      BY <2>1 DEF AlertAppend
    <3>2. event_log' \in [Systems -> Nat]
      BY <3>1
    <3>3. alerting' = [alerting EXCEPT ![i] = alerting[i] + 1]
      BY <2>1 DEF AlertAppend
    <3>4. alerting[i] + 1 \in 0 .. MaxLoops
      <4>1. loops[i]["bins"] \in 0 .. MaxLoops
        BY LoopsAre
      <4> QED BY <1>0, <2>1, <4>1 DEF AlertAppend
    <3>5. alerting' \in [Systems -> 0 .. MaxLoops]
      BY <3>3, <3>4
    <3> QED BY <2>1, <3>2, <3>5 DEF AlertAppend
  <2>2. ASSUME NEW i \in Systems, AlertTrim(i) PROVE TypeOK'
    <3>1. event_log' \in [Systems -> Nat]
      BY <1>1, <2>2 DEF AlertTrim
    <3>2. alerting' = [alerting EXCEPT ![i] = alerting[i] - 1]
      BY <2>2 DEF AlertTrim
    <3>3. alerting[i] - 1 \in 0 .. MaxLoops
      BY <1>0, <2>2 DEF AlertTrim
    <3>4. alerting' \in [Systems -> 0 .. MaxLoops]
      BY <3>2, <3>3
    <3> QED BY <2>2, <3>1, <3>4 DEF AlertTrim
  <2>3. ASSUME NEW i \in Systems, NEW s \in Loops, LoopEnds(i, s) PROVE TypeOK'
    <3>1. loops' \in [Systems -> [Loops -> 0 .. MaxLoops]]
      BY <1>0, <2>3 DEF LoopEnds
    <3> QED BY <2>3, <3>1 DEF LoopEnds
  <2> QED BY <1>5, <2>1, <2>2, <2>3 DEF LoopStep
<1> QED BY <1>3, <1>4, <1>5, NextCases

-----------------------------------------------------------------------------
\* What is left of a program stays well formed.
LEMMA WellFormedStep ==
  ASSUME TypeOK, \A r \in Requests : WellFormed(todo[r]), [Next]_vars
  PROVE  \A r \in Requests : WellFormed(todo'[r])
<1>1. CASE UNCHANGED vars
  BY <1>1 DEF vars
<1>2. ASSUME NEW r \in Requests, Arrives(r) PROVE \A p \in Requests : WellFormed(todo'[p])
  <2>1. PICK steps \in Programs : Arrive(r, steps)
    BY <1>2 DEF Arrives
  <2>2. WellFormed(steps) /\ todo' = [todo EXCEPT ![r] = steps]
    BY <2>1, ProgramFits DEF Arrive
  <2> QED BY <2>2 DEF TypeOK
<1>3. ASSUME NEW r \in Requests, Serve(r) PROVE \A p \in Requests : WellFormed(todo'[p])
  <2>1. PICK n : Advances(r, n)
    BY <1>3, ServeAdvances DEF WellFormed
  <2>2. todo[r] \in Seq(Step) /\ IsRest(todo[r], n, todo'[r])
    BY <2>1 DEF Advances, TypeOK
  <2>3. WellFormed(todo'[r])
    BY <2>2, RestWellFormed
  <2> QED BY <2>1, <2>3 DEF Advances, TypeOK
<1>4. CASE LoopStep
  BY <1>4 DEF LoopStep, AlertAppend, AlertTrim, LoopEnds
<1> QED BY <1>1, <1>2, <1>3, <1>4, NextCases

\* A request works on a system that was created.
LEMMA OnCreatedStep ==
  ASSUME TypeOK, TypeOK', \A r \in Requests : WellFormed(todo[r]) /\ OnCreated(r), [Next]_vars
  PROVE  \A r \in Requests : OnCreated(r)'
<1> SUFFICES ASSUME NEW p \in Requests PROVE OnCreated(p)'
  OBVIOUS
<1>0. OnCreated(p) /\ WellFormed(todo[p])
  OBVIOUS
<1>1. ASSUME todo'[p] = todo[p], on'[p] = on[p],
             created' = created, system_instance' = system_instance
      PROVE  OnCreated(p)'
  BY <1>0, <1>1 DEF OnCreated
<1>2. ASSUME NEW r \in Requests, Arrives(r) PROVE OnCreated(p)'
  <2>1. PICK steps \in Programs : Arrive(r, steps)
    BY <1>2 DEF Arrives
  <2>2. CASE p = r
    <3>1. todo'[p] = steps /\ steps # <<>> /\ system_instance' = system_instance
      BY <2>1, <2>2 DEF Arrive, TypeOK
    <3>2. Head(steps) = Create \/ (Head(steps) = Enter /\ system_instance # None)
      BY <3>1, ProgramFits
    <3> QED BY <3>1, <3>2 DEF OnCreated
  <2>3. CASE p # r
    <3>1. todo'[p] = todo[p] /\ on'[p] = on[p]
      BY <2>1, <2>3 DEF Arrive, TypeOK
    <3> QED BY <1>1, <2>1, <3>1 DEF Arrive
  <2> QED BY <2>2, <2>3
<1>3. ASSUME NEW r \in Requests, Serve(r) PROVE OnCreated(p)'
  <2>1. PICK n : Advances(r, n)
    BY <1>3, ServeAdvances DEF WellFormed
  <2>2. /\ todo[r] # <<>> /\ Head(todo[r]) = todo[r][1] /\ Head(todo[r]) \in Step
        /\ todo[r] \in Seq(Step)
    BY <1>3, <2>1, ServeAdvances, NextStep DEF WellFormed
  <2>3. p # r => todo'[p] = todo[p]
    BY <2>1 DEF Advances, TypeOK
  <2>4. CASE CreateSystem(r)
    <3>1. created' = created + 1 /\ system_instance' = created + 1 /\ on' = on
      BY <2>4 DEF CreateSystem
    <3>2. created \in Nat /\ None # created + 1
      BY DEF TypeOK, None
    <3>3. CASE p # r
      BY <1>0, <2>3, <3>1, <3>2, <3>3 DEF OnCreated
    <3>4. CASE p = r
      <4>1. todo[r][1] = Create /\ todo'[r] = Tail(todo[r])
        BY <2>2, <2>4, KindOf DEF CreateSystem, Takes, TypeOK
      <4>2. 1 + 1 \in DOMAIN todo[r] /\ todo[r][1 + 1] = Enter
        BY <2>2, <4>1 DEF WellFormed, StartsCreated
      <4>3. Head(todo'[r]) = Enter
        BY <2>2, <4>1, <4>2
      <4> QED BY <3>1, <3>2, <3>4, <4>3 DEF OnCreated
    <3> QED BY <3>3, <3>4
  <2>5. CASE EnterSystem(r)
    <3>1. /\ created' = created /\ system_instance' = system_instance
          /\ on' = [on EXCEPT ![r] = system_instance]
      BY <2>5 DEF EnterSystem
    <3>2. CASE p # r
      <4>1. on'[p] = on[p]
        BY <3>1, <3>2 DEF TypeOK
      <4> QED BY <1>1, <2>3, <3>1, <3>2, <4>1
    <3>3. CASE p = r
      <4>1. Head(todo[r]) = Enter
        BY <2>2, <2>5, KindOf DEF EnterSystem, Takes
      <4>3. on'[p] = system_instance /\ system_instance \in 0 .. created
        BY <3>1, <3>3 DEF TypeOK
      <4>4. system_instance # None
        BY <1>0, <2>2, <3>3, <4>1, Kinds DEF OnCreated
      <4>5. on'[p] \in 1 .. created
        BY <4>3, <4>4 DEF None
      <4> QED BY <3>1, <4>4, <4>5 DEF OnCreated
    <3> QED BY <3>2, <3>3
  <2>6. CASE on' = on /\ created' = created /\ system_instance' = system_instance
             /\ Head(todo[r]).do \notin {"create", "enter"}
    <3>1. CASE p # r
      BY <1>1, <2>3, <2>6, <3>1
    <3>2. CASE p = r
      <4>1. on[r] \in 1 .. created /\ system_instance # None
        BY <1>0, <2>2, <2>6, <3>2, Kinds DEF OnCreated
      <4> QED BY <2>6, <3>2, <4>1 DEF OnCreated
    <3> QED BY <3>1, <3>2
  <2> QED BY <1>3, <2>4, <2>5, <2>6 DEF Serve, TestFlag, RaiseFlag, ClearFlag, SpawnLoop,
                                        AppendEntry, Trim, Takes
<1>4. CASE LoopStep
  <2>1. /\ todo' = todo /\ on' = on /\ created' = created
        /\ system_instance' = system_instance
    BY <1>4 DEF LoopStep, AlertAppend, AlertTrim, LoopEnds
  <2> QED BY <1>1, <2>1
<1>5. CASE UNCHANGED vars
  BY <1>1, <1>5 DEF vars
<1> QED BY <1>2, <1>3, <1>4, <1>5, NextCases

-----------------------------------------------------------------------------
(***************************************************************************)
(* UpHasLoop: a flag that is up is backed.                                 *)
(***************************************************************************)

\* A request stays committed until it starts the loop.
LEMMA StaysCommitted ==
  ASSUME TypeOK, NEW r \in Requests, WellFormed(todo[r]), Serve(r), NEW s \in Loops,
         Committed(todo[r], s), Head(todo[r]) # Spawn(s)
  PROVE  Committed(todo'[r], s) /\ on'[r] = on[r]
<1> DEFINE q == todo[r]
           e == todo'[r]
           x == Head(q)
<1>1. PICK j \in DOMAIN q : q[j] = Spawn(s) /\ \A i \in DOMAIN q : i < j => q[i] # Raise(s)
  BY DEF Committed
<1>2. /\ q # <<>> /\ q \in Seq(Step) /\ x = q[1] /\ x \in Step /\ 1 \in DOMAIN q
      /\ DOMAIN q = 1 .. Len(q) /\ Len(q) \in Nat
  BY ServeAdvances, NextStep DEF WellFormed
<1>3. j > 1
  BY <1>1, <1>2
<1>4. x # Enter
  <2>1. CASE x = Enter
    <3>1. RaisedBetween(q, 1, j, s)
      BY <1>1, <1>2, <1>3, <2>1 DEF WellFormed, EntersAfresh
    <3> QED BY <1>1, <3>1 DEF RaisedBetween
  <2> QED BY <2>1
<1>5. on' = on
  BY <1>2, <1>4, KindOf DEF Serve, CreateSystem, EnterSystem, TestFlag, RaiseFlag,
     ClearFlag, SpawnLoop, AppendEntry, Trim, Takes
<1>6. ASSUME NEW n, IsRest(q, n, e), n < j PROVE Committed(e, s)
  <2>1. /\ n \in Nat /\ DOMAIN e = 1 .. Len(q) - n
        /\ \A k \in DOMAIN e : n + k \in DOMAIN q /\ e[k] = q[n + k]
        /\ \A k \in DOMAIN q : k > n => k - n \in DOMAIN e /\ e[k - n] = q[k]
    BY <1>2, <1>6, RestElements
  <2>2. j - n \in DOMAIN e /\ e[j - n] = Spawn(s)
    BY <1>1, <1>6, <2>1
  <2>3. ASSUME NEW i \in DOMAIN e, i < j - n PROVE e[i] # Raise(s)
    <3>1. n + i \in DOMAIN q /\ e[i] = q[n + i]
      BY <2>1
    <3>2. n + i < j
      BY <1>2, <2>1, <2>3
    <3> QED BY <1>1, <3>1, <3>2
  <2> QED BY <2>2, <2>3 DEF Committed
<1>7. CASE TestFlag(r) /\ x.s \in up[on[r]]
  <2>1. /\ x.do = "test" /\ IsRest(q, x.skip + 1, e)
    BY <1>7, TestAdvances DEF WellFormed, Advances
  <2>2. x.s \in Services /\ x.skip \in Nat /\ x = Test(x.s, x.skip)
    BY <1>2, <2>1, KindOf
  <2>3. ~(j <= 1 + x.skip)
    <3>1. CASE j <= 1 + x.skip
      <4>1. RaisedBetween(q, 1, j, s)
        BY <1>1, <1>2, <1>3, <2>2, <3>1 DEF WellFormed, SkipsWhole
      <4> QED BY <1>1, <4>1 DEF RaisedBetween
    <3> QED BY <3>1
  <2>4. x.skip + 1 < j
    BY <1>2, <2>2, <2>3
  <2> QED BY <1>5, <1>6, <2>1, <2>4
<1>8. CASE TestFlag(r) /\ x.s \notin up[on[r]]
  <2>1. IsRest(q, 1, e)
    BY <1>8, TestAdvances DEF WellFormed, Advances
  <2> QED BY <1>3, <1>5, <1>6, <2>1
<1>9. CASE \E kind : Takes(r, kind)
  <2>1. IsRest(q, 1, e)
    BY <1>9, TakesAdvances DEF Advances
  <2> QED BY <1>3, <1>5, <1>6, <2>1
<1> QED BY <1>7, <1>8, <1>9 DEF Serve, CreateSystem, EnterSystem, RaiseFlag, ClearFlag,
                                SpawnLoop, AppendEntry, Trim

\* Raising a flag commits the request to start its loop.
LEMMA RaiseCommits ==
  ASSUME TypeOK, NEW r \in Requests, WellFormed(todo[r]), RaiseFlag(r), NEW s \in Loops,
         Head(todo[r]).s = s
  PROVE  Committed(todo'[r], s) /\ on'[r] = on[r]
<1> DEFINE q == todo[r]
           e == todo'[r]
<1>1. /\ q \in Seq(Step) /\ q[1] = Raise(s) /\ 1 \in DOMAIN q /\ IsRest(q, 1, e)
      /\ DOMAIN q = 1 .. Len(q) /\ Len(q) \in Nat
  <2>1. Takes(r, "raise") /\ q # <<>> /\ Head(q).do = "raise"
    BY DEF RaiseFlag, Takes
  <2>2. q \in Seq(Step) /\ Head(q) = q[1] /\ Head(q) \in Step /\ 1 \in DOMAIN q
    BY <2>1, NextStep
  <2>3. q[1] = Raise(s)
    BY <2>1, <2>2, KindOf
  <2>4. IsRest(q, 1, e)
    BY <2>1, TakesAdvances DEF Advances
  <2> QED BY <2>2, <2>3, <2>4
<1>2. PICK j \in DOMAIN q : 1 < j /\ q[j] = Spawn(s)
  BY <1>1 DEF WellFormed, LoopFollows
<1>3. \A i \in DOMAIN q : 1 < i => q[i] # Raise(s)
  BY <1>1, LoopsAre DEF WellFormed, RaisedOnce
<1>4. /\ DOMAIN e = 1 .. Len(q) - 1
      /\ \A k \in DOMAIN e : 1 + k \in DOMAIN q /\ e[k] = q[1 + k]
      /\ \A k \in DOMAIN q : k > 1 => k - 1 \in DOMAIN e /\ e[k - 1] = q[k]
  BY <1>1, RestElements
<1>5. j - 1 \in DOMAIN e /\ e[j - 1] = Spawn(s)
  BY <1>2, <1>4
<1>6. ASSUME NEW i \in DOMAIN e PROVE e[i] # Raise(s)
  <2>1. 1 + i \in DOMAIN q /\ e[i] = q[1 + i] /\ 1 < 1 + i
    BY <1>1, <1>4
  <2> QED BY <1>3, <2>1
<1>7. on' = on
  BY DEF RaiseFlag
<1> QED BY <1>5, <1>6, <1>7 DEF Committed

LEMMA BackedStep ==
  ASSUME TypeOK, TypeOK', \A r \in Requests : WellFormed(todo[r]), Backed, [Next]_vars
  PROVE  Backed'
<1> SUFFICES ASSUME NEW i \in Systems, NEW s \in Loops, s \in up'[i]
             PROVE  \/ loops'[i][s] > 0
                    \/ \E r \in Requests : on'[r] = i /\ Committed(todo'[r], s)
  BY DEF Backed, Committed, Systems
<1>0. s \in up[i] => \/ loops[i][s] > 0
                     \/ \E r \in Requests : on[r] = i /\ Committed(todo[r], s)
  BY DEF Backed
<1> DEFINE Goal == \/ loops'[i][s] > 0
                   \/ \E r \in Requests : on'[r] = i /\ Committed(todo'[r], s)
<1> HIDE DEF Goal
<1>a. ASSUME loops'[i][s] > 0 PROVE Goal
  BY <1>a DEF Goal
<1>b. ASSUME NEW r \in Requests, on'[r] = i, Committed(todo'[r], s) PROVE Goal
  BY <1>b DEF Goal
<1>1. CASE UNCHANGED vars
  BY <1>0, <1>1 DEF vars, Goal
<1>2. ASSUME NEW r \in Requests, Arrives(r) PROVE Goal
  <2>1. PICK steps : Arrive(r, steps)
    BY <1>2 DEF Arrives
  <2>2. up' = up /\ loops' = loops /\ todo[r] = <<>>
    BY <2>1 DEF Arrive
  <2>3. \A p \in Requests \ {r} : todo'[p] = todo[p] /\ on'[p] = on[p]
    BY <2>1 DEF Arrive, TypeOK
  <2>4. ~Committed(todo[r], s)
    BY <2>2 DEF Committed
  <2>5. CASE loops[i][s] > 0
    BY <1>a, <2>2, <2>5
  <2>6. ASSUME NEW p \in Requests, on[p] = i, Committed(todo[p], s) PROVE Goal
    <3>1. p # r
      BY <2>4, <2>6
    <3> QED BY <1>b, <2>3, <2>6, <3>1
  <2> QED BY <1>0, <2>2, <2>5, <2>6
<1>3. ASSUME NEW r \in Requests, Serve(r) PROVE Goal
  <2>1. PICK n : Advances(r, n)
    BY <1>3, ServeAdvances DEF WellFormed
  <2>2. \A p \in Requests \ {r} : todo'[p] = todo[p] /\ on'[p] = on[p]
    <3>1. todo' = [todo EXCEPT ![r] = todo'[r]]
      BY <2>1 DEF Advances
    <3>2. on' = on \/ on' = [on EXCEPT ![r] = system_instance]
      BY <1>3 DEF Serve, CreateSystem, EnterSystem, TestFlag, RaiseFlag, ClearFlag,
                  SpawnLoop, AppendEntry, Trim
    <3> QED BY <3>1, <3>2 DEF TypeOK
  <2>3. /\ Head(todo[r]) \in Step /\ todo[r] # <<>>
    BY <1>3, ServeAdvances, NextStep DEF WellFormed
  <2>4. CASE SpawnLoop(r) /\ on[r] = i /\ Head(todo[r]) = Spawn(s)
    <3>1. loops'[i][s] = loops[i][s] + 1
      BY <2>4, Kinds DEF SpawnLoop, TypeOK
    <3>2. loops[i][s] \in Nat
      BY ConsoleAssumption DEF TypeOK
    <3> QED BY <1>a, <3>1, <3>2
  <2>5. CASE RaiseFlag(r) /\ on[r] = i /\ Head(todo[r]).s = s
    <3>1. Committed(todo'[r], s) /\ on'[r] = on[r]
      BY <2>5, RaiseCommits
    <3> QED BY <1>b, <2>5, <3>1
  <2>6. ASSUME ~(SpawnLoop(r) /\ on[r] = i /\ Head(todo[r]) = Spawn(s)), s \in up[i]
        PROVE  Goal
    <3>1. CASE loops[i][s] > 0
      <4>1. loops'[i][s] > 0
        <5>1. CASE loops' = loops
          BY <3>1, <5>1
        <5>2. CASE SpawnLoop(r)
          <6> DEFINE t == Head(todo[r]).s
                     h == on[r]
          <6>1. loops' = [loops EXCEPT ![h][t] = @ + 1]
            BY <5>2 DEF SpawnLoop
          <6> HIDE DEF t, h
          <6>2. loops[i] \in [Loops -> 0 .. MaxLoops] /\ loops[i][s] \in Nat
            BY ConsoleAssumption DEF TypeOK
          <6>3. loops'[i][s] = loops[i][s] \/ loops'[i][s] = loops[i][s] + 1
            BY <6>1, <6>2 DEF TypeOK
          <6> QED BY <3>1, <6>2, <6>3
        <5> QED BY <1>3, <5>1, <5>2 DEF Serve, CreateSystem, EnterSystem, TestFlag,
                                       RaiseFlag, ClearFlag, AppendEntry, Trim
      <4> QED BY <1>a, <4>1
    <3>2. ASSUME NEW p \in Requests, on[p] = i, Committed(todo[p], s) PROVE Goal
      <4>1. CASE p # r
        BY <1>b, <2>2, <3>2, <4>1
      <4>2. CASE p = r
        <5>1. Head(todo[r]) # Spawn(s)
          <6>1. CASE Head(todo[r]) = Spawn(s)
            <7>1. Head(todo[r]).do = "spawn"
              BY <6>1, Kinds
            <7>2. SpawnLoop(r)
              BY <1>3, <7>1 DEF Serve, CreateSystem, EnterSystem, TestFlag, RaiseFlag,
                                ClearFlag, AppendEntry, Trim, Takes
            <7> QED BY <2>6, <3>2, <4>2, <6>1, <7>2
          <6> QED BY <6>1
        <5>2. Committed(todo'[r], s) /\ on'[r] = on[r]
          BY <1>3, <3>2, <4>2, <5>1, StaysCommitted
        <5> QED BY <1>b, <3>2, <4>2, <5>2
      <4> QED BY <4>1, <4>2
    <3> QED BY <1>0, <2>6, <3>1, <3>2
  <2>7. s \in up[i] \/ (RaiseFlag(r) /\ on[r] = i /\ Head(todo[r]).s = s)
    <3>1. CASE up' = up
      BY <3>1
    <3>2. CASE RaiseFlag(r)
      BY <3>2 DEF RaiseFlag, TypeOK
    <3>3. CASE ClearFlag(r)
      BY <3>3 DEF ClearFlag, TypeOK
    <3> QED BY <1>3, <3>1, <3>2, <3>3 DEF Serve, CreateSystem, EnterSystem, TestFlag,
                                         SpawnLoop, AppendEntry, Trim
  <2> QED BY <2>4, <2>5, <2>6, <2>7
<1>4. CASE LoopStep
  <2>1. up' = up /\ todo' = todo /\ on' = on
    BY <1>4 DEF LoopStep, AlertAppend, AlertTrim, LoopEnds
  <2>2. loops[i][s] > 0 => loops'[i][s] > 0
    <3>1. CASE loops' = loops
      BY <3>1
    <3>2. ASSUME NEW j \in Systems, NEW t \in Loops, LoopEnds(j, t)
          PROVE  loops'[i][s] = loops[i][s]
      <4>1. loops' = [loops EXCEPT ![j][t] = @ - 1] /\ t \notin up[j]
        BY <3>2 DEF LoopEnds, Ends
      <4>2. ~(j = i /\ t = s)
        BY <2>1, <4>1
      <4> QED BY <4>1, <4>2 DEF TypeOK
    <3> QED BY <1>4, <3>1, <3>2 DEF LoopStep, AlertAppend, AlertTrim
  <2> QED BY <1>0, <1>a, <1>b, <2>1, <2>2
<1> QED BY <1>1, <1>2, <1>3, <1>4, NextCases DEF Goal

-----------------------------------------------------------------------------
(***************************************************************************)
(* LogBounded: the entries too many are those of threads yet to trim.      *)
(***************************************************************************)

LEMMA HeadOfTail ==
  ASSUME NEW q \in Seq(Step), 2 \in DOMAIN q
  PROVE  Tail(q) # <<>> /\ Head(Tail(q)) = q[2]
<1>1. IsRest(q, 1, Tail(q))
  BY TailIsRest
<1>2. 2 - 1 \in DOMAIN Tail(q) /\ Tail(q)[2 - 1] = q[2] /\ Tail(q) \in Seq(Step)
  BY <1>1, RestElements
<1> DEFINE e == Tail(q)
<1> HIDE DEF e
<1>3. 1 \in DOMAIN e /\ e[1] = q[2] /\ e \in Seq(Step)
  BY <1>2 DEF e
<1>4. e # <<>> /\ Head(e) = q[2]
  BY <1>3
<1> QED BY <1>4 DEF e

\* The requests that have appended to the log of system i and not yet trimmed it.
Trimming(i) ==
  {r \in Requests : on[r] = i /\ todo[r] # <<>> /\ Head(todo[r]).do = "trim"}

LEMMA CountTypes ==
  ASSUME NEW T \in SUBSET Requests
  PROVE  IsFiniteSet(T) /\ Cardinality(T) \in Nat
  BY ConsoleAssumption, FS_Subset, FS_CardinalityType

\* Trimming takes off one entry too many, and leaves a log that is not too long alone.
LEMMA TrimmedFits ==
  ASSUME NEW n \in Nat, NEW c \in Nat, NEW a \in Nat, n <= max_log_entries + c + 1 + a
  PROVE  Trimmed(n) <= max_log_entries + c + a
<1>1. max_log_entries \in Nat
  BY ConsoleAssumption
<1> QED BY <1>1 DEF Trimmed

LEMMA LogStep ==
  ASSUME TypeOK, TypeOK', \A r \in Requests : WellFormed(todo[r]), LogBounded, [Next]_vars
  PROVE  LogBounded'
<1> SUFFICES ASSUME NEW i \in Systems
             PROVE  event_log'[i] <= max_log_entries + Cardinality(Trimming(i)') + alerting'[i]
  BY DEF LogBounded, Trimming
<1>0. /\ event_log[i] <= max_log_entries + Cardinality(Trimming(i)) + alerting[i]
      /\ event_log[i] \in Nat /\ alerting[i] \in Nat /\ max_log_entries \in Nat
      /\ event_log'[i] \in Nat /\ alerting'[i] \in Nat
  <2>1. max_log_entries \in Nat /\ MaxLoops \in Nat
    BY ConsoleAssumption
  <2>2. event_log[i] <= max_log_entries + Cardinality(Trimming(i)) + alerting[i]
    BY DEF LogBounded, Trimming
  <2> QED BY <2>1, <2>2 DEF TypeOK
<1>a. /\ IsFiniteSet(Trimming(i)) /\ Cardinality(Trimming(i)) \in Nat
      /\ IsFiniteSet(Trimming(i)') /\ Cardinality(Trimming(i)') \in Nat
  <2>1. Trimming(i) \in SUBSET Requests /\ Trimming(i)' \in SUBSET Requests
    BY DEF Trimming
  <2> QED BY <2>1, CountTypes
<1> DEFINE Goal == event_log'[i] <= max_log_entries + Cardinality(Trimming(i)') + alerting'[i]
<1>b. ASSUME event_log'[i] = event_log[i], alerting'[i] = alerting[i],
             Trimming(i) \subseteq Trimming(i)'
      PROVE  Goal
  <2>1. Cardinality(Trimming(i)) <= Cardinality(Trimming(i)')
    BY <1>a, <1>b, FS_Subset
  <2> QED BY <1>0, <1>a, <1>b, <2>1
<1>1. CASE UNCHANGED vars
  <2>1. Trimming(i)' = Trimming(i)
    BY <1>1 DEF Trimming, vars
  <2> QED BY <1>b, <1>1, <2>1 DEF vars
<1>2. ASSUME NEW r \in Requests, Arrives(r) PROVE Goal
  <2>1. PICK steps : Arrive(r, steps)
    BY <1>2 DEF Arrives
  <2>2. \A p \in Requests \ {r} : todo'[p] = todo[p] /\ on'[p] = on[p]
    BY <2>1 DEF Arrive, TypeOK
  <2>3. r \notin Trimming(i)
    BY <2>1 DEF Arrive, Trimming
  <2>4. Trimming(i) \subseteq Trimming(i)'
    BY <2>2, <2>3 DEF Trimming
  <2> QED BY <1>b, <2>1, <2>4 DEF Arrive
<1>3. ASSUME NEW r \in Requests, Serve(r) PROVE Goal
  <2>1. PICK n : Advances(r, n)
    BY <1>3, ServeAdvances DEF WellFormed
  <2>2. \A p \in Requests \ {r} : todo'[p] = todo[p] /\ on'[p] = on[p]
    <3>1. todo' = [todo EXCEPT ![r] = todo'[r]]
      BY <2>1 DEF Advances
    <3>2. on' = on \/ on' = [on EXCEPT ![r] = system_instance]
      BY <1>3 DEF Serve, CreateSystem, EnterSystem, TestFlag, RaiseFlag, ClearFlag,
                  SpawnLoop, AppendEntry, Trim
    <3> QED BY <3>1, <3>2 DEF TypeOK
  <2>3. /\ Head(todo[r]) \in Step /\ todo[r] # <<>> /\ todo[r] \in Seq(Step)
        /\ Head(todo[r]) = todo[r][1] /\ 1 \in DOMAIN todo[r]
    BY <1>3, ServeAdvances, NextStep DEF WellFormed
  <2>4. alerting' = alerting
    BY <1>3 DEF Serve, CreateSystem, EnterSystem, TestFlag, RaiseFlag, ClearFlag,
                SpawnLoop, AppendEntry, Trim
  <2>5. CASE Trim(r)
    <3>1. event_log' = [event_log EXCEPT ![on[r]] = Trimmed(@)] /\ on' = on
      BY <2>5 DEF Trim
    <3>2. CASE on[r] = i
      <4>1. r \in Trimming(i)
        BY <2>3, <2>5, <3>2 DEF Trim, Takes, Trimming
      <4>2. /\ IsFiniteSet(Trimming(i) \ {r})
            /\ Cardinality(Trimming(i) \ {r}) = Cardinality(Trimming(i)) - 1
        BY <1>a, <4>1, FS_RemoveElement
      <4>3. Trimming(i) \ {r} \subseteq Trimming(i)'
        BY <2>2 DEF Trimming
      <4>4. Cardinality(Trimming(i)) - 1 <= Cardinality(Trimming(i)')
        BY <1>a, <4>2, <4>3, FS_Subset
      <4>5. event_log'[i] = Trimmed(event_log[i])
        BY <3>1, <3>2 DEF TypeOK
      <4>6. event_log[i] <= max_log_entries + Cardinality(Trimming(i)') + 1 + alerting[i]
        BY <1>0, <1>a, <4>4
      <4>7. Trimmed(event_log[i]) <= max_log_entries + Cardinality(Trimming(i)') + alerting[i]
        BY <1>0, <1>a, <4>6, TrimmedFits
      <4> QED BY <2>4, <4>5, <4>7
    <3>3. CASE on[r] # i
      <4>1. r \notin Trimming(i)
        BY <3>3 DEF Trimming
      <4>2. Trimming(i) \subseteq Trimming(i)'
        BY <2>2, <4>1 DEF Trimming
      <4>3. event_log'[i] = event_log[i]
        BY <3>1, <3>3 DEF TypeOK
      <4> QED BY <1>b, <2>4, <4>2, <4>3
    <3> QED BY <3>2, <3>3
  <2>6. CASE AppendEntry(r) /\ on[r] = i
    <3>1. todo[r][1] = Append1 /\ todo'[r] = Tail(todo[r]) /\ on' = on
      BY <2>3, <2>6, KindOf DEF AppendEntry, Takes, TypeOK
    <3>2. 2 \in DOMAIN todo[r] /\ todo[r][2] = Trim1
      BY <2>3, <3>1 DEF WellFormed, LogsTrim
    <3>3. todo'[r] # <<>> /\ Head(todo'[r]) = Trim1
      BY <2>3, <3>1, <3>2, HeadOfTail
    <3>4. r \in Trimming(i)' /\ r \notin Trimming(i)
      BY <2>3, <2>6, <3>1, <3>3, Kinds DEF Trimming
    <3>5. Trimming(i) \cup {r} \subseteq Trimming(i)'
      BY <2>2, <3>4 DEF Trimming
    <3>6. /\ IsFiniteSet(Trimming(i) \cup {r})
          /\ Cardinality(Trimming(i) \cup {r}) = Cardinality(Trimming(i)) + 1
      BY <1>a, <3>4, FS_AddElement
    <3>7. Cardinality(Trimming(i)) + 1 <= Cardinality(Trimming(i)')
      BY <1>a, <3>5, <3>6, FS_Subset
    <3>8. event_log'[i] = event_log[i] + 1
      BY <2>6 DEF AppendEntry, TypeOK
    <3> QED BY <1>0, <1>a, <2>4, <3>7, <3>8
  <2>7. CASE Head(todo[r]).do # "trim" /\ ~(AppendEntry(r) /\ on[r] = i)
    <3>1. r \notin Trimming(i)
      BY <2>7 DEF Trimming
    <3>2. Trimming(i) \subseteq Trimming(i)'
      BY <2>2, <3>1 DEF Trimming
    <3>3. event_log'[i] = event_log[i]
      <4>1. CASE AppendEntry(r)
        BY <2>7, <4>1 DEF AppendEntry, TypeOK
      <4>2. CASE event_log' = event_log
        BY <4>2
      <4> QED BY <1>3, <2>7, <4>1, <4>2 DEF Serve, CreateSystem, EnterSystem, TestFlag,
                  RaiseFlag, ClearFlag, SpawnLoop, Trim, Takes
    <3> QED BY <1>b, <2>4, <3>2, <3>3
  <2>8. Head(todo[r]).do = "trim" => Trim(r)
    BY <1>3 DEF Serve, CreateSystem, EnterSystem, TestFlag, RaiseFlag, ClearFlag,
                SpawnLoop, AppendEntry, Takes
  <2> QED BY <2>5, <2>6, <2>7, <2>8
<1>4. CASE LoopStep
  <2>0. todo' = todo /\ on' = on
    BY <1>4 DEF LoopStep, AlertAppend, AlertTrim, LoopEnds
  <2>1. Trimming(i)' = Trimming(i)
    BY <2>0 DEF Trimming
  <2>2. ASSUME NEW j \in Systems, AlertAppend(j) PROVE Goal
    <3>1. CASE j = i
      <4>1. event_log'[i] = event_log[i] + 1 /\ alerting'[i] = alerting[i] + 1
        BY <2>2, <3>1 DEF AlertAppend, TypeOK
      <4> QED BY <1>0, <1>a, <2>1, <4>1
    <3>2. CASE j # i
      <4>1. event_log'[i] = event_log[i] /\ alerting'[i] = alerting[i]
        BY <2>2, <3>2 DEF AlertAppend, TypeOK
      <4> QED BY <1>b, <2>1, <4>1
    <3> QED BY <3>1, <3>2
  <2>3. ASSUME NEW j \in Systems, AlertTrim(j) PROVE Goal
    <3>1. CASE j = i
      <4>1. /\ event_log'[i] = Trimmed(event_log[i])
            /\ alerting'[i] = alerting[i] - 1 /\ alerting[i] > 0
        BY <2>3, <3>1 DEF AlertTrim, TypeOK
      <4> DEFINE a == alerting[i] - 1
      <4>2. a \in Nat /\ alerting[i] = a + 1
        BY <1>0, <4>1
      <4> HIDE DEF a
      <4>3. event_log[i] <= max_log_entries + Cardinality(Trimming(i)) + 1 + a
        BY <1>0, <1>a, <4>2
      <4>4. Trimmed(event_log[i]) <= max_log_entries + Cardinality(Trimming(i)) + a
        BY <1>0, <1>a, <4>2, <4>3, TrimmedFits
      <4> QED BY <2>1, <4>1, <4>4 DEF a
    <3>2. CASE j # i
      <4>1. event_log'[i] = event_log[i] /\ alerting'[i] = alerting[i]
        BY <2>3, <3>2 DEF AlertTrim, TypeOK
      <4> QED BY <1>b, <2>1, <4>1
    <3> QED BY <3>1, <3>2
  <2>4. CASE event_log' = event_log /\ alerting' = alerting
    BY <1>b, <2>1, <2>4
  <2> QED BY <1>4, <2>2, <2>3, <2>4 DEF LoopStep, LoopEnds
<1> QED BY <1>1, <1>2, <1>3, <1>4, NextCases

-----------------------------------------------------------------------------
(***************************************************************************)
(* While requests come one at a time.                                      *)
(***************************************************************************)

\* A request that is through has left the system whole.
LEMMA ModeAtEnd ==
  ASSUME NEW U \in SUBSET Services, Mode(<<>>, U)
  PROVE  U \in {{}, Services}
  BY DEF Mode, Leaves, Stops, Starts, FindsRunning

\* A step that leaves the flags alone keeps the mode.
LEMMA ModeKept ==
  ASSUME NEW q \in Seq(Step), NEW e, IsRest(q, 1, e), q # <<>>, NEW U, Mode(q, U),
         q[1] = Enter \/ q[1].do \in {"spawn", "append", "trim"}
  PROVE  Mode(e, U)
<1>1. /\ e \in Seq(Step) /\ Len(q) \in Nat /\ Len(e) = Len(q) - 1
      /\ DOMAIN e = 1 .. Len(q) - 1 /\ DOMAIN q = 1 .. Len(q)
      /\ \A k \in DOMAIN e : 1 + k \in DOMAIN q /\ e[k] = q[1 + k]
      /\ \A k \in DOMAIN q : k > 1 => k - 1 \in DOMAIN e /\ e[k - 1] = q[k]
  BY RestElements
<1>2. q[1].do \in {"enter", "spawn", "append", "trim"}
  BY Kinds
<1>3. \A k \in DOMAIN q : q[k].do \in {"create", "raise", "clear", "test"} => k > 1
  BY <1>1, <1>2
<1>4. CASE Leaves(q, U)
  BY <1>1, <1>4 DEF Mode, Leaves
<1>5. CASE Stops(q, U)
  <2>1. ASSUME NEW s \in U PROVE \E k \in DOMAIN e : e[k] = Clear(s)
    <3>1. PICK k \in DOMAIN q : q[k] = Clear(s)
      BY <1>5 DEF Stops
    <3>2. k > 1
      BY <1>3, <3>1, Kinds
    <3> QED BY <1>1, <3>1, <3>2
  <2>2. ASSUME NEW k \in DOMAIN e, e[k].do \in {"raise", "test"}
        PROVE  \E j \in DOMAIN e : j < k /\ e[j] = Create
    <3>1. PICK j \in DOMAIN q : j < 1 + k /\ q[j] = Create
      BY <1>1, <1>5, <2>2 DEF Stops
    <3>2. j > 1
      BY <1>3, <3>1, Kinds
    <3>3. j - 1 \in DOMAIN e /\ e[j - 1] = Create /\ j - 1 < k
      BY <1>1, <3>1, <3>2
    <3> QED BY <3>3
  <2> QED BY <2>1, <2>2 DEF Mode, Stops
<1>6. CASE Starts(q, U)
  <2>1. ASSUME NEW s \in Services PROVE s \in U \/ \E k \in DOMAIN e : e[k] = Raise(s)
    <3>1. ASSUME NEW k \in DOMAIN q, q[k] = Raise(s)
          PROVE  \E j \in DOMAIN e : e[j] = Raise(s)
      <4>1. k > 1
        BY <1>3, <3>1, Kinds
      <4> QED BY <1>1, <3>1, <4>1
    <3> QED BY <1>6, <3>1 DEF Starts
  <2> QED BY <1>1, <1>6, <2>1 DEF Mode, Starts
<1>7. CASE FindsRunning(q, U)
  <2>1. PICK k \in DOMAIN q : /\ q[k] = Test("system", Len(q) - k)
                              /\ \A j \in DOMAIN q : j < k => q[j] = Enter
    BY <1>7 DEF FindsRunning
  <2>2. k > 1
    BY <1>3, <2>1, Kinds
  <2>3. k - 1 \in DOMAIN e /\ e[k - 1] = q[k]
    BY <1>1, <2>2
  <2>4. Len(q) - k = Len(e) - (k - 1)
    BY <1>1
  <2>5. \A j \in DOMAIN e : j < k - 1 => e[j] = Enter
    BY <1>1, <2>1
  <2> QED BY <1>7, <2>1, <2>3, <2>4, <2>5 DEF Mode, FindsRunning
<1> QED BY <1>4, <1>5, <1>6, <1>7 DEF Mode

\* A test, whether it finds the flag up or not, keeps the mode.
LEMMA ModeTested ==
  ASSUME NEW q \in Seq(Step), q # <<>>, NEW e, NEW U \in SUBSET Services, Mode(q, U),
         NEW s \in Services, NEW n \in Nat, q[1] = Test(s, n),
         IF s \in U THEN IsRest(q, n + 1, e) ELSE IsRest(q, 1, e)
  PROVE  Mode(e, U)
<1>1. Len(q) \in Nat /\ DOMAIN q = 1 .. Len(q) /\ 1 \in DOMAIN q /\ q[1].do = "test"
      /\ q[1].s = s
  BY Kinds
<1>2. ~Leaves(q, U) /\ ~Stops(q, U)
  BY <1>1 DEF Leaves, Stops
<1>3. CASE Starts(q, U)
  <2>1. IsRest(q, 1, e)
    BY <1>1, <1>3 DEF Starts
  <2>2. /\ e \in Seq(Step)
        /\ \A k \in DOMAIN e : 1 + k \in DOMAIN q /\ e[k] = q[1 + k]
        /\ \A k \in DOMAIN q : k > 1 => k - 1 \in DOMAIN e /\ e[k - 1] = q[k]
    BY <2>1, RestElements
  <2>3. ASSUME NEW t \in Services PROVE t \in U \/ \E k \in DOMAIN e : e[k] = Raise(t)
    <3>1. ASSUME NEW k \in DOMAIN q, q[k] = Raise(t)
          PROVE  \E j \in DOMAIN e : e[j] = Raise(t)
      <4>1. k # 1
        BY <1>1, <3>1, Kinds
      <4>2. k > 1
        BY <1>1, <4>1
      <4> QED BY <2>2, <3>1, <4>2
    <3> QED BY <1>3, <3>1 DEF Starts
  <2> QED BY <1>3, <2>2, <2>3 DEF Mode, Starts
<1>4. CASE FindsRunning(q, U)
  <2>1. PICK k \in DOMAIN q : /\ q[k] = Test("system", Len(q) - k)
                              /\ \A j \in DOMAIN q : j < k => q[j] = Enter
    BY <1>4 DEF FindsRunning
  <2>2. k = 1
    <3>1. CASE k > 1
      BY <1>1, <2>1, <3>1, Kinds
    <3> QED BY <1>1, <3>1
  <2>3. n = Len(q) - 1
    <3>1. q[1].skip = n /\ q[1].skip = Len(q) - 1
      BY <2>1, <2>2, Kinds
    <3> QED BY <3>1
  <2>4. U = Services /\ IsRest(q, n + 1, e)
    BY <1>4 DEF FindsRunning
  <2>5. e \in Seq(Step) /\ DOMAIN e = 1 .. Len(q) - (n + 1)
    BY <2>4, RestElements
  <2>6. DOMAIN e = {}
    BY <1>1, <2>3, <2>5
  <2> QED BY <2>4, <2>6 DEF Mode, Leaves
<1> QED BY <1>2, <1>3, <1>4 DEF Mode

\* Raising a flag is part of starting.
LEMMA ModeRaised ==
  ASSUME NEW q \in Seq(Step), q # <<>>, NEW e, IsRest(q, 1, e), WellFormed(q),
         NEW U \in SUBSET Services, Mode(q, U), NEW s \in Services, q[1] = Raise(s)
  PROVE  Starts(e, U \cup {s})
<1>1. /\ e \in Seq(Step) /\ Len(q) \in Nat /\ 1 \in DOMAIN q
      /\ DOMAIN q = 1 .. Len(q) /\ DOMAIN e = 1 .. Len(q) - 1
      /\ \A k \in DOMAIN e : 1 + k \in DOMAIN q /\ e[k] = q[1 + k]
      /\ \A k \in DOMAIN q : k > 1 => k - 1 \in DOMAIN e /\ e[k - 1] = q[k]
  BY RestElements
<1>2. q[1].do = "raise"
  BY Kinds
<1>3. ~Leaves(q, U) /\ ~Stops(q, U)
  <2>1. 1 \in DOMAIN q /\ \A j \in DOMAIN q : ~(j < 1)
    BY <1>1
  <2> QED BY <1>2, <2>1 DEF Leaves, Stops
<1>4. ~FindsRunning(q, U)
  <2> SUFFICES ASSUME NEW k \in DOMAIN q, q[k] = Test("system", Len(q) - k),
                      \A j \in DOMAIN q : j < k => q[j] = Enter
               PROVE  FALSE
    BY DEF FindsRunning
  <2>1. CASE k = 1
    BY <1>2, <2>1, Kinds
  <2>2. CASE k > 1
    BY <1>1, <1>2, <2>2, Kinds
  <2> QED BY <1>1, <2>1, <2>2
<1>5. Starts(q, U)
  BY <1>3, <1>4 DEF Mode
<1>6. ASSUME NEW t \in Services PROVE t \in U \cup {s} \/ \E k \in DOMAIN e : e[k] = Raise(t)
  <2>1. ASSUME NEW k \in DOMAIN q, q[k] = Raise(t), t # s
        PROVE  \E j \in DOMAIN e : e[j] = Raise(t)
    <3>1. k # 1
      BY <2>1, Kinds
    <3>2. k > 1
      BY <1>1, <3>1
    <3> QED BY <1>1, <2>1, <3>2
  <2> QED BY <1>5, <2>1 DEF Starts
<1>7. ASSUME NEW k \in DOMAIN e, e[k].do = "test" PROVE e[k].s \notin U \cup {s}
  <2>1. 1 + k \in DOMAIN q /\ e[k] = q[1 + k] /\ 1 < 1 + k
    BY <1>1
  <2>2. q[1 + k] \in Step
    BY <2>1
  <2>3. e[k].skip \in Nat /\ e[k] = Test(e[k].s, e[k].skip)
    BY <1>7, <2>1, <2>2, KindOf
  <2>4. \A n \in Nat : q[1 + k] # Test(s, n)
    BY <1>1, <2>1 DEF WellFormed, RaisedOnce
  <2>5. e[k].s # s
    BY <2>1, <2>3, <2>4
  <2> QED BY <1>5, <1>7, <2>1, <2>5 DEF Starts
<1> QED BY <1>1, <1>5, <1>6, <1>7 DEF Starts

\* Clearing a flag is part of stopping.
LEMMA ModeCleared ==
  ASSUME NEW q \in Seq(Step), q # <<>>, NEW e, IsRest(q, 1, e),
         NEW U \in SUBSET Services, Mode(q, U), NEW s \in Services, q[1] = Clear(s)
  PROVE  Mode(e, U \ {s})
<1>1. /\ e \in Seq(Step) /\ Len(q) \in Nat /\ 1 \in DOMAIN q
      /\ DOMAIN q = 1 .. Len(q) /\ DOMAIN e = 1 .. Len(q) - 1
      /\ \A k \in DOMAIN e : 1 + k \in DOMAIN q /\ e[k] = q[1 + k]
      /\ \A k \in DOMAIN q : k > 1 => k - 1 \in DOMAIN e /\ e[k - 1] = q[k]
  BY RestElements
<1>2. q[1].do = "clear"
  BY Kinds
<1>3. ~Leaves(q, U) /\ ~Starts(q, U)
  BY <1>1, <1>2 DEF Leaves, Starts
<1>4. ~FindsRunning(q, U)
  <2> SUFFICES ASSUME NEW k \in DOMAIN q, q[k] = Test("system", Len(q) - k),
                      \A j \in DOMAIN q : j < k => q[j] = Enter
               PROVE  FALSE
    BY DEF FindsRunning
  <2>1. CASE k = 1
    BY <1>2, <2>1, Kinds
  <2>2. CASE k > 1
    BY <1>1, <1>2, <2>2, Kinds
  <2> QED BY <1>1, <2>1, <2>2
<1>5. Stops(q, U)
  BY <1>3, <1>4 DEF Mode
<1>6. ASSUME NEW t \in U \ {s} PROVE \E k \in DOMAIN e : e[k] = Clear(t)
  <2>1. PICK k \in DOMAIN q : q[k] = Clear(t)
    BY <1>5 DEF Stops
  <2>2. k # 1
    BY <1>6, <2>1, Kinds
  <2>3. k > 1
    BY <1>1, <2>2
  <2> QED BY <1>1, <2>1, <2>3
<1>7. ASSUME NEW k \in DOMAIN e, e[k].do \in {"raise", "test"}
      PROVE  \E j \in DOMAIN e : j < k /\ e[j] = Create
  <2>1. PICK j \in DOMAIN q : j < 1 + k /\ q[j] = Create
    BY <1>1, <1>5, <1>7 DEF Stops
  <2>2. j # 1
    BY <1>2, <2>1, Kinds
  <2>3. j > 1
    BY <1>1, <2>2
  <2>4. j - 1 \in DOMAIN e /\ e[j - 1] = Create /\ j - 1 < k
    BY <1>1, <2>1, <2>3
  <2> QED BY <2>4
<1> QED BY <1>6, <1>7 DEF Mode, Stops

\* When a system is created the one in place has stopped, and the new one is started.
LEMMA ModeCreated ==
  ASSUME NEW q \in Seq(Step), q # <<>>, NEW e, IsRest(q, 1, e), WellFormed(q),
         NEW U \in SUBSET Services, Mode(q, U), q[1] = Create
  PROVE  /\ U = {} /\ e # <<>> /\ Head(e) = Enter
         /\ \A s \in Services : \E k \in DOMAIN e : e[k] = Raise(s)
         /\ \A k \in DOMAIN e : e[k].do \notin {"create", "clear"}
<1>1. /\ e \in Seq(Step) /\ Len(q) \in Nat /\ 1 \in DOMAIN q
      /\ DOMAIN q = 1 .. Len(q) /\ DOMAIN e = 1 .. Len(q) - 1
      /\ \A k \in DOMAIN e : 1 + k \in DOMAIN q /\ e[k] = q[1 + k]
      /\ \A k \in DOMAIN q : k > 1 => k - 1 \in DOMAIN e /\ e[k - 1] = q[k]
  BY RestElements
<1>2. q[1].do = "create"
  BY Kinds
<1>3. ~Leaves(q, U) /\ ~Starts(q, U)
  BY <1>1, <1>2 DEF Leaves, Starts
<1>4. ~FindsRunning(q, U)
  <2> SUFFICES ASSUME NEW k \in DOMAIN q, q[k] = Test("system", Len(q) - k),
                      \A j \in DOMAIN q : j < k => q[j] = Enter
               PROVE  FALSE
    BY DEF FindsRunning
  <2>1. CASE k = 1
    BY <1>2, <2>1, Kinds
  <2>2. CASE k > 1
    BY <1>1, <1>2, <2>2, Kinds
  <2> QED BY <1>1, <2>1, <2>2
<1>5. Stops(q, U)
  BY <1>3, <1>4 DEF Mode
<1>6. /\ 1 + 1 \in DOMAIN q /\ q[1 + 1] = Enter
      /\ \A s \in Services : \E j \in DOMAIN q : 1 < j /\ q[j] = Raise(s)
      /\ \A j \in DOMAIN q : 1 < j => q[j].do \notin {"create", "clear"}
  BY <1>1 DEF WellFormed, StartsCreated
<1>7. U = {}
  <2> SUFFICES ASSUME NEW s \in U PROVE FALSE
    OBVIOUS
  <2>1. PICK k \in DOMAIN q : q[k] = Clear(s)
    BY <1>5 DEF Stops
  <2>2. q[k].do = "clear"
    BY <2>1, Kinds
  <2>3. k > 1
    BY <1>1, <1>2, <2>2
  <2> QED BY <1>6, <2>2, <2>3
<1>8. 1 \in DOMAIN e /\ e[1] = Enter
  BY <1>1, <1>6
<1>9. e # <<>> /\ Head(e) = Enter
  BY <1>1, <1>8
<1>10. ASSUME NEW s \in Services PROVE \E k \in DOMAIN e : e[k] = Raise(s)
  <2>1. PICK j \in DOMAIN q : 1 < j /\ q[j] = Raise(s)
    BY <1>6
  <2> QED BY <1>1, <2>1
<1>11. ASSUME NEW k \in DOMAIN e PROVE e[k].do \notin {"create", "clear"}
  <2>1. 1 + k \in DOMAIN q /\ e[k] = q[1 + k] /\ 1 < 1 + k
    BY <1>1
  <2> QED BY <1>6, <2>1
<1> QED BY <1>7, <1>9, <1>10, <1>11

\* A step of the request under way.
LEMMA ServeAlone ==
  ASSUME TypeOK, TypeOK', \A r \in Requests : WellFormed(todo[r]) /\ OnCreated(r),
         Alone, NEW r \in Requests, Serve(r)
  PROVE  /\ Mode(todo'[r], Flags') /\ OnCurrent(r)' /\ Flags' \in SUBSET Services
         /\ \A i \in Systems : i # system_instance' => up'[i] = {}
         /\ \A i \in Systems : i > created' => up'[i] = {}
<1> DEFINE q == todo[r]
           e == todo'[r]
           U == Flags
           x == Head(q)
<1>1. /\ q \in Seq(Step) /\ q # <<>> /\ x = q[1] /\ x \in Step
  BY ServeAdvances, NextStep DEF WellFormed
<1>2. /\ created \in Nat /\ system_instance \in 0 .. created /\ MaxSystems \in Nat
      /\ created <= MaxSystems
  BY ConsoleAssumption DEF TypeOK
<1>3. system_instance # None => system_instance \in Systems
  BY <1>2 DEF Systems, None
<1>4. U \in SUBSET Services /\ Mode(q, U) /\ WellFormed(q) /\ Flags' \in SUBSET Services
  <2>1. system_instance' # None => system_instance' \in Systems
    <3>1. created' \in 0 .. MaxSystems /\ system_instance' \in 0 .. created'
      BY DEF TypeOK
    <3> QED BY <1>2, <3>1 DEF Systems, None
  <2> QED BY <1>1, <1>3, <2>1 DEF Alone, Flags, TypeOK
<1>5. /\ \A i \in Systems : i # system_instance => up[i] = {}
      /\ \A i \in Systems : i > created => up[i] = {}
  BY DEF Alone
<1>6. x \notin {Create, Enter} => on[r] = system_instance
  BY <1>1 DEF Alone, OnCurrent
<1>a. ASSUME Mode(e, Flags'), on' = on, x \notin {Create, Enter},
             system_instance' = system_instance, created' = created, up' = up
      PROVE  /\ Mode(e, Flags') /\ OnCurrent(r)' /\ Flags' \in SUBSET Services
             /\ \A i \in Systems : i # system_instance' => up'[i] = {}
             /\ \A i \in Systems : i > created' => up'[i] = {}
  BY <1>4, <1>5, <1>6, <1>a DEF OnCurrent
<1>b. (up' = up /\ system_instance' = system_instance) => Flags' = U
  BY DEF Flags
<1>7. CASE CreateSystem(r)
  <2>1. /\ created < MaxSystems /\ created' = created + 1
        /\ system_instance' = created + 1 /\ up' = up
    BY <1>7 DEF CreateSystem
  <2>2. q[1] = Create /\ IsRest(q, 1, e)
    BY <1>1, <1>7, KindOf, TakesAdvances DEF CreateSystem, Takes, Advances
  <2>3. /\ U = {} /\ e # <<>> /\ Head(e) = Enter
        /\ \A s \in Services : \E k \in DOMAIN e : e[k] = Raise(s)
        /\ \A k \in DOMAIN e : e[k].do \notin {"create", "clear"}
    BY <1>1, <1>4, <2>2, ModeCreated
  <2>4. created + 1 \in Systems /\ created + 1 # None /\ created + 1 > created
    BY <1>2, <2>1 DEF Systems, None
  <2>5. Flags' = {}
    BY <1>5, <2>1, <2>4 DEF Flags
  <2>6. Mode(e, Flags')
    BY <2>3, <2>5 DEF Starts, Mode
  <2>7. OnCurrent(r)'
    BY <2>3 DEF OnCurrent
  <2>8. ASSUME NEW i \in Systems, i # system_instance' PROVE up'[i] = {}
    <3>1. CASE i = system_instance
      <4>1. i # None
        BY DEF Systems, None
      <4> QED BY <2>1, <2>3, <3>1, <4>1 DEF Flags
    <3>2. CASE i # system_instance
      BY <1>5, <2>1, <3>2
    <3> QED BY <3>1, <3>2
  <2>9. ASSUME NEW i \in Systems, i > created' PROVE up'[i] = {}
    <3>1. i > created
      BY <1>2, <2>1, <2>9 DEF Systems
    <3> QED BY <1>5, <2>1, <3>1
  <2> QED BY <1>4, <2>6, <2>7, <2>8, <2>9
<1>8. CASE EnterSystem(r)
  <2>1. /\ created' = created /\ system_instance' = system_instance /\ up' = up
        /\ on' = [on EXCEPT ![r] = system_instance]
    BY <1>8 DEF EnterSystem
  <2>2. q[1] = Enter /\ IsRest(q, 1, e)
    BY <1>1, <1>8, KindOf, TakesAdvances DEF EnterSystem, Takes, Advances
  <2>3. Mode(e, U)
    BY <1>1, <1>4, <2>2, ModeKept
  <2>4. Flags' = U
    BY <1>b, <2>1
  <2>5. on'[r] = system_instance'
    BY <2>1 DEF TypeOK
  <2> QED BY <1>4, <1>5, <2>1, <2>3, <2>4, <2>5 DEF OnCurrent
<1>9. CASE SpawnLoop(r) \/ AppendEntry(r) \/ Trim(r)
  <2>1. /\ created' = created /\ system_instance' = system_instance /\ up' = up
        /\ on' = on
    BY <1>9 DEF SpawnLoop, AppendEntry, Trim
  <2>2. q[1].do \in {"spawn", "append", "trim"} /\ IsRest(q, 1, e)
    BY <1>1, <1>9, TakesAdvances DEF SpawnLoop, AppendEntry, Trim, Takes, Advances
  <2>3. Mode(e, U)
    BY <1>1, <1>4, <2>2, ModeKept
  <2>4. x \notin {Create, Enter}
    BY <1>1, <2>2, Kinds
  <2> QED BY <1>a, <1>b, <2>1, <2>3, <2>4
<1>10. ASSUME x \notin {Create, Enter}
       PROVE  on[r] = system_instance /\ system_instance \in Systems /\ U = up[system_instance]
  <2>1. system_instance # None
    BY <1>1, <1>10 DEF OnCreated
  <2> QED BY <1>3, <1>6, <1>10, <2>1 DEF Flags
<1>11. CASE TestFlag(r)
  <2>1. /\ created' = created /\ system_instance' = system_instance /\ up' = up
        /\ on' = on
    BY <1>11 DEF TestFlag
  <2>2. /\ x.do = "test"
        /\ IF x.s \in up[on[r]] THEN IsRest(q, x.skip + 1, e) ELSE IsRest(q, 1, e)
    BY <1>11, TestAdvances DEF WellFormed, Advances
  <2>3. x \notin {Create, Enter}
    BY <2>2, Kinds
  <2>4. x.s \in Services /\ x.skip \in Nat /\ q[1] = Test(x.s, x.skip)
    BY <1>1, <2>2, KindOf
  <2>5. IF x.s \in U THEN IsRest(q, x.skip + 1, e) ELSE IsRest(q, 1, e)
    BY <1>10, <2>2, <2>3
  <2>6. Mode(e, U)
    <3> HIDE DEF q, e, U, x
    <3> QED BY <1>1, <1>4, <2>4, <2>5, ModeTested
  <2> QED BY <1>a, <1>b, <2>1, <2>3, <2>6
<1>12. ASSUME NEW V \in SUBSET Services, Mode(e, V), on' = on, x \notin {Create, Enter},
              system_instance' = system_instance, created' = created,
              up' = [up EXCEPT ![on[r]] = V]
       PROVE  /\ Mode(e, Flags') /\ OnCurrent(r)' /\ Flags' \in SUBSET Services
              /\ \A i \in Systems : i # system_instance' => up'[i] = {}
              /\ \A i \in Systems : i > created' => up'[i] = {}
  <2>1. on[r] = system_instance /\ system_instance \in Systems
    BY <1>10, <1>12
  <2>2. up'[system_instance] = V /\ system_instance # None
    BY <1>12, <2>1 DEF TypeOK, Systems, None
  <2>3. Flags' = V
    BY <1>12, <2>2 DEF Flags
  <2>4. \A i \in Systems : i # system_instance => up'[i] = up[i]
    BY <1>12, <2>1 DEF TypeOK
  <2>5. \A i \in Systems : i > created => i # system_instance
    BY <1>2 DEF Systems
  <2>6. on'[r] = system_instance'
    BY <1>12, <2>1
  <2> QED BY <1>5, <1>12, <2>3, <2>4, <2>5, <2>6 DEF OnCurrent
<1>13. CASE RaiseFlag(r)
  <2>1. /\ created' = created /\ system_instance' = system_instance /\ on' = on
        /\ up' = [up EXCEPT ![on[r]] = @ \cup {x.s}] /\ x.do = "raise" /\ IsRest(q, 1, e)
    BY <1>13, TakesAdvances DEF RaiseFlag, Takes, Advances
  <2>2. x.s \in Services /\ q[1] = Raise(x.s) /\ x \notin {Create, Enter}
    BY <1>1, <2>1, KindOf
  <2>3. Starts(e, U \cup {x.s})
    <3> HIDE DEF q, e, U, x
    <3> QED BY <1>1, <1>4, <2>1, <2>2, ModeRaised
  <2>4. up' = [up EXCEPT ![on[r]] = U \cup {x.s}]
    BY <1>10, <2>1, <2>2
  <2>5. U \cup {x.s} \in SUBSET Services /\ Mode(e, U \cup {x.s})
    BY <1>4, <2>2, <2>3 DEF Mode
  <2> DEFINE V == U \cup {x.s}
  <2>6. V \in SUBSET Services /\ Mode(e, V) /\ up' = [up EXCEPT ![on[r]] = V]
    BY <2>4, <2>5
  <2> HIDE DEF V
  <2> QED BY <1>12, <2>1, <2>2, <2>6
<1>14. CASE ClearFlag(r)
  <2>1. /\ created' = created /\ system_instance' = system_instance /\ on' = on
        /\ up' = [up EXCEPT ![on[r]] = @ \ {x.s}] /\ x.do = "clear" /\ IsRest(q, 1, e)
    BY <1>14, TakesAdvances DEF ClearFlag, Takes, Advances
  <2>2. x.s \in Services /\ q[1] = Clear(x.s) /\ x \notin {Create, Enter}
    BY <1>1, <2>1, KindOf
  <2>3. Mode(e, U \ {x.s})
    <3> HIDE DEF q, e, U, x
    <3> QED BY <1>1, <1>4, <2>1, <2>2, ModeCleared
  <2>4. up' = [up EXCEPT ![on[r]] = U \ {x.s}]
    BY <1>10, <2>1, <2>2
  <2>5. U \ {x.s} \in SUBSET Services
    BY <1>4
  <2> DEFINE V == U \ {x.s}
  <2>6. V \in SUBSET Services /\ Mode(e, V) /\ up' = [up EXCEPT ![on[r]] = V]
    BY <2>3, <2>4, <2>5
  <2> HIDE DEF V
  <2> QED BY <1>12, <2>1, <2>2, <2>6
<1> QED BY <1>7, <1>8, <1>9, <1>11, <1>13, <1>14 DEF Serve

\* Requests that still come one at a time keep the invariant.
LEMMA AloneStep ==
  ASSUME TypeOK, TypeOK', \A r \in Requests : WellFormed(todo[r]) /\ OnCreated(r),
         ~overlapped => Alone, [Next]_vars, ~overlapped'
  PROVE  Alone'
<1>1. ASSUME todo' = todo, on' = on, up' = up, created' = created,
             system_instance' = system_instance, overlapped' = overlapped
      PROVE  Alone'
  BY <1>1 DEF Alone, OneAtATime, OnCurrent, Flags
<1>2. ASSUME NEW r \in Requests, Arrives(r) PROVE Alone'
  <2>1. PICK steps \in Programs : Arrive(r, steps)
    BY <1>2 DEF Arrives
  <2>2. /\ steps # <<>> /\ ~overlapped /\ todo[r] = <<>>
        /\ \A p \in Requests \ {r} : todo[p] = <<>>
    BY <2>1 DEF Arrive
  <2>3. /\ todo'[r] = steps /\ \A p \in Requests \ {r} : todo'[p] = <<>>
        /\ up' = up /\ created' = created /\ system_instance' = system_instance
    BY <2>1, <2>2 DEF Arrive, TypeOK
  <2>4. Alone /\ Flags \in {{}, Services} /\ Flags' = Flags
    <3>1. Alone
      BY <2>2
    <3> QED BY <2>2, <2>3, <3>1 DEF Alone, Flags
  <2>5. Mode(steps, Flags) /\ Head(steps) \in {Create, Enter}
    BY <2>2, <2>4, ProgramFits
  <2>6. OneAtATime'
    BY <2>3 DEF OneAtATime
  <2>7. ASSUME NEW p \in Requests
        PROVE  OnCurrent(p)' /\ (todo'[p] # <<>> => Mode(todo'[p], Flags'))
    BY <2>3, <2>4, <2>5 DEF OnCurrent
  <2>8. ~(\A p \in Requests : todo'[p] = <<>>)
    BY <2>2, <2>3
  <2>9. /\ \A i \in Systems : i # system_instance' => up'[i] = {}
        /\ \A i \in Systems : i > created' => up'[i] = {}
    BY <2>3, <2>4 DEF Alone
  <2> QED BY <2>6, <2>7, <2>8, <2>9 DEF Alone
<1>3. ASSUME NEW r \in Requests, Serve(r) PROVE Alone'
  <2>1. overlapped' = overlapped
    BY <1>3 DEF Serve, CreateSystem, EnterSystem, TestFlag, RaiseFlag, ClearFlag, SpawnLoop,
                AppendEntry, Trim
  <2>2. Alone
    BY <2>1
  <2>3. todo[r] # <<>> /\ \A p \in Requests \ {r} : todo'[p] = todo[p]
    <3>1. PICK n : Advances(r, n)
      BY <1>3, ServeAdvances DEF WellFormed
    <3> QED BY <1>3, <3>1, ServeAdvances DEF WellFormed, Advances, TypeOK
  <2>4. \A p \in Requests \ {r} : todo'[p] = <<>>
    BY <2>2, <2>3 DEF Alone, OneAtATime
  <2>5. /\ Mode(todo'[r], Flags') /\ OnCurrent(r)' /\ Flags' \in SUBSET Services
        /\ \A i \in Systems : i # system_instance' => up'[i] = {}
        /\ \A i \in Systems : i > created' => up'[i] = {}
    BY <1>3, <2>2, ServeAlone
  <2>6. OneAtATime'
    BY <2>4 DEF OneAtATime
  <2>7. ASSUME NEW p \in Requests
        PROVE  OnCurrent(p)' /\ (todo'[p] # <<>> => Mode(todo'[p], Flags'))
    BY <2>4, <2>5 DEF OnCurrent
  <2>8. (\A p \in Requests : todo'[p] = <<>>) => Flags' \in {{}, Services}
    <3> SUFFICES ASSUME \A p \in Requests : todo'[p] = <<>> PROVE Flags' \in {{}, Services}
      OBVIOUS
    <3>1. Mode(<<>>, Flags')
      BY <2>5
    <3> QED BY <2>5, <3>1, ModeAtEnd
  <2> QED BY <2>5, <2>6, <2>7, <2>8 DEF Alone
<1>4. CASE LoopStep
  <2>1. /\ todo' = todo /\ on' = on /\ up' = up /\ created' = created
        /\ system_instance' = system_instance /\ overlapped' = overlapped
    BY <1>4 DEF LoopStep, AlertAppend, AlertTrim, LoopEnds
  <2> QED BY <1>1, <2>1
<1>5. CASE UNCHANGED vars
  BY <1>1, <1>5 DEF vars
<1> QED BY <1>2, <1>3, <1>4, <1>5, NextCases

-----------------------------------------------------------------------------
(***************************************************************************)
(* The inductive invariant, and what follows from it.                      *)
(***************************************************************************)
LEMMA InitInv == Init => IInv
<1> SUFFICES ASSUME Init PROVE IInv
  OBVIOUS
<1>0. /\ MaxSystems \in Nat /\ MaxLoops \in Nat /\ MaxRequests \in Nat
      /\ max_log_entries \in Nat
  BY ConsoleAssumption
<1>1. TypeOK
  <2>1. up \in [Systems -> SUBSET Services] /\ event_log \in [Systems -> Nat]
    BY DEF Init
  <2>2. loops \in [Systems -> [Loops -> 0 .. MaxLoops]]
    <3>1. [s \in Loops |-> 0] \in [Loops -> 0 .. MaxLoops]
      BY <1>0
    <3> QED BY <3>1 DEF Init
  <2>3. todo \in [Requests -> Seq(Step)]
    <3>1. <<>> \in Seq(Step)
      OBVIOUS
    <3> QED BY <3>1 DEF Init
  <2>4. on \in [Requests -> 0 .. MaxSystems] /\ alerting \in [Systems -> 0 .. MaxLoops]
    BY <1>0 DEF Init, None
  <2>5. /\ created \in 0 .. MaxSystems /\ served \in 0 .. MaxRequests
        /\ system_instance \in 0 .. created
    <3>1. created = 0 /\ served = 0 /\ system_instance = 0
      BY DEF Init, None
    <3> QED BY <1>0, <3>1
  <2>6. overlapped \in BOOLEAN
    BY DEF Init
  <2> QED BY <2>1, <2>2, <2>3, <2>4, <2>5, <2>6 DEF TypeOK
<1>2. \A r \in Requests : todo[r] = <<>>
  BY DEF Init
<1>3. ASSUME NEW r \in Requests PROVE WellFormed(todo[r]) /\ OnCreated(r)
  BY <1>2 DEF WellFormed, LoopFollows, RaisedOnce, SkipsWhole, EntersAfresh, StartsCreated,
              LogsTrim, OnCreated
<1>4. Backed
  BY DEF Init, Backed
<1>5. LogBounded
  <2> SUFFICES ASSUME NEW i \in Systems
               PROVE  event_log[i] <= max_log_entries + Cardinality(Trimming(i)) + alerting[i]
    BY DEF LogBounded, Trimming
  <2>1. Cardinality(Trimming(i)) \in Nat
    BY CountTypes DEF Trimming
  <2>2. event_log[i] = 0 /\ alerting[i] = 0
    BY DEF Init
  <2> QED BY <1>0, <2>1, <2>2
<1>6. Alone
  BY <1>2 DEF Alone, OneAtATime, OnCurrent, Flags, Init
<1> QED BY <1>1, <1>3, <1>4, <1>5, <1>6 DEF IInv

LEMMA InvStep == IInv /\ [Next]_vars => IInv'
<1> SUFFICES ASSUME IInv, [Next]_vars PROVE IInv'
  OBVIOUS
<1>1. /\ TypeOK /\ Backed /\ LogBounded /\ (~overlapped => Alone)
      /\ \A r \in Requests : WellFormed(todo[r]) /\ OnCreated(r)
  BY DEF IInv
<1>2. TypeOK'
  BY <1>1, TypeStep
<1>3. \A r \in Requests : WellFormed(todo'[r])
  BY <1>1, WellFormedStep
<1>4. \A r \in Requests : OnCreated(r)'
  BY <1>1, <1>2, OnCreatedStep
<1>5. Backed'
  BY <1>1, <1>2, BackedStep
<1>6. LogBounded'
  BY <1>1, <1>2, LogStep
<1>7. ~overlapped' => Alone'
  BY <1>1, <1>2, AloneStep
<1> QED BY <1>2, <1>3, <1>4, <1>5, <1>6, <1>7 DEF IInv

LEMMA AlwaysIInv == Spec => []IInv
BY InitInv, InvStep, PTL DEF Spec

\* The variables keep their types, whatever requests arrive and however they overlap.
THEOREM TypeCorrect == Spec => []TypeOK
<1>1. IInv => TypeOK
  BY DEF IInv
<1> QED BY <1>1, AlwaysIInv, PTL

\* However requests overlap, a service whose flag is up has a loop, or a request that
\* is about to start one (start_simulation, start_node, start_heartbeat_service).
THEOREM AlwaysUpHasLoop == Spec => []UpHasLoop
<1>1. IInv => UpHasLoop
  BY DEF IInv, Backed, Committed, UpHasLoop, AboutToSpawn
<1> QED BY <1>1, AlwaysIInv, PTL

\* However requests and simulation threads overlap, the log holds no more entries than
\* max_log_entries and those whose threads have yet to look at its length (_log_event).
THEOREM AlwaysLogBounded == Spec => []LogBounded
<1>1. IInv => LogBounded
  BY DEF IInv
<1> QED BY <1>1, AlwaysIInv, PTL

\* While requests come one at a time, no system but the one in place has a service up
\* (api_system_config stops the system it replaces).
THEOREM AlwaysOnlyOneRuns == Spec => []OnlyOneRuns
<1>1. IInv => OnlyOneRuns
  BY DEF IInv, Alone, OnlyOneRuns
<1> QED BY <1>1, AlwaysIInv, PTL

\* While requests come one at a time, a system is up as a whole or down as a whole
\* whenever no request is under way (start, stop and the tests of the services).
THEOREM AlwaysStartedAsAWhole == Spec => []StartedAsAWhole
<1>1. IInv => StartedAsAWhole
  <2> SUFFICES ASSUME IInv, ~overlapped, \A r \in Requests : todo[r] = <<>>,
                      NEW i \in Systems
               PROVE  up[i] \in {{}, Services}
    BY DEF StartedAsAWhole
  <2>1. Alone
    BY DEF IInv
  <2>2. CASE i = system_instance
    BY <2>1, <2>2 DEF Alone, Flags, Systems, None
  <2>3. CASE i # system_instance
    BY <2>1, <2>3 DEF Alone
  <2> QED BY <2>2, <2>3
<1> QED BY <1>1, AlwaysIInv, PTL

\* However requests overlap, one that is past its first steps works on a system that
\* was created: no method is called on None (the tests of system_instance in the
\* handlers of web/app.py).
THEOREM AlwaysOnCreated == Spec => [](\A r \in Requests : OnCreated(r))
<1>1. IInv => \A r \in Requests : OnCreated(r)
  BY DEF IInv
<1> QED BY <1>1, AlwaysIInv, PTL
=============================================================================
