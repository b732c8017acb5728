---------------------------- MODULE SharedProofs ----------------------------
(***************************************************************************)
(* The subscriber count of the shared supervisor is exact, no subscriber   *)
(* misses the line, and a daemon that bound the socket undisturbed is the  *)
(* only one with services: proofs about SharedSupervisor for every set of  *)
(* daemons, clients, callers and services.                                 *)
(***************************************************************************)
EXTENDS SharedSupervisor, FiniteSetTheorems, TLAPS

(* What a caller, a process and a connection do. *)
CallStep(s) ==
  Ask(s) \/ StopWaiting(s) \/ Poll(s) \/ \E d \in Daemon : SpawnDaemon(s, d)

DaemonStep(d) ==
  \/ Probe(d) \/ Clear(d) \/ Bind(d) \/ Record(d) \/ Serve(d)
  \/ \E x \in Service :
       SpawnService(d, x) \/ ServiceEnds(d, x) \/ ForwardExit(d, x) \/ Teardown(d, x)
  \/ KeepLine(d) \/ SendLine(d) \/ Monitor(d) \/ Break(d)
  \/ Drain(d) \/ CloseListener(d) \/ RemoveFile(d)

ClientStep(c) ==
  \/ Connect(c) \/ Accept(c) \/ Subscribe(c) \/ QueryLogs(c) \/ Uncount(c)
  \/ Disconnect(c) \/ RequestShutdown(c) \/ Handle(c)

(* Next, by who takes the step.                                           *)
LEMMA NextIsAStep ==
  Next => \/ \E s \in Starter : CallStep(s)
          \/ \E d \in Daemon : DaemonStep(d)
          \/ \E c \in Client : ClientStep(c)
BY SharedAssumption DEF Next, CallStep, DaemonStep, ClientStep, Ending, Monitor, Handle

-----------------------------------------------------------------------------
(* Types; the bound of the count comes with its meaning, below. *)
Shape ==
  /\ file \in Daemon \cup {None}
  /\ phase \in [Daemon -> Phase]
  /\ shutdown \in [Daemon -> BOOLEAN]
  /\ count \in [Daemon -> Int]
  /\ permit \in [Daemon -> BOOLEAN] /\ delivered \in [Daemon -> BOOLEAN]
  /\ idle \in [Daemon -> IdlePlace]
  /\ running \in [Daemon -> SUBSET Service] /\ map \in [Daemon -> SUBSET Service]
  /\ exits \in [Daemon -> SUBSET Service] /\ spawned \in [Daemon -> SUBSET Service]
  /\ tearing \in [Daemon -> SUBSET Service]
  /\ starting \in [Daemon -> Service \cup {None}]
  /\ line \in [Daemon -> {"none", "kept", "sent", "both"}]
  /\ conn \in [Client -> [to : Daemon, at : Handler] \cup {NoConn}]
  /\ got \subseteq Client /\ broken \subseteq Daemon /\ beset \subseteq Daemon
  /\ call \in [Starter -> [at : {"new", "waiting", "spawn", "polling", "up", "failed"},
                           child : Daemon \cup {None}]]

(* Nothing runs, nobody is connected.                                     *)
LEMMA InitShape == Init => Shape
BY DEF Init, Shape, Phase, IdlePlace, NoCall, NoConn

(* ... and a step of anybody keeps them. *)
LEMMA ShapeStep ==
  ASSUME Shape, Next
  PROVE  Shape'
<1> USE DEF Shape, Phase, IdlePlace, Handler, NoConn, idling, work, talk,
  past
<1>1. ASSUME NEW s \in Starter, CallStep(s) PROVE Shape'
  <2>1. CASE Ask(s) \/ StopWaiting(s) \/ Poll(s)
    BY <1>1, <2>1 DEF Ask, StopWaiting, Poll
  <2>2. CASE \E d \in Daemon : SpawnDaemon(s, d)
    BY <1>1, <2>2 DEF SpawnDaemon
  <2> QED BY <1>1, <2>1, <2>2 DEF CallStep
<1>2. ASSUME NEW d \in Daemon, DaemonStep(d) PROVE Shape'
  <2>1. CASE Probe(d) \/ Clear(d) \/ Bind(d) \/ Serve(d) \/ RemoveFile(d)
    BY <1>2, <2>1 DEF Probe, Clear, Bind, Serve, RemoveFile
  <2>2. CASE Record(d)
    BY <1>2, <2>2 DEF Record
  <2>3. CASE \E x \in Service : SpawnService(d, x)
    BY <1>2, <2>3, SMTT(30) DEF SpawnService
  <2>4. CASE \E x \in Service : ServiceEnds(d, x)
    BY <1>2, <2>4 DEF ServiceEnds
  <2>5. CASE \E x \in Service : ForwardExit(d, x)
    BY <1>2, <2>5 DEF ForwardExit
  <2>6. CASE \E x \in Service : Teardown(d, x)
    BY <1>2, <2>6 DEF Teardown
  <2>7. CASE KeepLine(d)
    BY <1>2, <2>7 DEF KeepLine, Receivers
  <2>8. CASE SendLine(d)
    BY <1>2, <2>8 DEF SendLine, Receivers
  <2>9. CASE Drain(d)
    BY <1>2, <2>9 DEF Drain
  <2>10. CASE AwaitNotice(d) \/ TakeNotice(d) \/ GraceOver(d) \/
    IdleShutdown(d)
    BY <1>2, <2>10 DEF AwaitNotice, TakeNotice, GraceOver, IdleShutdown,
      IdleGoes, Woken
  <2>11. CASE CloseListener(d)
    BY <1>2, <2>11 DEF CloseListener, Leaves, IdleGoes
  <2>12. CASE Break(d)
    <3>1. PICK place \in {"dead", "closed"} : Leaves(d, place)
      BY <2>12 DEF Break
    <3>2. phase' \in [Daemon -> Phase] /\ conn' \in [Client -> [to : Daemon, at : Handler] \cup {NoConn}]
      BY <3>1 DEF Leaves
    <3>3. got' \subseteq Client
      BY <3>1 DEF Leaves
    <3> QED BY <1>2, <2>12, <3>1, <3>2, <3>3 DEF Break, Leaves, IdleGoes
  <2> QED BY <1>2, <2>1, <2>2, <2>3, <2>4, <2>5, <2>6, <2>7, <2>8, <2>9,
    <2>10, <2>11, <2>12 DEF DaemonStep, Monitor, Ending
<1>3. ASSUME NEW c \in Client, ClientStep(c) PROVE Shape'
  <2>1. CASE Connect(c) \/ Disconnect(c)
    BY <1>3, <2>1, SharedAssumption DEF Connect, Disconnect, Connectable,
      Listens
  <2>2. CASE Accept(c) \/ QueryLogs(c)
    BY <1>3, <2>2, SharedAssumption, SMTT(30) DEF Accept, QueryLogs,
      At, Goes
  <2>3. CASE Subscribe(c) \/ Uncount(c)
    BY <1>3, <2>3, SharedAssumption DEF Subscribe, Uncount,
      At, Goes
  <2>4. CASE RequestShutdown(c)
    BY <1>3, <2>4, SharedAssumption DEF RequestShutdown, At, Goes
  <2>5. CASE AnnounceArrival(c)
    <3>1. conn' \in [Client -> [to : Daemon, at : Handler] \cup {NoConn}]
      BY <1>3, <2>5, SharedAssumption DEF AnnounceArrival, At, Goes
    <3>2. permit' \in [Daemon -> BOOLEAN] /\ delivered' \in [Daemon -> BOOLEAN]
      BY <1>3, <2>5 DEF AnnounceArrival, NotifyOne
    <3>3. got' \subseteq Client
      BY <1>3, <2>5 DEF AnnounceArrival
    <3> QED BY <1>3, <2>5, <3>1, <3>2, <3>3 DEF AnnounceArrival
  <2>6. CASE AnnounceDeparture(c)
    <3>1. conn' \in [Client -> [to : Daemon, at : Handler] \cup {NoConn}]
      BY <1>3, <2>6, SharedAssumption DEF AnnounceDeparture, At, Goes
    <3>2. permit' \in [Daemon -> BOOLEAN] /\ delivered' \in [Daemon -> BOOLEAN]
      BY <1>3, <2>6 DEF AnnounceDeparture, NotifyOne
    <3>3. got' \subseteq Client
      BY <1>3, <2>6 DEF AnnounceDeparture
    <3> QED BY <1>3, <2>6, <3>1, <3>2, <3>3 DEF AnnounceDeparture
  <2> QED BY <1>3, <2>1, <2>2, <2>3, <2>4, <2>5, <2>6 DEF ClientStep, Handle
<1> QED BY <1>1, <1>2, <1>3, NextIsAStep

-----------------------------------------------------------------------------
(* Who has a handler is at a daemon that serves or drains: its count, its  *)
(* ring and its channel are those the handler works with.                  *)
Attended == \A c \in Client : conn[c].at # "queued" => conn[c].to \in Daemon /\ Alive(conn[c].to)

(* The count is exact whatever the phase. *)
Exact == \A d \in Daemon : count[d] = Cardinality(Counted(d))

(* The ring is always written first, and NoLineMissed is inductive with it. *)
RingFirst == (\A d \in Daemon : line[d] # "sent") /\ NoLineMissed

(* A service that runs is known to its daemon: in the map, on its way      *)
(* there, or being stopped.  Who broke does not come back.                 *)
Kept ==
  \A d \in Daemon :
    /\ starting[d] # None => phase[d] = "spawning"
    /\ d \in broken => phase[d] \in {"closed", "dead"}
    /\ d \notin broken =>
         \A x \in running[d] :
           \/ phase[d] = "spawning" /\ (x \in map[d] \/ x = starting[d])
           \/ phase[d] = "serving" /\ x \in map[d]
           \/ phase[d] = "draining" /\ x \in tearing[d]

(* Who bound the socket undisturbed has it, and nobody is in a place to    *)
(* take it away: a probe would find the owner.                             *)
Undisturbed ==
  \A d \in Daemon \ beset :
    Listens(d) => file = d /\ \A e \in Daemon \ {d} : ~MayUnlink(e)

(* A handler ends with the process, at the latest. *)
LEMMA AttendedStep ==
  ASSUME Shape, Attended, Next
  PROVE  Attended'
<1> USE SharedAssumption DEF Shape, Attended, Alive, Phase, Handler, NoConn,
  idling, work, talk, past
<1>1. ASSUME NEW s \in Starter, CallStep(s) PROVE Attended'
  <2>1. CASE Ask(s) \/ StopWaiting(s) \/ Poll(s) \/ (\E d \in Daemon :
    SpawnDaemon(s, d))
    BY <1>1, <2>1 DEF Ask, StopWaiting, Poll, SpawnDaemon
  <2> QED BY <1>1, <2>1 DEF CallStep
<1>2. ASSUME NEW d \in Daemon, DaemonStep(d) PROVE Attended'
  <2>1. CASE Probe(d) \/ Clear(d) \/ Bind(d) \/ Serve(d) \/ Drain(d) \/
    RemoveFile(d)
    BY <1>2, <2>1 DEF Probe, Clear, Bind, Serve, Drain, RemoveFile
  <2>2. CASE Record(d) \/ (\E x \in Service : SpawnService(d, x)) \/ (\E x
    \in Service : ServiceEnds(d, x)) \/ (\E x \in Service : ForwardExit(d,
    x)) \/ (\E x \in Service : Teardown(d, x)) \/ KeepLine(d) \/ SendLine(d)
    \/ AwaitNotice(d) \/ TakeNotice(d) \/ GraceOver(d) \/ IdleShutdown(d)
    BY <1>2, <2>2 DEF Record, SpawnService, ServiceEnds, ForwardExit,
      Teardown, KeepLine, SendLine, AwaitNotice, TakeNotice, GraceOver,
      IdleShutdown, IdleGoes, Woken
  <2>3. CASE CloseListener(d) \/ Break(d)
    BY <1>2, <2>3 DEF CloseListener, Break, Leaves, IdleGoes
  <2> QED BY <1>2, <2>1, <2>2, <2>3 DEF DaemonStep, Monitor, Ending
<1>3. ASSUME NEW c \in Client, ClientStep(c) PROVE Attended'
  <2>1. CASE Connect(c) \/ Disconnect(c)
    BY <1>3, <2>1 DEF Connect, Disconnect
  <2>2. CASE Accept(c) \/ QueryLogs(c) \/ Subscribe(c) \/ Uncount(c)
    BY <1>3, <2>2, SMTT(30) DEF Accept, QueryLogs, Subscribe, Uncount, At, Goes
  <2>3. CASE RequestShutdown(c)
    BY <1>3, <2>3 DEF RequestShutdown, At, Goes
  <2>4. CASE AnnounceArrival(c) \/ AnnounceDeparture(c)
    BY <1>3, <2>4, SMTT(30) DEF AnnounceArrival, AnnounceDeparture, At, Goes, NotifyOne
  <2> QED BY <1>3, <2>1, <2>2, <2>3, <2>4 DEF ClientStep, Handle
<1> QED BY <1>1, <1>2, <1>3, NextIsAStep

(* Whoever subscribes is told what the ring has, and then what is sent. *)
LEMMA RingFirstStep ==
  ASSUME Shape, Attended, RingFirst, Next
  PROVE  RingFirst'
<1> USE SharedAssumption DEF Shape, Attended, RingFirst, NoLineMissed,
  Handler, NoConn, idling, work, talk, past
<1>1. ASSUME NEW s \in Starter, CallStep(s) PROVE RingFirst'
  <2>1. CASE Ask(s) \/ StopWaiting(s) \/ Poll(s) \/ (\E d \in Daemon :
    SpawnDaemon(s, d))
    BY <1>1, <2>1 DEF Ask, StopWaiting, Poll, SpawnDaemon
  <2> QED BY <1>1, <2>1 DEF CallStep
<1>2. ASSUME NEW d \in Daemon, DaemonStep(d) PROVE RingFirst'
  <2>1. CASE Probe(d) \/ Clear(d) \/ Bind(d) \/ Serve(d) \/ Drain(d) \/
    RemoveFile(d)
    BY <1>2, <2>1 DEF Probe, Clear, Bind, Serve, Drain, RemoveFile
  <2>2. CASE Record(d) \/ (\E x \in Service : SpawnService(d, x)) \/ (\E x
    \in Service : ServiceEnds(d, x)) \/ (\E x \in Service : ForwardExit(d,
    x)) \/ (\E x \in Service : Teardown(d, x)) \/ KeepLine(d) \/ SendLine(d)
    \/ AwaitNotice(d) \/ TakeNotice(d) \/ GraceOver(d) \/ IdleShutdown(d)
    BY <1>2, <2>2 DEF Record, SpawnService, ServiceEnds, ForwardExit,
      Teardown, KeepLine, SendLine, AwaitNotice, TakeNotice, GraceOver,
      IdleShutdown, Receivers, IdleGoes, Woken
  <2>3. CASE CloseListener(d) \/ Break(d)
    BY <1>2, <2>3 DEF CloseListener, Break, Leaves, IdleGoes
  <2> QED BY <1>2, <2>1, <2>2, <2>3 DEF DaemonStep, Monitor, Ending
<1>3. ASSUME NEW c \in Client, ClientStep(c) PROVE RingFirst'
  <2>1. CASE Connect(c) \/ Disconnect(c)
    BY <1>3, <2>1 DEF Connect, Disconnect
  <2>2. CASE Accept(c) \/ QueryLogs(c) \/ Subscribe(c) \/ Uncount(c)
    BY <1>3, <2>2 DEF Accept, QueryLogs, Subscribe, Uncount, At, Goes
  <2>3. CASE RequestShutdown(c)
    BY <1>3, <2>3 DEF RequestShutdown, At, Goes
  <2>4. CASE AnnounceArrival(c) \/ AnnounceDeparture(c)
    BY <1>3, <2>4 DEF AnnounceArrival, AnnounceDeparture, At, Goes, NotifyOne
  <2> QED BY <1>3, <2>1, <2>2, <2>3, <2>4 DEF ClientStep, Handle
<1> QED BY <1>1, <1>2, <1>3, NextIsAStep

(* No step loses a service that runs, except that the daemon dies. *)
LEMMA KeptStep ==
  ASSUME Shape, Kept, Next
  PROVE  Kept'
<1> USE SharedAssumption DEF Shape, Kept, Phase, idling, work, talk, past
<1>1. ASSUME NEW s \in Starter, CallStep(s) PROVE Kept'
  <2>1. CASE Ask(s) \/ StopWaiting(s) \/ Poll(s)
    BY <1>1, <2>1 DEF Ask, StopWaiting, Poll
  <2>2. CASE \E d \in Daemon : SpawnDaemon(s, d)
    BY <1>1, <2>2 DEF SpawnDaemon
  <2> QED BY <1>1, <2>1, <2>2 DEF CallStep
<1>2. ASSUME NEW d \in Daemon, DaemonStep(d) PROVE Kept'
  <2>1. CASE Probe(d) \/ Clear(d) \/ Bind(d)
    BY <1>2, <2>1 DEF Probe, Clear, Bind
  <2>2. CASE Serve(d)
    BY <1>2, <2>2 DEF Serve
  <2>3. CASE Drain(d)
    BY <1>2, <2>3 DEF Drain
  <2>4. CASE RemoveFile(d)
    BY <1>2, <2>4 DEF RemoveFile
  <2>5. CASE Record(d)
    BY <1>2, <2>5 DEF Record
  <2>6. CASE \E x \in Service : SpawnService(d, x)
    BY <1>2, <2>6 DEF SpawnService
  <2>7. CASE \E x \in Service : ServiceEnds(d, x)
    BY <1>2, <2>7 DEF ServiceEnds
  <2>8. CASE \E x \in Service : ForwardExit(d, x)
    BY <1>2, <2>8 DEF ForwardExit
  <2>9. CASE \E x \in Service : Teardown(d, x)
    BY <1>2, <2>9 DEF Teardown
  <2>10. CASE KeepLine(d) \/ SendLine(d) \/ AwaitNotice(d) \/ TakeNotice(d)
    \/ GraceOver(d) \/ IdleShutdown(d)
    BY <1>2, <2>10 DEF KeepLine, SendLine, AwaitNotice, TakeNotice,
      GraceOver, IdleShutdown, IdleGoes, Woken
  <2>11. CASE CloseListener(d)
    BY <1>2, <2>11 DEF CloseListener, Leaves, IdleGoes
  <2>12. CASE Break(d)
    BY <1>2, <2>12 DEF Break, Leaves, IdleGoes
  <2> QED BY <1>2, <2>1, <2>2, <2>3, <2>4, <2>5, <2>6, <2>7, <2>8, <2>9,
    <2>10, <2>11, <2>12 DEF DaemonStep, Monitor, Ending
<1>3. ASSUME NEW c \in Client, ClientStep(c) PROVE Kept'
  <2>1. CASE Connect(c) \/ Accept(c) \/ Subscribe(c) \/ QueryLogs(c) \/
    Uncount(c) \/ Disconnect(c) \/ RequestShutdown(c) \/ AnnounceArrival(c)
    \/ AnnounceDeparture(c)
    BY <1>3, <2>1 DEF Connect, Accept, Subscribe, QueryLogs, Uncount,
      Disconnect, RequestShutdown, AnnounceArrival, AnnounceDeparture, At,
      Goes, NotifyOne
  <2> QED BY <1>3, <2>1 DEF ClientStep, Handle
<1> QED BY <1>1, <1>2, <1>3, NextIsAStep

(* Probe refuses whoever comes later; Bind does if it probed before.  *)
LEMMA UndisturbedStep ==
  ASSUME Shape, Undisturbed, Next
  PROVE  Undisturbed'
<1> USE SharedAssumption DEF Shape, Undisturbed, Phase, Listens, MayUnlink,
  idling, work, talk, past
<1>1. ASSUME NEW s \in Starter, CallStep(s) PROVE Undisturbed'
  <2>1. CASE Ask(s) \/ StopWaiting(s) \/ Poll(s)
    BY <1>1, <2>1 DEF Ask, StopWaiting, Poll
  <2>2. CASE \E d \in Daemon : SpawnDaemon(s, d)
    BY <1>1, <2>2 DEF SpawnDaemon
  <2> QED BY <1>1, <2>1, <2>2 DEF CallStep
<1>2. ASSUME NEW d \in Daemon, DaemonStep(d) PROVE Undisturbed'
  <2>1. CASE Probe(d)
    BY <1>2, <2>1 DEF Probe, Refused, Connectable
  <2>2. CASE Clear(d)
    BY <1>2, <2>2 DEF Clear
  <2>3. CASE Bind(d)
    BY <1>2, <2>3 DEF Bind
  <2>4. CASE Serve(d) \/ Drain(d)
    BY <1>2, <2>4 DEF Serve, Drain
  <2>5. CASE RemoveFile(d)
    BY <1>2, <2>5 DEF RemoveFile
  <2>6. CASE Record(d) \/ (\E x \in Service : SpawnService(d, x)) \/ (\E x
    \in Service : ServiceEnds(d, x)) \/ (\E x \in Service : ForwardExit(d,
    x)) \/ (\E x \in Service : Teardown(d, x)) \/ KeepLine(d) \/ SendLine(d)
    \/ AwaitNotice(d) \/ TakeNotice(d) \/ GraceOver(d) \/ IdleShutdown(d)
    BY <1>2, <2>6 DEF Record, SpawnService, ServiceEnds, ForwardExit,
      Teardown, KeepLine, SendLine, AwaitNotice, TakeNotice, GraceOver,
      IdleShutdown, IdleGoes, Woken
  <2>7. CASE CloseListener(d) \/ Break(d)
    BY <1>2, <2>7 DEF CloseListener, Break, Leaves, IdleGoes
  <2> QED BY <1>2, <2>1, <2>2, <2>3, <2>4, <2>5, <2>6, <2>7 DEF DaemonStep,
    Monitor, Ending
<1>3. ASSUME NEW c \in Client, ClientStep(c) PROVE Undisturbed'
  <2>1. CASE Connect(c) \/ Accept(c) \/ Subscribe(c) \/ QueryLogs(c) \/
    Uncount(c) \/ Disconnect(c) \/ RequestShutdown(c) \/ AnnounceArrival(c)
    \/ AnnounceDeparture(c)
    BY <1>3, <2>1 DEF Connect, Accept, Subscribe, QueryLogs, Uncount,
      Disconnect, RequestShutdown, AnnounceArrival, AnnounceDeparture, At,
      Goes, NotifyOne
  <2> QED BY <1>3, <2>1 DEF ClientStep, Handle
<1> QED BY <1>1, <1>2, <1>3, NextIsAStep

-----------------------------------------------------------------------------
(* The clients are finitely many, hence the counted ones. *)
LEMMA CountedFinite ==
  ASSUME NEW d \in Daemon
  PROVE  IsFiniteSet(Counted(d))
BY FS_Subset, SharedAssumption DEF Counted

(* A step that leaves the counted and the counts alone. *)
LEMMA CountStays ==
  ASSUME Exact, count' = count, \A d \in Daemon : Counted(d)' = Counted(d)
  PROVE  Exact'
BY DEF Exact

(* The handler that is counted, and the one that is no more. *)
LEMMA CountsOneMore ==
  ASSUME Shape, Exact, NEW c \in Client, conn[c].to \in Daemon,
         conn[c].at \notin {"counted", "subscribed"}, Goes(c, "counted"),
         count' = [count EXCEPT ![conn[c].to] = @ + 1]
  PROVE  Exact'
<1> SUFFICES ASSUME NEW d \in Daemon PROVE count'[d] = Cardinality(Counted(d)')
  BY DEF Exact, Counted
<1>1. CASE d = conn[c].to
  <2>1. Counted(d)' = Counted(d) \cup {c} /\ c \notin Counted(d)
    BY <1>1 DEF Counted, Goes, Shape, NoConn, Handler
  <2>2. Cardinality(Counted(d)') = Cardinality(Counted(d)) + 1
    BY <2>1, CountedFinite, FS_AddElement
  <2>3. count'[d] = count[d] + 1
    BY <1>1 DEF Shape
  <2> QED BY <2>2, <2>3 DEF Exact
<1>2. CASE d # conn[c].to
  <2>1. Counted(d)' = Counted(d)
    BY <1>2 DEF Counted, Goes, Shape, NoConn, Handler
  <2> QED BY <1>2, <2>1 DEF Exact, Shape
<1> QED BY <1>1, <1>2

(* A subscriber that goes is one less to count.                           *)
LEMMA CountsOneLess ==
  ASSUME Shape, Exact, NEW c \in Client, conn[c].to \in Daemon, conn[c].at = "subscribed",
         NEW place \in {"uncounted", "leaving"}, Goes(c, place),
         count' = [count EXCEPT ![conn[c].to] = @ - 1]
  PROVE  Exact'
<1> SUFFICES ASSUME NEW d \in Daemon PROVE count'[d] = Cardinality(Counted(d)')
  BY DEF Exact, Counted
<1>1. CASE d = conn[c].to
  <2>1. Counted(d)' = Counted(d) \ {c} /\ c \in Counted(d)
    BY <1>1 DEF Counted, Goes, Shape, NoConn, Handler
  <2>2. Cardinality(Counted(d)') = Cardinality(Counted(d)) - 1
    BY <2>1, CountedFinite, FS_RemoveElement
  <2>3. count'[d] = count[d] - 1
    BY <1>1 DEF Shape
  <2> QED BY <2>2, <2>3 DEF Exact
<1>2. CASE d # conn[c].to
  <2>1. Counted(d)' = Counted(d)
    BY <1>2 DEF Counted, Goes, Shape, NoConn, Handler
  <2> QED BY <1>2, <2>1 DEF Exact, Shape
<1> QED BY <1>1, <1>2

(* Whoever disconnects or is dropped before it is counted changes nothing. *)
LEMMA UncountedGoes ==
  ASSUME Shape, Exact, NEW c \in Client, conn[c].at \notin {"counted", "subscribed"},
         conn' = [conn EXCEPT ![c] = NoConn], count' = count
  PROVE  Exact'
<1>1. \A d \in Daemon : Counted(d)' = Counted(d)
  BY SharedAssumption DEF Counted, Shape, NoConn
<1> QED BY <1>1, CountStays

(* A process that ends takes its count and its connections with it. *)
LEMMA LeavesWithCount ==
  ASSUME Shape, Exact, NEW d \in Daemon, NEW place \in {"closed", "dead"}, Leaves(d, place)
  PROVE  Exact'
<1> SUFFICES ASSUME NEW e \in Daemon PROVE count'[e] = Cardinality(Counted(e)')
  BY DEF Exact, Counted
<1>1. CASE e = d
  <2>1. Counted(e)' = {}
    BY <1>1, SharedAssumption DEF Counted, Leaves, NoConn
  <2>2. count'[e] = 0
    BY <1>1 DEF Leaves, Shape
  <2> QED BY <2>1, <2>2, FS_EmptySet
<1>2. CASE e # d
  <2>1. Counted(e)' = Counted(e)
    BY <1>2, SharedAssumption DEF Counted, Leaves, NoConn
  <2> QED BY <1>2, <2>1 DEF Exact, Leaves, Shape
<1> QED BY <1>1, <1>2

(* The count stays exact: every handler counts itself once, and uncounts   *)
(* itself on each of its ways out.                                         *)
LEMMA ExactStep ==
  ASSUME Shape, Attended, Exact, Next
  PROVE  Exact'
<1> USE DEF idling, work, talk, past
<1>1. ASSUME NEW s \in Starter, CallStep(s) PROVE Exact'
  <2>1. conn' = conn /\ count' = count
    BY <1>1 DEF CallStep, Ask, StopWaiting, Poll, SpawnDaemon
  <2> QED BY <2>1, CountStays DEF Counted
<1>2. ASSUME NEW d \in Daemon, DaemonStep(d) PROVE Exact'
  <2>1. CASE CloseListener(d) \/ Break(d)
    BY <2>1, LeavesWithCount DEF CloseListener, Break
  <2>2. CASE ~(CloseListener(d) \/ Break(d))
    <3>1. conn' = conn /\ count' = count
      BY <1>2, <2>2
      DEF DaemonStep, Probe, Clear, Bind, Record, Serve, SpawnService, ServiceEnds,
          ForwardExit, Teardown, KeepLine, SendLine, Monitor, AwaitNotice, TakeNotice,
          GraceOver, IdleShutdown, Drain, RemoveFile
    <3> QED BY <3>1, CountStays DEF Counted
  <2> QED BY <2>1, <2>2
<1>3. ASSUME NEW c \in Client, ClientStep(c) PROVE Exact'
  <2>1. CASE Connect(c) \/ Accept(c) \/ QueryLogs(c) \/ AnnounceArrival(c)
    <3>1. count' = count /\ \A d \in Daemon : Counted(d)' = Counted(d)
      BY <2>1, SharedAssumption
      DEF Connect, Accept, QueryLogs, AnnounceArrival, At, Goes, Counted, Shape, NoConn, Handler
    <3> QED BY <3>1, CountStays
  <2>2. CASE Subscribe(c)
    <3>1. conn[c].to \in Daemon
      BY <2>2, SharedAssumption DEF Subscribe, At, Shape, NoConn
    <3> QED BY <2>2, <3>1, CountsOneMore DEF Subscribe, At
  <2>3. CASE Uncount(c)
    <3>1. conn[c].to \in Daemon
      BY <2>3, SharedAssumption DEF Uncount, At, Shape, NoConn
    <3> QED BY <2>3, <3>1, CountsOneLess DEF Uncount, At
  <2>4. CASE Disconnect(c)
    BY <2>4, UncountedGoes DEF Disconnect, Attended
  <2>5. CASE RequestShutdown(c)
    <3>1. CASE conn[c].at = "subscribed"
      BY <2>5, <3>1, CountsOneLess, SharedAssumption DEF RequestShutdown, At, Shape, NoConn
    <3>2. CASE conn[c].at # "subscribed"
      BY <2>5, <3>2, UncountedGoes DEF RequestShutdown, At
    <3> QED BY <3>1, <3>2
  <2>6. CASE AnnounceDeparture(c)
    <3>1. CASE At(c, "leaving") /\ conn' = [conn EXCEPT ![c] = NoConn]
      BY <2>6, <3>1, UncountedGoes DEF AnnounceDeparture, At
    <3>2. CASE At(c, "uncounted") /\ Goes(c, "open")
      <4>1. count' = count /\ \A d \in Daemon : Counted(d)' = Counted(d)
        BY <2>6, <3>2 DEF AnnounceDeparture, At, Goes, Counted, Shape, NoConn, Handler
      <4> QED BY <4>1, CountStays
    <3> QED BY <2>6, <3>1, <3>2 DEF AnnounceDeparture
  <2> QED BY <1>3, <2>1, <2>2, <2>3, <2>4, <2>5, <2>6 DEF ClientStep, Handle
<1> QED BY <1>1, <1>2, <1>3, NextIsAStep

-----------------------------------------------------------------------------
SharedInv == Shape /\ Attended /\ Exact /\ RingFirst /\ Kept /\ Undisturbed

(* The invariant holds at first, in a stutter, and always.                *)
LEMMA InitInv == Init => SharedInv
<1> SUFFICES ASSUME Init PROVE SharedInv OBVIOUS
<1>1. Shape BY InitShape
<1>2. \A d \in Daemon : Counted(d) = {}
  BY SharedAssumption DEF Init, Counted, NoConn
<1>3. Exact BY <1>2, FS_EmptySet DEF Exact, Init
<1>4. Attended /\ RingFirst
  BY DEF Init, Attended, RingFirst, NoLineMissed, NoConn
<1>5. Kept /\ Undisturbed
  BY DEF Init, Kept, Undisturbed, Listens
<1> QED BY <1>1, <1>3, <1>4, <1>5 DEF SharedInv

LEMMA StutterKeepsShared == SharedInv /\ UNCHANGED vars => SharedInv'
<1> SUFFICES ASSUME SharedInv, UNCHANGED vars PROVE SharedInv' OBVIOUS
<1> USE DEF vars, idling, work, talk, past
<1>1. Shape' /\ Attended' /\ RingFirst' /\ Kept' /\ Undisturbed'
  BY DEF SharedInv, Shape, Attended, RingFirst, NoLineMissed, Kept, Undisturbed,
         Listens, MayUnlink, Alive
<1>2. Exact'
  BY CountStays DEF SharedInv, Counted
<1> QED BY <1>1, <1>2 DEF SharedInv

LEMMA SharedInductive == Spec => []SharedInv
<1>1. Init => SharedInv BY InitInv
<1>2. SharedInv /\ [Next]_vars => SharedInv'
  BY ShapeStep, AttendedStep, ExactStep, RingFirstStep, KeptStep, UndisturbedStep,
     StutterKeepsShared DEF SharedInv
<1> QED BY <1>1, <1>2, PTL DEF Spec

(* Every variable has its type; the count stays between none and all of    *)
(* the clients, so that `fetch_sub` never wraps below zero.                *)
THEOREM SharedTypes == Spec => []TypeOK
<1>1. SharedInv => TypeOK
  <2> SUFFICES ASSUME SharedInv PROVE TypeOK OBVIOUS
  <2>1. \A d \in Daemon : count[d] \in 0..Cardinality(Client)
    <3> TAKE d \in Daemon
    <3>1. Counted(d) \in SUBSET Client BY DEF Counted
    <3>2. Cardinality(Counted(d)) <= Cardinality(Client)
      BY <3>1, FS_Subset, SharedAssumption
    <3>3. Cardinality(Counted(d)) \in Nat /\ Cardinality(Client) \in Nat
      BY CountedFinite, FS_CardinalityType, SharedAssumption
    <3> QED BY <3>2, <3>3 DEF SharedInv, Exact
  <2> QED BY <2>1 DEF SharedInv, Shape, TypeOK
<1> QED BY <1>1, SharedInductive, PTL

(* SharedState::subscribers is the number of subscribed connections,       *)
(* however many come, leave, unsubscribe or are cut off at once.           *)
THEOREM SubscribersAreCounted == Spec => []CountIsExact
<1>1. SharedInv => CountIsExact
  BY DEF SharedInv, Exact, CountIsExact
<1> QED BY <1>1, SharedInductive, PTL

(* handle: a subscriber has every line, from the ring or from the channel. *)
THEOREM SubscribersMissNothing == Spec => []NoLineMissed
<1>1. SharedInv => NoLineMissed
  BY DEF SharedInv, RingFirst
<1> QED BY <1>1, SharedInductive, PTL

(* try_bind: a daemon that bound the socket undisturbed has the only       *)
(* services of the repository, for any number of daemons and callers.      *)
THEOREM OneOwnerOfServices == Spec => []OneOwner
<1>1. SharedInv => OneOwner
  <2> SUFFICES ASSUME SharedInv, NEW d \in Daemon \ (broken \cup beset),
                      NEW e \in Daemon \ broken, d # e, running[d] # {}, running[e] # {}
               PROVE  FALSE
    BY DEF OneOwner
  <2>1. Listens(d) /\ Listens(e)
    BY DEF SharedInv, Kept, Listens
  <2>2. ~MayUnlink(e)
    BY <2>1 DEF SharedInv, Undisturbed
  <2> QED BY <2>1, <2>2 DEF Listens, MayUnlink
<1> QED BY <1>1, SharedInductive, PTL

=============================================================================
