------------------------------- MODULE Clients -------------------------------
(***************************************************************************)
(* The conversations of the supervisor with its clients: what each event   *)
(* makes it tell them, and the programs that act on it.  The task runner   *)
(* waits for services under a hold, `devme up` starts them and waits or    *)
(* stays attached, `devme down` shuts the daemon down.  Everybody else     *)
(* (`devme start`, stop, restart, the interface) may command anything, and *)
(* holds nothing: their connections leave no trace.                        *)
(*                                                                         *)
(* A client reads a message when it is sent: what a program does with a    *)
(* message depends on those before it only, and what it sends is a step of *)
(* its own.  Log lines, notices and the evidence of probes are left out.   *)
(***************************************************************************)
EXTENDS Daemon, SequencesExt

CONSTANTS
  Talker,   \* the clients that run a program
  Wanted,   \* the services that `devme run` and `devme up` are asked for
  Commanded \* bound: which nodes others start, stop and restart

ASSUME ClientsAssumption ==
  /\ Talker \subseteq Client
  /\ Wanted \in TargetSets \ {{}}
  /\ Commanded \subseteq {"start", "stop", "restart"} \X Node

(***************************************************************************)
(* A conversation: the program and where it is (ready: it has what it      *)
(* waited for under its hold; over: it has its result, good or bad), the   *)
(* status it has last heard of each service it selected, and for           *)
(* `devme up` whether a message it has yet to look at settles them all.    *)
(***************************************************************************)
VARIABLE talk
talkvars == <<vars, talk>>

Program == {"run", "up", "down"}
Reading == {"subscribed", "holding", "waiting", "attached", "stopping"}
Place == {"away", "connected", "ready", "over"} \cup Reading
NoView == <<>>
Talk(p, a, v) == [as |-> p, at |-> a, view |-> v, met |-> FALSE]
Nobody == Talk("run", "away", NoView)

(* required_service_closure; `devme down` subscribes to everything.        *)
Selected(p) == IF p = "down" THEN Service ELSE CollectRequired(Wanted) \cap Service

View == {NoView} \cup UNION {[Selected(p) -> Status] : p \in Program}

(* Who does not read has no view. *)
Conversation ==
  {t \in [as : Program, at : Place, view : View, met : BOOLEAN] :
     t.view \in IF t.at \in Reading THEN [Selected(t.as) -> Status] ELSE {NoView}}

TalkTypeOK == TypeOK /\ talk \in [Talker -> Conversation]

(* DaemonState::snapshot of a service without an entry: stopped or waiting. *)
Shown(s) == IF nodes[s] = "Absent" THEN "Stopped" ELSE nodes[s]

-----------------------------------------------------------------------------
(* What the programs make of a message. *)

(* await_all_running: up, or failed, or an external service of any kind.   *)
IsSettled(status) == status \in Up \cup {"Probing", "Failed", "CrashLoop"}
AllSettled(view) == \A s \in DOMAIN view : IsSettled(view[s])

(* acquire_service_hold: every service asked for is up, or one of the      *)
(* closure has failed, or neither.                                         *)
Verdict(view) ==
  IF \A s \in Wanted : view[s] \in Up THEN "ready"
  ELSE IF \E s \in DOMAIN view : view[s] \in {"Failed", "CrashLoop"} THEN "over" ELSE "holding"

(* A conversation is at p now; what it was and heard is dropped when       *)
(* nobody reads any more.                                                  *)
At(t, p) == IF p \in Reading THEN Talk(t.as, p, t.view) ELSE Talk("run", p, NoView)

(* Before the snapshot an update is skipped by the task runner and is an   *)
(* unexpected reply for the others.                                        *)
HearEarly(t) == IF t.at = "connected" /\ t.as # "run" THEN At(t, "over") ELSE t

(* Where an update that makes its view v takes a conversation.             *)
MovesTo(t, v) ==
  CASE t.at = "holding" -> Verdict(v)
    [] t.at = "waiting" /\ AllSettled(v) -> "over"
    [] OTHER -> t.at

(* Mutation: what arrives before the answer to the hold is not looked at. *)
HearLate(t, m) ==
  IF m[1] \notin DOMAIN t.view \/ t.at = "subscribed" THEN HearEarly(t) ELSE
    LET v == [t.view EXCEPT ![m[1]] = m[2]] IN At([t EXCEPT !.view = v], MovesTo(t, v))

(* One StatusUpdate, if the subscription selects it.                       *)
Hear(t, m) ==
  IF m[1] \notin DOMAIN t.view THEN HearEarly(t) ELSE
    LET v == [t.view EXCEPT ![m[1]] = m[2]] IN
    IF t.at = "subscribed" THEN [t EXCEPT !.view = v, !.met = t.as = "up" /\ (@ \/ AllSettled(v))]
    ELSE At([t EXCEPT !.view = v], MovesTo(t, v))

HearAll(t, told) ==
  LET heard[n \in 0..Len(told)] == IF n = 0 THEN t ELSE Hear(heard[n - 1], told[n])
  IN heard[Len(told)]

(* Goodbye ends whatever waits for something: well, or with an error.      *)
HearGoodbye(t) == IF t.at \in {"connected"} \cup Reading THEN At(t, "over") ELSE t

-----------------------------------------------------------------------------
(* What the daemon tells. *)

(* run_event_loop: Goodbye is said when all children have drained.         *)
SaysGoodbye == Exited'

(* DaemonState::broadcast: every connected client hears it, first the      *)
(* status updates of this step, at its end perhaps the Goodbye.            *)
Broadcast(t, told) ==
  talk' = [c \in Talker |->
             IF c \notin clients THEN t[c]
             ELSE LET heard == HearAll(t[c], told)
                  IN  IF SaysGoodbye THEN HearGoodbye(heard) ELSE heard]

Tell(told) == Broadcast(talk, told)
TellNothing == Tell(<<>>)

(* The updates about the services of S, who have the statuses of n.        *)
Updates(S, n) == [i \in 1..Cardinality(S) |-> <<SetToSeq(S)[i], n[SetToSeq(S)[i]]>>]

(* enact_actions after statuses n with targets t: Starting or, if it could *)
(* not be spawned, Failed; External { healthy: false } for a probe.        *)
Enacted(n, t) == Updates((Ready(n, t) \cap Service) \ Malformed, nodes')

(* Services that were stopped and have no process are reported at once,    *)
(* the others when their exit is processed.                                *)
StoppedNow(S) == Updates({s \in S \cap Service : s \in External \/ child[s] = None}, [s \in S |-> "Stopped"])

(* The managed services that a release of holds stops, holds being h then. *)
Dropped(h) == NoLongerRequired(holds, h) \cap managed

-----------------------------------------------------------------------------
(* The events of the daemon, with what they tell. *)

Exits(s, g) ==
  /\ \E clean, quick \in BOOLEAN : ProcessExited(s, g, clean, quick)
  /\ Tell((IF s \in intentional THEN << <<s, "Stopped">> >>
           ELSE IF nodes'[s] = "CrashLoop" THEN << <<s, "Failed">>, <<s, "CrashLoop">> >>
           ELSE << <<s, "Failed">> >>)
          \o Enacted(IF s \in pendingRestart THEN Forget(nodes, s) ELSE nodes, targets))

Restarted(s, i) ==
  /\ AutoRestart(s, i)
  /\ Tell(IF MayAutoRestart(s) THEN Enacted(Forget(nodes, s), targets) ELSE <<>>)

(* Mutation: the executor hears of the readiness, nobody else does. *)
ReadyUnsaid(s, g) ==
  /\ GracePassed(s, g)
  /\ Tell(IF IsCurrent(s, g) THEN Enacted([nodes EXCEPT ![s] = "Running"], targets) ELSE <<>>)

Readied(s, g) ==
  /\ GracePassed(s, g)
  /\ Tell(IF IsCurrent(s, g)
            THEN << <<s, "Running">> >> \o Enacted([nodes EXCEPT ![s] = "Running"], targets) ELSE <<>>)

ProbeAnswered(s, i) ==
  \/ /\ ExternalHealthy(s, i)
     /\ Tell(IF nodes[s] = "Healthy" THEN <<>>
             ELSE << <<s, "Healthy">> >> \o Enacted([nodes EXCEPT ![s] = "Healthy"], targets))
  \/ /\ ExternalUnreachable(s, i)
     /\ Tell(<< <<s, "Failed">> >> \o Enacted([nodes EXCEPT ![s] = "Failed"], targets))

Checked(x, i, passed) ==
  \/ /\ CheckResult(x, i, passed)
     /\ Tell(Enacted(StepChecked(nodes, x, passed), targets))
  \/ /\ ProvisionResult(x, i, passed)
     /\ Tell(Enacted(StepProvisioned(nodes, x, passed), targets))

Quietly ==
  /\ \/ \E s \in Owned, g \in Incarnation : ProcessEnds(s, g) \/ ProbeExhausted(s, g)
     \/ WorktreeVanished
  /\ TellNothing

(* What anybody may command. *)
CommandedTo(what) == {x \in Node : <<what, x>> \in Commanded}

Commands ==
  \/ StartAll /\ Tell(Enacted(nodes, StartTargetSet))
  \/ Shutdown /\ TellNothing
  \/ \E S \in TargetSets : StartTargets(S) /\ Tell(Enacted(nodes, CollectRequired(S)))
  \/ \E s \in CommandedTo("start") :
       /\ Start(s)
       /\ Tell(IF nodes[s] \in Resettable THEN Enacted(Forget(nodes, s), targets)
               ELSE Enacted(nodes, StartTargetSet))
  \/ \E s \in CommandedTo("stop") :
       /\ Stop(s)
       /\ LET h == holds' IN
          Tell(StoppedNow(Dropped(h) \cup
                          (IF s \notin RequiredSet(h) /\ s \notin managed THEN {s} ELSE {})))
  \/ \E s \in CommandedTo("restart") :
       /\ Restart(s)
       /\ Tell(IF s \in WithChild({s}) THEN <<>> ELSE Enacted(Forget(nodes, s), targets))

-----------------------------------------------------------------------------
(* The programs. *)

Arrive(c) ==
  /\ talk[c].at = "away"
  /\ Connect(c)
  /\ \E p \in Program : talk' = [talk EXCEPT ![c] = Talk(p, "connected", NoView)]

(* ClientMessage::Subscribe: the snapshot, and every update from here on.  *)
Subscribe(c) ==
  LET view == [s \in Selected(talk[c].as) |-> Shown(s)] IN
  /\ ~Exited
  /\ talk[c].at = "connected"
  /\ talk' = [talk EXCEPT ![c] = [as |-> @.as, at |-> "subscribed", view |-> view,
                                    met |-> @.as = "up" /\ AllSettled(view)]]
  /\ UNCHANGED vars

(* The answer to the hold makes the runner look at what it has heard; the  *)
(* services are started after it.                                          *)
RunnerHolds(c) ==
  /\ talk[c].at = "subscribed" /\ talk[c].as = "run"
  /\ AcquireServiceHold(c, Wanted)
  /\ Broadcast([talk EXCEPT ![c] = At(@, Verdict(@.view))], Enacted(nodes, CollectRequired(Wanted)))

(* `devme up` starts what it was asked for, and waits (-d --wait) or stays.*)
UpStarts(c) ==
  /\ talk[c].at = "subscribed" /\ talk[c].as = "up"
  /\ StartTargets(Wanted)
  /\ \E p \in {"waiting", "attached"} :
       Broadcast([talk EXCEPT ![c] = At(@, IF p = "waiting" /\ @.met THEN "over" ELSE p)],
                 Enacted(nodes, CollectRequired(Wanted)))

(* teardown_daemon, and the first interrupt of an attached `devme up`.     *)
AsksToStop(c) ==
  /\ talk[c].at = "attached" \/ (talk[c].at = "subscribed" /\ talk[c].as = "down")
  /\ Shutdown
  /\ Broadcast([talk EXCEPT ![c] = At(@, "stopping")], <<>>)

(* A deadline passes: readiness, --wait, the patience of `devme down`.     *)
TimesOut(c) ==
  /\ \/ talk[c].at \in {"holding", "waiting"}
     \/ talk[c].at = "stopping" /\ talk[c].as = "down"
  /\ talk' = [talk EXCEPT ![c] = At(@, "over")]
  /\ UNCHANGED vars

(* The program ends, or is killed; the daemon sees the connection close.   *)
Leave(c) ==
  /\ talk[c].at # "away"
  /\ ClientDisconnected(c)
  /\ Broadcast([talk EXCEPT ![c] = Nobody], StoppedNow(Dropped(holds')))

TalkInit == Init /\ talk = [c \in Talker |-> Nobody]

TalkNext ==
  \/ \E s \in Owned, g \in Incarnation : Exits(s, g) \/ Readied(s, g)
  \/ \E s \in Owned, i \in 1..MaxTimer : Restarted(s, i)
  \/ \E s \in External, i \in 1..MaxRun : ProbeAnswered(s, i)
  \/ \E x \in Step, i \in 1..MaxRun, passed \in BOOLEAN : Checked(x, i, passed)
  \/ Quietly \/ Commands
  \/ \E c \in Talker : \/ Arrive(c) \/ Subscribe(c) \/ RunnerHolds(c) \/ UpStarts(c)
                       \/ AsksToStop(c) \/ TimesOut(c) \/ Leave(c)
  \/ Terminated /\ UNCHANGED talk

TalkSpec == TalkInit /\ [][TalkNext]_talkvars

-----------------------------------------------------------------------------
(* Services whose grace timer ended while they were being stopped: Running *)
(* without a process (RunningMeansAlive in DaemonPromises), and the client *)
(* that was told Stopped knows better than the executor.                   *)
Ghosts == {s \in Owned : nodes[s] = "Running" /\ child[s] = None}

(* What a client shows is what the daemon has: whoever reads has heard the *)
(* status of each service it selected, unless a stop of it is under way    *)
(* (reported when the process has gone) or the end of the daemon is.  A    *)
(* handler that changes a status without a broadcast, or the snapshot in   *)
(* the wrong place, leaves a client with a stale one for good.  A service  *)
(* without an entry is not reported, nor is one whose command does not     *)
(* interpolate.                                                            *)
ViewsAgree ==
  \A c \in Talker : talk[c].at \in Reading =>
    \A s \in Selected(talk[c].as) \ Malformed :
      \/ talk[c].view[s] = nodes[s]
      \/ nodes[s] = "Absent"
      \/ s \in intentional
      \/ s \in Ghosts
      \/ shutting

(* Nobody waits for services that are there: as long as the runner waits,  *)
(* one that it asked for is not up.  It would wait for ever otherwise, as  *)
(* nothing more is told of a service that is up.                           *)
ReadyIsHeard ==
  \A c \in Talker : talk[c].at = "holding" =>
    shutting \/ \E s \in Wanted : nodes[s] \notin Up \/ s \in Ghosts

-----------------------------------------------------------------------------
(* What sources say of the conversations and the code does not keep. *)

(* "not yet subscribed; harmless" (DaemonState::broadcast): a broadcast    *)
(* before the snapshot is an error for `devme up` and `devme down`, which  *)
(* expect the snapshot first.                                              *)
FirstReplyIsSnapshot ==
  [][\A c \in Talker : talk[c].at = "connected" /\ talk'[c].at = "over" => Exited']_talkvars

(* "Used by `up -d --wait` so CI/scripts can know whether the stack is     *)
(* actually up" (main.rs:2402): an external service that does not answer   *)
(* yet, and one that failed and is about to be restarted, count as well.   *)
WaitIsHonest ==
  [][\A c \in Talker : talk[c].at = "waiting" /\ talk'[c].at = "over" /\ vars' # vars /\ ~Exited' =>
       \A s \in Selected("up") :
         /\ nodes'[s] \in Up \cup {"Failed", "CrashLoop"}
         /\ \A i \in 1..MaxTimer : Task("restart", s, i) \notin tasks']_talkvars
=============================================================================
