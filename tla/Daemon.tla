-------------------------------- MODULE Daemon --------------------------------
(***************************************************************************)
(* The life of the process: the main goroutine that starts and stops the   *)
(* components (src/cmd/daemon.go), the goroutine that waits for signals    *)
(* (src/daemon), and the goroutines of the gateways component with the     *)
(* netlink goroutine that pushes notifications to them (src/gateways/      *)
(* root.go); the reporter's exporters are those of Metrics, its Sentry     *)
(* client is the queue of the errors captured.  What handlers do with the  *)
(* notifications is in Gateway, where they come from, Netlink.             *)
(***************************************************************************)
EXTENDS Integers, Sequences

CONSTANTS
    N,          \* number of gateways configured, at least one
    QueueSize,  \* capacity of their notification channels (100 in the code)
    SharedLoopVariables,  \* the turns of a loop share its variable (Go < 1.22)
    Signals,    \* the signals that the process may be sent, each one once
    DecodesEmptyFirst,  \* lines 79-81 of cmd/daemon.go are there, as they are
    MaxReports, \* capacity of the queue of the Sentry client
    Exporters   \* see Metrics

VARIABLES
    main,        \* the main goroutine
    started,     \* startedComponents, the last one first
    waiting,     \* the component whose Stop() waits for its goroutines
    file, check, \* the arguments: what the file holds, --check
    failure,     \* what the error returned is about
    sent,        \* history: the signals sent
    signals,     \* the channel given to signal.Notify, of capacity 1
    notified,    \* signal.Notify is in effect
    signaller,   \* the goroutine of daemon.Start
    terminated,  \* terminateChannel is closed
    netlinkDying, gatewaysDying,  \* the tombs of both components
    netlink,     \* the goroutine that calls the callback
    at,          \* the gateway it pushes to
    queue,       \* length of the channel of each gateway
    starter,     \* the goroutine of gateways.Start: handlers spawned so far
    handler,     \* the handlers' goroutines
    handling,    \* the gateway each one was given
    late,        \* history: notifications pushed since gatewaysDying, up to 2
    metrics, exporters, wg, done,  \* see Metrics
    sentry,      \* the Sentry client: "off" when it is not configured
    reports      \* errors it has captured and not sent yet

ASSUME SizeType == N \in Nat \ {0} /\ QueueSize \in Nat \ {0}
ASSUME OptionType == SharedLoopVariables \in BOOLEAN /\ Signals \subseteq {"HUP", "TERM"}
ASSUME CommandType == DecodesEmptyFirst \in BOOLEAN /\ MaxReports \in Nat
ASSUME ExportersType == Exporters \in Seq({"file", "collectd", "expvar"})

commandVars == <<file, check, failure>>
mainVars == <<main, started, waiting, commandVars>>
signalVars == <<sent, signals, notified, signaller>>
dyingVars == <<netlinkDying, gatewaysDying>>
notifyVars == <<netlink, at, queue, late>>
handlerVars == <<starter, handler, handling>>
sentryVars == <<sentry, reports>>
reporterVars == <<metrics, exporters, wg, done, sentryVars>>
vars == <<mainVars, signalVars, terminated, dyingVars, notifyVars, handlerVars,
          reporterVars>>

M == INSTANCE Metrics

Gateways == 1..N
Components == <<"reporter", "daemon", "netlink", "gateways">>
Ended == main \in {"exited", "killed"} \/ metrics = "panicked" \/ sentry = "panicked"

TypeOK ==
    /\ main \in {"configuring", "making", "starting", "running", "stopping",
                "exited", "killed"}
    /\ file \in {"unreadable", "invalid", "valid"} /\ check \in BOOLEAN
    /\ failure \in {"none", "file", "defaults", "document", "components", "start"}
    /\ sentry \in {"off", "open", "closed", "panicked"}
    /\ reports \in 0..MaxReports
    /\ started \in Seq({"reporter", "daemon", "netlink", "gateways"})
    /\ waiting \in {"none", "reporter", "netlink", "gateways"}
    /\ sent \subseteq Signals
    /\ signals \in Seq(Signals) /\ Len(signals) <= 1
    /\ {notified, terminated, netlinkDying, gatewaysDying} \subseteq BOOLEAN
    /\ signaller \in {"unborn", "spawned", "select", "done"}
    /\ netlink \in {"unborn", "select", "callback", "done"}
    /\ at \in Gateways
    /\ queue \in [Gateways -> 0..QueueSize]
    /\ starter \in 0..N
    /\ handler \in [Gateways -> {"unborn", "spawned", "running", "done"}]
    /\ handling \in [Gateways -> Gateways]
    /\ late \in [Gateways -> 0..2]
    /\ M!TypeOK

Init ==
    /\ main = "configuring" /\ started = <<>> /\ waiting = "none"
    /\ file \in {"unreadable", "invalid", "valid"} /\ check \in BOOLEAN
    /\ failure = "none"
    /\ sentry = "off" /\ reports = 0
    /\ sent = {} /\ signals = <<>> /\ notified = FALSE /\ signaller = "unborn"
    /\ terminated = FALSE /\ netlinkDying = FALSE /\ gatewaysDying = FALSE
    /\ netlink = "unborn" /\ at = 1
    /\ queue = [g \in Gateways |-> 0] /\ late = [g \in Gateways |-> 0]
    /\ starter = 0
    /\ handler = [i \in Gateways |-> "unborn"]
    /\ handling = [i \in Gateways |-> i]
    /\ M!Init

-----------------------------------------------------------------------------
(* The main goroutine. *)

exitWith(reason) == main' = "exited" /\ failure' = reason

(* The file is read and decoded, after an empty document, which has no     *)
(* gateway: the decoder of daemonConfiguration refuses it.                 *)
Configure ==
    /\ main = "configuring"
    /\ \/ file = "unreadable" /\ exitWith("file")
       \/ file # "unreadable" /\ DecodesEmptyFirst /\ exitWith("defaults")
       \/ file = "invalid" /\ ~DecodesEmptyFirst /\ exitWith("document")
       \/ /\ file = "valid" /\ ~DecodesEmptyFirst
          /\ main' = "making"
          /\ UNCHANGED failure
    /\ UNCHANGED <<started, waiting, file, check, signalVars, terminated,
                   dyingVars, notifyVars, handlerVars, reporterVars>>

(* Making the components: the reporter opens its log and, if configured,   *)
(* its Sentry client, which may fail; the others cannot.  A check ends     *)
(* there.                                                                  *)
MakeComponents ==
    /\ main = "making"
    /\ \/ exitWith("components") /\ UNCHANGED sentry
       \/ /\ main' = IF check THEN "exited" ELSE "starting"
          /\ sentry' \in {"off", "open"}
          /\ UNCHANGED failure
    /\ UNCHANGED <<started, waiting, file, check, signalVars, terminated,
                   dyingVars, notifyVars, handlerVars, metrics, exporters, wg,
                   done, reports>>

StartReporter ==
    /\ main = "starting"
    /\ M!Start
    /\ UNCHANGED <<sentryVars, mainVars, signalVars, terminated, dyingVars, notifyVars,
                   handlerVars>>

(* Start() of the next component, up to its return.  The gateways' one     *)
(* subscribes and spawns the goroutine that spawns the handlers; the       *)
(* netlink one waits for a subscriber.                                     *)
StartComponent ==
    LET component == Components[Len(started) + 1]
    IN  /\ main = "starting"
        /\ metrics = "started"
        /\ started' = <<component>> \o started
        /\ main' = IF component = "gateways" THEN "running" ELSE "starting"
        /\ signaller' = IF component = "daemon" THEN "spawned" ELSE signaller
        /\ netlink' = IF component = "gateways" THEN "select" ELSE netlink
        /\ UNCHANGED <<waiting, commandVars, sent, signals, notified, terminated, dyingVars,
                       at, queue, late, handlerVars, reporterVars>>

(* Mutant: a component is to be stopped as soon as Start() is called. *)
StartFailsLate ==
    /\ main = "starting"
    /\ metrics = "failed"
    /\ main' = "stopping"
    /\ failure' = "start"
    /\ started' = <<"reporter">>
    /\ UNCHANGED <<waiting, file, check, signalVars, terminated, dyingVars, notifyVars,
                   handlerVars, reporterVars>>

(* The reporter is the one whose Start() may fail.  It is not among the    *)
(* components to stop then.                                                *)
StartFails ==
    /\ main = "starting"
    /\ metrics = "failed"
    /\ main' = "stopping"
    /\ failure' = "start"
    /\ UNCHANGED <<started, waiting, file, check, signalVars, terminated,
                   dyingVars, notifyVars, handlerVars, reporterVars>>

Terminated ==
    /\ main = "running"
    /\ terminated
    /\ main' = "stopping"
    /\ UNCHANGED <<started, waiting, commandVars, signalVars, terminated,
                   dyingVars, notifyVars, handlerVars, reporterVars>>

(* Mutant: the components are stopped in the order of their start. *)
StopInStartOrder ==
    /\ main = "stopping"
    /\ waiting = "none"
    /\ started # <<>>
    /\ LET component == started[Len(started)]
       IN  /\ waiting' = IF component = "daemon" THEN "none" ELSE component
           /\ gatewaysDying' = (gatewaysDying \/ component = "gateways")
           /\ netlinkDying' = (netlinkDying \/ component = "netlink")
           /\ terminated' = (terminated \/ component = "daemon")
    /\ started' = SubSeq(started, 1, Len(started) - 1)
    /\ UNCHANGED <<main, commandVars, signalVars, notifyVars, handlerVars, reporterVars>>

(* Stop() of the last component started that was not stopped yet: those of *)
(* gateways and netlink kill their tomb and wait, the daemon's one closes  *)
(* terminateChannel if need be, the reporter's one goes on with            *)
(* StopReporter.                                                           *)
StopComponent ==
    /\ main = "stopping"
    /\ waiting = "none"
    /\ started # <<>>
    /\ LET component == Head(started)
       IN  /\ waiting' = IF component = "daemon" THEN "none" ELSE component
           /\ gatewaysDying' = (gatewaysDying \/ component = "gateways")
           /\ netlinkDying' = (netlinkDying \/ component = "netlink")
           /\ terminated' = (terminated \/ component = "daemon")
    /\ started' = Tail(started)
    /\ UNCHANGED <<main, commandVars, signalVars, notifyVars, handlerVars, reporterVars>>

(* Mutant: the errors captured are not waited for. *)
StopReporterAtOnce ==
    /\ main = "stopping"
    /\ waiting = "reporter"
    /\ metrics \in {"started", "failed"}
    /\ sentry' = IF sentry = "open" THEN "closed" ELSE sentry
    /\ M!Stop
    /\ UNCHANGED <<reports, mainVars, signalVars, terminated, dyingVars,
                   notifyVars, handlerVars>>

(* What Sentry was given is sent before its queue is closed, and then the  *)
(* exporters are stopped.                                                  *)
StopReporter ==
    /\ main = "stopping"
    /\ waiting = "reporter"
    /\ metrics \in {"started", "failed"}
    /\ reports = 0
    /\ sentry' = IF sentry = "open" THEN "closed" ELSE sentry
    /\ M!Stop
    /\ UNCHANGED <<reports, mainVars, signalVars, terminated, dyingVars,
                   notifyVars, handlerVars>>

GatewaysDead == starter = N /\ \A i \in Gateways : handler[i] = "done"

(* The tomb of the component is dead: its goroutines have all returned. *)
Waited ==
    /\ main = "stopping"
    /\ \/ waiting = "gateways" /\ GatewaysDead
       \/ waiting = "netlink" /\ netlink = "done"
       \/ waiting = "reporter" /\ metrics = "stopped"
    /\ waiting' = "none"
    /\ UNCHANGED <<main, started, commandVars, signalVars, terminated,
                   dyingVars, notifyVars, handlerVars, reporterVars>>

Exits ==
    /\ main = "stopping"
    /\ waiting = "none"
    /\ started = <<>>
    /\ main' = "exited"
    /\ UNCHANGED <<started, waiting, commandVars, signalVars, terminated,
                   dyingVars, notifyVars, handlerVars, reporterVars>>

-----------------------------------------------------------------------------
(* Signals. *)

(* A signal nobody asked to be notified of ends the process; otherwise the *)
(* runtime drops it when the channel is full.                              *)
SendSignal(s) ==
    /\ ~Ended
    /\ s \notin sent
    /\ sent' = sent \cup {s}
    /\ main' = IF notified THEN main ELSE "killed"
    /\ signals' = IF notified /\ signals = <<>> THEN <<s>> ELSE signals
    /\ UNCHANGED <<started, waiting, commandVars, notified, signaller, terminated,
                   dyingVars, notifyVars, handlerVars, reporterVars>>

(* Mutant: the switch has no case for SIGTERM. *)
SignalReceivedOnly ==
    /\ ~Ended
    /\ signaller = "select"
    /\ signals # <<>>
    /\ signals' = <<>>
    /\ signaller' = "done"
    /\ UNCHANGED <<mainVars, sent, notified, terminated, dyingVars, notifyVars,
                   handlerVars, reporterVars>>

SignalNotify ==
    /\ ~Ended
    /\ signaller = "spawned"
    /\ signaller' = "select"
    /\ notified' = TRUE
    /\ UNCHANGED <<mainVars, sent, signals, terminated, dyingVars, notifyVars,
                   handlerVars, reporterVars>>

(* One signal is received, whatever it is; SIGHUP is only logged.  The     *)
(* other case, Terminated(), has no turn: nobody but this goroutine calls  *)
(* Terminate() before the components are stopped.                          *)
SignalReceived ==
    /\ ~Ended
    /\ signaller = "select"
    /\ signals # <<>>
    /\ signals' = <<>>
    /\ signaller' = "done"
    /\ \/ /\ Head(signals) = "TERM"
          /\ terminated' = TRUE
          /\ notified' = FALSE
       \/ /\ Head(signals) = "HUP"
          /\ UNCHANGED <<terminated, notified>>
    /\ UNCHANGED <<mainVars, sent, dyingVars, notifyVars, handlerVars, reporterVars>>

-----------------------------------------------------------------------------
(* The netlink goroutine and the callback of gateways.Start. *)

(* Mutant: the callback pushes without looking at the tomb. *)
NotifyAlways ==
    /\ ~Ended
    /\ netlink = "select"
    /\ netlink' = "callback"
    /\ at' = 1
    /\ UNCHANGED <<mainVars, signalVars, terminated, dyingVars, queue, late,
                   handlerVars, reporterVars>>

(* The tomb is looked at once for all the gateways. *)
Notify ==
    /\ ~Ended
    /\ netlink = "select"
    /\ ~gatewaysDying
    /\ netlink' = "callback"
    /\ at' = 1
    /\ UNCHANGED <<mainVars, signalVars, terminated, dyingVars, queue, late,
                   handlerVars, reporterVars>>

(* Mutant: the callback does not wait. *)
PushUnbounded ==
    /\ ~Ended
    /\ netlink = "callback"
    /\ queue' = [queue EXCEPT ![at] = @ + 1]
    /\ netlink' = "select"
    /\ UNCHANGED <<mainVars, signalVars, terminated, dyingVars, at, late,
                   handlerVars, reporterVars>>

(* pushNotification blocks while the channel is full. *)
Push ==
    /\ ~Ended
    /\ netlink = "callback"
    /\ queue[at] < QueueSize
    /\ queue' = [queue EXCEPT ![at] = @ + 1]
    /\ late' = IF gatewaysDying /\ late[at] < 2
               THEN [late EXCEPT ![at] = @ + 1] ELSE late
    /\ \/ at < N /\ at' = at + 1 /\ UNCHANGED netlink
       \/ at = N /\ netlink' = "select" /\ UNCHANGED at
    /\ UNCHANGED <<mainVars, signalVars, terminated, dyingVars, handlerVars, reporterVars>>

NetlinkDies ==
    /\ ~Ended
    /\ netlink = "select"
    /\ netlinkDying
    /\ netlink' = "done"
    /\ UNCHANGED <<mainVars, signalVars, terminated, dyingVars, at, queue,
                   late, handlerVars, reporterVars>>

-----------------------------------------------------------------------------
(* The goroutines of the gateways' tomb. *)

(* One turn of the loop that spawns the handlers. *)
SpawnHandler ==
    /\ ~Ended
    /\ netlink # "unborn"
    /\ starter < N
    /\ starter' = starter + 1
    /\ handler' = [handler EXCEPT ![starter'] = "spawned"]
    /\ UNCHANGED <<mainVars, signalVars, terminated, dyingVars, notifyVars,
                   reporterVars, handling>>

(* The closure reads the variable of the loop when it runs: it is where    *)
(* the loop is by then, or its own copy.                                   *)
HandlerStarts(i) ==
    /\ ~Ended
    /\ handler[i] = "spawned"
    /\ handler' = [handler EXCEPT ![i] = "running"]
    /\ handling' = [handling EXCEPT ![i] = IF SharedLoopVariables THEN starter ELSE i]
    /\ UNCHANGED <<mainVars, signalVars, terminated, dyingVars, notifyVars,
                   reporterVars, starter>>

HandlerTakes(i) ==
    /\ ~Ended
    /\ handler[i] = "running"
    /\ queue[handling[i]] > 0
    /\ queue' = [queue EXCEPT ![handling[i]] = @ - 1]
    /\ UNCHANGED <<mainVars, signalVars, terminated, dyingVars, netlink, at,
                   late, handlerVars, reporterVars>>

HandlerDies(i) ==
    /\ ~Ended
    /\ handler[i] = "running"
    /\ gatewaysDying
    /\ handler' = [handler EXCEPT ![i] = "done"]
    /\ UNCHANGED <<mainVars, signalVars, terminated, dyingVars, notifyVars,
                   reporterVars, starter, handling>>

(* newGateway keeps the address of the loop's variable, which holds the    *)
(* last configuration once the loop is over.                               *)
configuration(g) == IF SharedLoopVariables THEN N ELSE g

-----------------------------------------------------------------------------
(* The reporter. *)

(* The exporters: what the main goroutine does in Start() and Stop(), and  *)
(* their own goroutines.                                                   *)
Reporter(step) ==
    /\ ~Ended
    /\ step
    /\ UNCHANGED <<sentryVars, mainVars, signalVars, terminated, dyingVars,
                   notifyVars, handlerVars>>

(* An error goes to the queue of the Sentry client, and is lost when it is *)
(* full; to send on a closed channel would panic.                          *)
capture ==
    /\ sentry' = IF sentry = "closed" THEN "panicked" ELSE sentry
    /\ reports' = IF sentry = "open" /\ reports < MaxReports THEN reports + 1 ELSE reports
    /\ UNCHANGED <<mainVars, signalVars, terminated, dyingVars, notifyVars,
                   handlerVars, metrics, exporters, wg, done>>

(* An installation has failed for a minute. *)
HandlerFails == \E i \in Gateways : handler[i] = "running"

(* A transition of the state machine has failed, or its subscription. *)
NetlinkFails == netlink = "select"

ErrorReported ==
    /\ ~Ended
    /\ HandlerFails \/ NetlinkFails
    /\ capture

(* Nothing says that the server answers. *)
SentrySends ==
    /\ ~Ended
    /\ reports > 0
    /\ reports' = reports - 1
    /\ UNCHANGED <<sentry, mainVars, signalVars, terminated, dyingVars, notifyVars,
                   handlerVars, metrics, exporters, wg, done>>

-----------------------------------------------------------------------------
Main == Configure \/ MakeComponents \/ StartReporter \/ StartComponent \/ StartFails
        \/ Terminated \/ StopComponent \/ StopReporter \/ Waited \/ Exits

Signaller == SignalNotify \/ SignalReceived

Handler(i) == HandlerStarts(i) \/ HandlerTakes(i) \/ HandlerDies(i)

Next ==
    \/ Main
    \/ Reporter(M!Call)
    \/ \E i \in 1..Len(Exporters) :
          Reporter(M!Export(i) \/ M!Exported(i) \/ M!Close(i) \/ M!Done(i))
    \/ \E s \in Signals : SendSignal(s)
    \/ Signaller
    \/ Notify
    \/ Push
    \/ NetlinkDies
    \/ SpawnHandler
    \/ \E i \in Gateways : Handler(i)
    \/ ErrorReported
    \/ SentrySends

Spec == Init /\ [][Next]_vars

(* Every goroutine goes on when it can; select serves in the end a channel *)
(* that is ready, whatever others are: hence SF for an exporter that goes  *)
(* on exporting.  Nothing says that notifications or signals come, nor     *)
(* that the Sentry server answers.                                         *)
FairSpec ==
    /\ Spec
    /\ WF_vars(Main) /\ WF_vars(Reporter(M!Call)) /\ WF_vars(Signaller)
    /\ \A i \in 1..Len(Exporters) :
          /\ WF_vars(Reporter(M!Exported(i))) /\ SF_vars(Reporter(M!Close(i)))
          /\ WF_vars(Reporter(M!Done(i)))
    /\ WF_vars(Push) /\ WF_vars(NetlinkDies) /\ WF_vars(SpawnHandler)
    /\ \A i \in Gateways : WF_vars(HandlerStarts(i)) /\ WF_vars(HandlerTakes(i))
                           /\ WF_vars(HandlerDies(i))

-----------------------------------------------------------------------------
(* Components go after those that use them: no handler is there any more   *)
(* to call AddRoute when the netlink component stops, and no goroutine to  *)
(* notify or to report when the reporter stops.                            *)
UsersStopFirst ==
    /\ netlinkDying => GatewaysDead
    /\ metrics \in {"Stop", "stopped"} => netlink = "done" /\ GatewaysDead

(* When the program leaves, by itself or because an exporter could not be  *)
(* initialised, no file, socket or listener of the others is left open:    *)
(* each was closed by its own goroutine, between two exports.  No error    *)
(* captured is left unsent either.                                         *)
NothingLeftOpen ==
    main = "exited" => /\ \A i \in DOMAIN exporters : exporters[i] = "gone"
                       /\ reports = 0

(* Start() stops the exporters by itself when one fails; nobody stops them *)
(* again, which would close a closed channel.  Nor does a handler or the   *)
(* netlink goroutine report an error once the Sentry client is closed,     *)
(* which would send on a closed channel.                                   *)
NothingAfterClose == metrics # "panicked" /\ sentry # "panicked"

(* A callback that runs while the gateways are stopped pushes at most one  *)
(* notification to each: it does not fill channels that nobody reads.      *)
AtMostOneLate == \A g \in Gateways : late[g] <= 1

(* The callback waits for ever for a channel that nobody will read. *)
Blocked ==
    /\ netlink = "callback"
    /\ queue[at] = QueueSize
    /\ GatewaysDead

(* Stop() of the reporter waits for a Sentry server that may not answer. *)
Unanswered == waiting = "reporter" /\ reports > 0

(* Once SIGTERM is sent first, the process ends, from any point of its     *)
(* start or of a notification; a callback blocked on a full channel when   *)
(* the handlers left and a Sentry server that does not answer are the only *)
(* things that may prevent it.                                             *)
SignalEnds == sent = {"TERM"} ~> Ended \/ Blocked \/ Unanswered

(* "On signal, terminate" (daemon/root.go:53) and "Stop will disable the   *)
(* gateway component by stopping all goroutines" (gateways/root.go:63):    *)
(* Stop() returns in each component, and the process ends.                 *)
StopReturns == sent = {"TERM"} ~> Ended

(* "The above configuration will maintain a last resort default gateway    *)
(* for both IPv4 and IPv6" (docs/configuration.rst:155): each configured   *)
(* gateway has a handler of its own, which applies its configuration, in   *)
(* whatever order the goroutines start.                                    *)
EachGatewayMaintained ==
    (\A i \in Gateways : handler[i] = "running") =>
        \A c \in Gateways : \E i \in Gateways : configuration(handling[i]) = c

(* A file that is read and decodes to a configuration is never what makes  *)
(* the command fail: "The process will exit with status 0 in case of       *)
(* success or 1 in case of failure" (docs/usage.rst:21-22) of --check.     *)
ValidFileIsAccepted ==
    main = "exited" /\ file = "valid" => failure \in {"none", "components", "start"}
=============================================================================
