----------------------------- MODULE DaemonProofs -----------------------------
(***************************************************************************)
(* Start and stop of the process, for any number of gateways, any size of  *)
(* their channels, any exporters and both meanings of the loop variables.  *)
(***************************************************************************)
EXTENDS Daemon, FiniteSets, FiniteSetTheorems, SequenceTheorems, TLAPS

Names == {"reporter", "daemon", "netlink", "gateways"}

(* The stack of the components started is a prefix of the list of          *)
(* components, reversed: its length says all of it.                        *)
IsStack(s) ==
    /\ s \in Seq(Names)
    /\ Len(s) <= 4
    /\ \A k \in 1..Len(s) : s[k] = Components[Len(s) + 1 - k]

LEMMA ComponentsFacts ==
    /\ Components[1] = "reporter" /\ Components[2] = "daemon"
    /\ Components[3] = "netlink"  /\ Components[4] = "gateways"
    /\ \A n \in Nat : 1 <= n /\ n <= 4 => Components[n] \in Names
BY DEF Components, Names

(* Starting the next component pushes it. *)
LEMMA PushStack ==
    ASSUME NEW s, IsStack(s), Len(s) < 4
    PROVE  LET t == <<Components[Len(s) + 1]>> \o s
           IN  IsStack(t) /\ Len(t) = Len(s) + 1
<1> DEFINE c == Components[Len(s) + 1]
<1> DEFINE t == <<c>> \o s
<1>1. s \in Seq(Names) /\ Len(s) \in Nat /\ Len(s) + 1 <= 4
    BY LenProperties DEF IsStack
<1>2. c \in Names
    BY <1>1, ComponentsFacts
<1>3. <<c>> \in Seq(Names) /\ Len(<<c>>) = 1 /\ <<c>>[1] = c
    BY <1>2
<1>4. /\ t \in Seq(Names) /\ Len(t) = Len(s) + 1
      /\ \A i \in 1..(Len(s) + 1) : t[i] = IF i <= 1 THEN <<c>>[i] ELSE s[i - 1]
    <2> HIDE DEF c
    <2> QED BY <1>1, <1>3, ConcatProperties
<1>5. ASSUME NEW k \in 1..Len(t) PROVE t[k] = Components[Len(t) + 1 - k]
    <2> HIDE DEF t
    <2>1. CASE k = 1
        BY <1>1, <1>3, <1>4, <2>1
    <2>2. CASE k # 1
        <3>1. k - 1 \in 1..Len(s) /\ t[k] = s[k - 1]
            BY <1>1, <1>4, <2>2
        <3>2. s[k - 1] = Components[Len(s) + 1 - (k - 1)]
            BY <3>1 DEF IsStack
        <3>3. Len(s) + 1 - (k - 1) = Len(t) + 1 - k
            BY <1>1, <1>4
        <3> QED BY <3>1, <3>2, <3>3
    <2> QED BY <2>1, <2>2
<1> QED BY <1>1, <1>4, <1>5 DEF IsStack

(* Stopping pops the last one started. *)
LEMMA PopStack ==
    ASSUME NEW s, IsStack(s), s # <<>>
    PROVE  /\ Len(s) \in Nat /\ 1 <= Len(s) /\ Len(s) <= 4
           /\ Head(s) = Components[Len(s)]
           /\ IsStack(Tail(s)) /\ Len(Tail(s)) = Len(s) - 1
<1>1. s \in Seq(Names) /\ Len(s) \in Nat /\ 1 <= Len(s) /\ Len(s) <= 4
    BY EmptySeq DEF IsStack
<1> DEFINE t == Tail(s)
<1>2. /\ t \in Seq(Names) /\ Len(t) = Len(s) - 1
      /\ \A i \in 1..Len(t) : t[i] = s[i + 1]
    BY <1>1, HeadTailProperties
<1>3. Head(s) = s[1]
    BY <1>1
<1> HIDE DEF t
<1>4. ASSUME NEW k \in 1..Len(t) PROVE t[k] = Components[Len(t) + 1 - k]
    <2>1. t[k] = s[k + 1] /\ k + 1 \in 1..Len(s)
        BY <1>1, <1>2
    <2>2. s[k + 1] = Components[Len(s) + 1 - (k + 1)]
        BY <2>1 DEF IsStack
    <2>3. Len(s) + 1 - (k + 1) = Len(t) + 1 - k
        BY <1>1, <1>2
    <2> QED BY <2>1, <2>2, <2>3
<1>5. IsStack(t) /\ Len(t) = Len(s) - 1
    BY <1>1, <1>2, <1>4 DEF IsStack
<1>6. Head(s) = Components[Len(s)]
    BY <1>1, <1>3 DEF IsStack
<1> QED BY <1>1, <1>5, <1>6 DEF t

-----------------------------------------------------------------------------
Height == Len(started)

(* Where the main goroutine is, what it has stopped, and the exporters.    *)
Control ==
    /\ main \in {"configuring", "making", "starting", "running"} =>
          ~gatewaysDying /\ ~netlinkDying /\ waiting = "none"
    /\ main \in {"configuring", "making"} => Height = 0 /\ metrics = "new"
    /\ main = "starting" => Height < 4
    /\ main = "running" => Height = 4
    /\ main = "exited" => Height = 0 /\ waiting = "none"
    /\ Height > 0 => metrics = "started"
    /\ waiting # "none" => metrics # "failed"
    /\ waiting = "gateways" => Height = 3
    /\ waiting = "netlink" => Height = 2
    /\ waiting = "reporter" => Height = 0
    /\ gatewaysDying =>
          Height <= 3 /\ (waiting = "gateways" \/ GatewaysDead)
    /\ netlinkDying =>
          Height <= 2 /\ GatewaysDead /\ (waiting = "netlink" \/ netlink = "done")
    /\ main = "stopping" /\ metrics # "failed" =>
          /\ Height <= 3 => gatewaysDying
          /\ Height <= 2 => netlinkDying
    /\ metrics \in {"Stop", "stopped"} => netlinkDying /\ netlink = "done" /\ Height = 0
    /\ metrics \in {"new", "Start", "failing"} =>
          main \in {"configuring", "making", "starting", "killed", "exited"}
    /\ done => metrics \in {"failing", "failed", "Stop", "stopped"}
    /\ metrics # "panicked"
    /\ main \in {"stopping", "exited"} /\ Height = 0 /\ waiting # "reporter" =>
          metrics \in {"new", "failed", "stopped"}

LEMMA HeightIsNat == ASSUME IsStack(started) PROVE Height \in Nat
BY LenProperties DEF IsStack, Height

(* The handlers and the netlink goroutine that have left do not come back. *)
LEMMA TheDeadStayDead ==
    ASSUME TypeOK, [Next]_vars
    PROVE  /\ GatewaysDead => GatewaysDead'
           /\ netlink = "done" /\ main # "starting" => netlink' = "done"
<1> USE SizeType
<1>1. CASE \E i \in Gateways : Handler(i)
    BY <1>1 DEF Handler, HandlerStarts, HandlerTakes, HandlerDies, GatewaysDead,
                TypeOK, notifyVars
<1>2. CASE SpawnHandler
    BY <1>2 DEF SpawnHandler, GatewaysDead, TypeOK, notifyVars
<1>3. CASE StartComponent
    BY <1>3 DEF StartComponent, GatewaysDead, handlerVars
<1>4. CASE Notify \/ Push \/ NetlinkDies
    BY <1>4 DEF Notify, Push, NetlinkDies, GatewaysDead, handlerVars
<1>5. CASE UNCHANGED <<notifyVars, handlerVars>>
    BY <1>5 DEF GatewaysDead, handlerVars, notifyVars
<1>6. ASSUME Next
      PROVE  \/ \E i \in Gateways : Handler(i)
             \/ SpawnHandler \/ StartComponent
             \/ Notify \/ Push \/ NetlinkDies
             \/ UNCHANGED <<notifyVars, handlerVars>>
    BY <1>6 DEF Next, Main, Configure, MakeComponents, StartReporter, StartFails,
                Terminated, StopComponent, StopReporter, Waited, Exits, Reporter,
                SendSignal, Signaller, SignalNotify, SignalReceived, ErrorReported,
                capture, SentrySends
<1> QED BY <1>1, <1>2, <1>3, <1>4, <1>5, <1>6 DEF vars

LEMMA InitControl == Init => Control /\ IsStack(started)
<1> SUFFICES ASSUME Init PROVE Control /\ IsStack(started)
    OBVIOUS
<1>1. started = <<>> /\ Len(started) = 0
    BY DEF Init
<1> QED BY <1>1 DEF Init, Control, IsStack, Height, M!Init

(* Each step keeps the control. *)
LEMMA NextControl ==
    ASSUME TypeOK, IsStack(started), Control, [Next]_vars
    PROVE  IsStack(started)' /\ Control'
<1> USE DEF Control
<1>0. started' = started => Height' = Height /\ IsStack(started)'
    BY DEF Height
<1>1. Height \in Nat
    BY HeightIsNat
<1>2. /\ GatewaysDead => GatewaysDead'
      /\ netlink = "done" /\ main # "starting" => netlink' = "done"
    BY TheDeadStayDead
<1>3. CASE Configure
    BY <1>0, <1>1, <1>2, <1>3 DEF Configure, exitWith, dyingVars, notifyVars,
            handlerVars, reporterVars
<1>4. CASE StartReporter
    BY <1>0, <1>1, <1>2, <1>4 DEF StartReporter, M!Start, mainVars, dyingVars
<1>18. CASE MakeComponents
    BY <1>0, <1>1, <1>2, <1>18 DEF MakeComponents, exitWith, dyingVars, notifyVars,
            handlerVars
<1>5. CASE StartComponent
    <2>1. Height < 4 /\ IsStack(started') /\ Height' = Height + 1
        BY <1>5, PushStack DEF StartComponent, Height
    <2>2. Components[Height + 1] = "gateways" <=> Height = 3
        <3>1. Height = 0 \/ Height = 1 \/ Height = 2 \/ Height = 3
            BY <1>1, <2>1
        <3>2. CASE Height = 3
            BY <3>2, ComponentsFacts
        <3>3. CASE Height # 3
            <4>1. Height + 1 = 1 \/ Height + 1 = 2 \/ Height + 1 = 3
                BY <3>1, <3>3
            <4> QED BY <3>3, <4>1, ComponentsFacts
        <3> QED BY <3>2, <3>3
    <2> DEFINE component == Components[Height + 1]
    <2>3. /\ main = "starting" /\ metrics = "started"
          /\ main' = IF component = "gateways" THEN "running" ELSE "starting"
          /\ netlink' = IF component = "gateways" THEN "select" ELSE netlink
          /\ waiting' = waiting
          /\ UNCHANGED dyingVars /\ UNCHANGED handlerVars /\ UNCHANGED reporterVars
        BY <1>5 DEF StartComponent, Height
    <2> HIDE DEF component
    <2>4. component = "gateways" <=> Height = 3
        BY <2>2 DEF component
    <2>5. ~gatewaysDying' /\ ~netlinkDying' /\ waiting' = "none"
        BY <2>3 DEF dyingVars
    <2>6. metrics' = "started" /\ ~done'
        BY <2>3 DEF reporterVars
    <2>7. \/ main' = "starting" /\ Height' < 4
          \/ main' = "running" /\ Height' = 4
        BY <1>1, <2>1, <2>3, <2>4
    <2> QED BY <1>1, <2>1, <2>5, <2>6, <2>7
<1>6. CASE StartFails
    BY <1>0, <1>1, <1>2, <1>6 DEF StartFails, dyingVars, notifyVars, handlerVars, reporterVars
<1>7. CASE Terminated
    BY <1>0, <1>1, <1>2, <1>7 DEF Terminated, dyingVars, notifyVars, handlerVars, reporterVars
<1>8. CASE StopComponent
    <2>1. /\ Head(started) = Components[Height]
          /\ 1 <= Height /\ Height <= 4
          /\ IsStack(started') /\ Height' = Height - 1
        BY <1>8, PopStack DEF StopComponent, Height
    <2>2. main = "stopping" /\ waiting = "none" /\ metrics = "started" /\ ~done
        BY <1>1, <1>8, <2>1 DEF StopComponent
    <2> DEFINE component == Head(started)
    <2>3. /\ waiting' = IF component = "daemon" THEN "none" ELSE component
          /\ main' = main /\ netlink' = netlink
        BY <1>8 DEF StopComponent, notifyVars
    <2>4. /\ gatewaysDying' <=> gatewaysDying \/ component = "gateways"
          /\ netlinkDying' <=> netlinkDying \/ component = "netlink"
        BY <1>8, Zenon DEF StopComponent
    <2>6. metrics' = metrics /\ done' = done
        BY <1>8 DEF StopComponent, reporterVars
    <2>8. component = Components[Height]
        BY <2>1
    <2> HIDE DEF component
    <2>9. CASE Height = 4
        <3>1. component = "gateways"
            BY <2>8, <2>9, ComponentsFacts
        <3>2. Height' = 3 /\ main' = "stopping" /\ waiting' = "gateways"
              /\ gatewaysDying' /\ ~netlinkDying' /\ metrics' = "started" /\ ~done'
            BY <1>2, <2>1, <2>2, <2>3, <2>4, <2>6, <2>9, <3>1
        <3>3. IsStack(started)'
            BY <2>1
        <3>4. Control'
            BY <3>2, SMTT(30)
        <3> QED BY <3>3, <3>4
    <2>10. CASE Height = 3
        <3>1. component = "netlink"
            BY <2>8, <2>10, ComponentsFacts
        <3>2. Height' = 2 /\ main' = "stopping" /\ waiting' = "netlink"
              /\ gatewaysDying' /\ netlinkDying' /\ metrics' = "started" /\ ~done'
              /\ GatewaysDead'
            BY <1>2, <2>1, <2>2, <2>3, <2>4, <2>6, <2>10, <3>1
        <3>3. IsStack(started)'
            BY <2>1
        <3>4. Control'
            BY <3>2, SMTT(30)
        <3> QED BY <3>3, <3>4
    <2>11. CASE Height = 2
        <3>1. component = "daemon"
            BY <2>8, <2>11, ComponentsFacts
        <3>2. Height' = 1 /\ main' = "stopping" /\ waiting' = "none"
              /\ gatewaysDying' /\ netlinkDying' /\ metrics' = "started" /\ ~done'
              /\ GatewaysDead' /\ netlink' = "done"
            BY <1>2, <2>1, <2>2, <2>3, <2>4, <2>6, <2>11, <3>1
        <3>3. IsStack(started)'
            BY <2>1
        <3>4. Control'
            BY <3>2, SMTT(30)
        <3> QED BY <3>3, <3>4
    <2>12. CASE Height = 1
        <3>1. component = "reporter"
            BY <2>8, <2>12, ComponentsFacts
        <3>2. Height' = 0 /\ main' = "stopping" /\ waiting' = "reporter"
              /\ gatewaysDying' /\ netlinkDying' /\ metrics' = "started" /\ ~done'
              /\ GatewaysDead' /\ netlink' = "done"
            BY <1>2, <2>1, <2>2, <2>3, <2>4, <2>6, <2>12, <3>1
        <3>3. IsStack(started)'
            BY <2>1
        <3>4. Control'
            BY <3>2, SMTT(30)
        <3> QED BY <3>3, <3>4
    <2> QED BY <1>1, <2>1, <2>9, <2>10, <2>11, <2>12
<1>19. CASE StopReporter
    <2>1. /\ main = "stopping" /\ waiting = "reporter" /\ metrics = "started"
          /\ Height = 0 /\ ~done
          /\ gatewaysDying /\ netlinkDying /\ GatewaysDead /\ netlink = "done"
        BY <1>1, <1>19 DEF StopReporter
    <2>2. metrics' = "Stop" /\ done' = TRUE
        BY <1>19, <2>1 DEF StopReporter, M!Stop, M!closeDone
    <2>3. /\ main' = main /\ waiting' = waiting /\ started' = started
          /\ UNCHANGED <<gatewaysDying, netlinkDying, netlink>>
        BY <1>19 DEF StopReporter, mainVars, dyingVars, notifyVars
    <2>4. Height' = 0 /\ GatewaysDead' /\ IsStack(started)'
        BY <1>0, <1>2, <2>1, <2>3
    <2> QED BY <2>1, <2>2, <2>3, <2>4, SMTT(30)
<1>9. CASE Waited
    BY <1>0, <1>1, <1>2, <1>9 DEF Waited, dyingVars, notifyVars, handlerVars, reporterVars
<1>10. CASE Exits
    <2>1. Height = 0
        BY <1>10 DEF Exits, Height
    <2> QED BY <1>0, <1>2, <1>10, <2>1 DEF Exits, dyingVars, notifyVars, handlerVars, reporterVars
<1>11. CASE Reporter(M!Call)
    <2>1. /\ main' = main /\ started' = started /\ waiting' = waiting
          /\ UNCHANGED <<gatewaysDying, netlinkDying, netlink>>
          /\ main # "exited" /\ main # "killed"
        BY <1>11 DEF Reporter, Ended, mainVars, dyingVars, notifyVars
    <2>2. \/ metrics = "Start" /\ UNCHANGED <<metrics, done>>
          \/ metrics = "Start" /\ metrics' = "started" /\ done' = done
          \/ metrics = "Start" /\ metrics' = "failing" /\ done'
          \/ metrics = "failing" /\ metrics' = "failed" /\ done' = done
          \/ metrics = "Stop" /\ metrics' = "stopped" /\ done' = done
        BY <1>11 DEF Reporter, M!Call, M!initExporter, M!closeDone, M!Started, M!Waited
    <2>3. metrics = "failing" => waiting = "none"
        BY <2>1
    <2> QED BY <1>0, <1>1, <1>2, <2>1, <2>2, <2>3, SMTT(30)
<1>12. ASSUME NEW i \in 1..Len(Exporters),
              Reporter(M!Export(i) \/ M!Exported(i) \/ M!Close(i) \/ M!Done(i))
       PROVE  IsStack(started)' /\ Control'
    BY <1>0, <1>1, <1>2, <1>12 DEF Reporter, M!Export, M!Exported, M!Close, M!Done,
            mainVars, dyingVars, notifyVars, handlerVars
<1>13. ASSUME NEW s \in Signals, SendSignal(s)
       PROVE  IsStack(started)' /\ Control'
    BY <1>0, <1>1, <1>2, <1>13 DEF SendSignal, dyingVars, notifyVars, handlerVars, reporterVars
<1>14. CASE UNCHANGED <<main, started, waiting, dyingVars, metrics, exporters, wg, done>>
            /\ (netlink' = netlink \/ netlink # "done")
    BY <1>0, <1>1, <1>2, <1>14 DEF dyingVars, reporterVars
<1>15. CASE Signaller \/ Notify \/ Push \/ NetlinkDies \/ SpawnHandler
    BY <1>14, <1>15 DEF Signaller, SignalNotify, SignalReceived, Notify, Push,
            NetlinkDies, SpawnHandler, mainVars, dyingVars, notifyVars, reporterVars
<1>20. CASE ErrorReported \/ SentrySends
    BY <1>14, <1>20 DEF ErrorReported, capture, SentrySends, mainVars, dyingVars,
            notifyVars
<1>16. ASSUME NEW i \in Gateways, Handler(i)
       PROVE  IsStack(started)' /\ Control'
    BY <1>14, <1>16 DEF Handler, HandlerStarts, HandlerTakes, HandlerDies,
            mainVars, dyingVars, notifyVars, reporterVars
<1>17. CASE UNCHANGED vars
    BY <1>14, <1>17 DEF vars, mainVars, notifyVars, reporterVars
<1> QED BY <1>3, <1>4, <1>5, <1>6, <1>7, <1>8, <1>9, <1>10, <1>11, <1>12, <1>13,
           <1>15, <1>16, <1>17, <1>18, <1>19, <1>20 DEF Next, Main

-----------------------------------------------------------------------------
(* A handler's goroutine is there once the loop has reached it. *)
Spawned == \A i \in Gateways : handler[i] # "unborn" => i <= starter

(* The wait group counts the goroutines of the exporters, and Start() and  *)
(* Stop() return once there are none.                                      *)
AliveIn(e) == {i \in DOMAIN e : e[i] # "gone"}

Counted ==
    /\ wg = Cardinality(AliveIn(exporters))
    /\ metrics = "new" => exporters = <<>>
    /\ metrics \in {"failed", "stopped"} => wg = 0

(* Errors are reported by the netlink goroutine and the handlers, which    *)
(* live while the reporter does.                                           *)
Reported ==
    /\ netlink = "unborn" => starter = 0
    /\ netlink # "unborn" => metrics \in {"started", "Stop", "stopped"}
    /\ reports # 0 => sentry = "open" /\ metrics = "started"
    /\ sentry = "closed" => netlinkDying /\ netlink = "done"
    /\ sentry # "panicked"

(* Nothing is pushed late but by the callback that was running, which goes *)
(* through the gateways once.                                              *)
Late ==
    /\ \A g \in Gateways : late[g] <= 1
    /\ ~gatewaysDying => \A g \in Gateways : late[g] = 0
    /\ netlink = "callback" => \A g \in Gateways : g >= at => late[g] = 0

IInv == TypeOK /\ IsStack(started) /\ Control /\ Spawned /\ Counted /\ Reported /\ Late

LEMMA InitIInv == Init => IInv
<1> SUFFICES ASSUME Init PROVE IInv
    OBVIOUS
<1> USE SizeType
<1>1. TypeOK
    <2>1. M!TypeOK
        <3>1. Len(Exporters) \in Nat
            BY ExportersType, LenProperties
        <3>2. exporters = <<>> /\ wg = 0 /\ metrics = "new" /\ done = FALSE
            BY DEF Init, M!Init
        <3>3. Len(exporters) = 0 /\ exporters \in Seq({"idle", "exporting", "closed", "gone"})
            BY <3>2, SMTT(30)
        <3>4. Len(exporters) <= Len(Exporters) /\ wg \in 0..Len(Exporters)
            BY <3>1, <3>2, <3>3
        <3> QED BY <3>2, <3>3, <3>4 DEF M!TypeOK
    <2>2. started \in Seq(Names) /\ signals \in Seq(Signals) /\ Len(signals) = 0
        BY DEF Init
    <2>3. {notified, terminated, netlinkDying, gatewaysDying} \subseteq BOOLEAN
        BY DEF Init
    <2>4. at \in Gateways /\ starter \in 0..N
        BY DEF Init, Gateways
    <2>5. /\ handler \in [Gateways -> {"unborn", "spawned", "running", "done"}]
          /\ handling \in [Gateways -> Gateways]
          /\ queue \in [Gateways -> 0..QueueSize]
          /\ late \in [Gateways -> 0..2]
        BY DEF Init
    <2>6. reports \in 0..MaxReports
        BY CommandType DEF Init
    <2> QED BY <2>1, <2>2, <2>3, <2>4, <2>5, <2>6 DEF Init, TypeOK, Names
<1>2. Control /\ IsStack(started)
    BY InitControl
<1>3. Spawned
    BY DEF Init, Spawned
<1>4. Counted
    <2>1. exporters = <<>> /\ wg = 0 /\ metrics = "new"
        BY DEF Init, M!Init
    <2>2. AliveIn(exporters) = {}
        BY <2>1 DEF AliveIn
    <2> QED BY <2>1, <2>2, FS_EmptySet DEF Counted
<1>5. Late
    BY DEF Init, Late
<1>6. Reported
    BY DEF Init, Reported
<1> QED BY <1>1, <1>2, <1>3, <1>4, <1>5, <1>6 DEF IInv

LEMMA NextSpawned ==
    ASSUME TypeOK, Spawned, [Next]_vars
    PROVE  Spawned'
<1> USE SizeType
<1>1. CASE \E i \in Gateways : Handler(i)
    BY <1>1 DEF Handler, HandlerStarts, HandlerTakes, HandlerDies, Spawned,
                TypeOK, handlerVars
<1>2. CASE SpawnHandler
    BY <1>2 DEF SpawnHandler, Spawned, TypeOK, Gateways
<1>3. CASE UNCHANGED handlerVars
    BY <1>3 DEF Spawned, handlerVars
<1>4. ASSUME Next
      PROVE  (\E i \in Gateways : Handler(i)) \/ SpawnHandler \/ UNCHANGED handlerVars
    BY <1>4 DEF Next, Main, Configure, MakeComponents, StartReporter, StartComponent,
                StartFails, Terminated, StopComponent, StopReporter, Waited, Exits,
                Reporter, SendSignal, Signaller, SignalNotify, SignalReceived, Notify,
                Push, NetlinkDies, ErrorReported, capture, SentrySends
<1> QED BY <1>1, <1>2, <1>3, <1>4 DEF vars

LEMMA NextLate ==
    ASSUME TypeOK, Control, Late, [Next]_vars
    PROVE  Late'
<1> USE SizeType
<1>1. CASE StartComponent
    <2>1. /\ late' = late /\ at' = at
          /\ netlink' = netlink \/ netlink' = "select"
          /\ gatewaysDying' = gatewaysDying
        BY <1>1 DEF StartComponent, dyingVars
    <2> QED BY <2>1 DEF Late
<1>2. CASE StopComponent
    <2>1. /\ late' = late /\ at' = at /\ netlink' = netlink
          /\ gatewaysDying => gatewaysDying'
        BY <1>2, Zenon DEF StopComponent, notifyVars
    <2> QED BY <2>1 DEF Late
<1>3. CASE Notify
    BY <1>3 DEF Notify, Late, dyingVars, TypeOK
<1>4. CASE Push
    <2>1. ~gatewaysDying => late' = late
        BY <1>4 DEF Push
    <2>2. gatewaysDying => late' = [late EXCEPT ![at] = 1]
        <3>1. at \in Gateways /\ netlink = "callback"
            BY <1>4 DEF Push, TypeOK
        <3>2. late[at] = 0 /\ at \in Nat
            BY <3>1 DEF Late, Gateways
        <3> QED BY <1>4, <3>2 DEF Push
    <2>3. /\ netlink = "callback" /\ gatewaysDying' = gatewaysDying
          /\ at' = at + 1 \/ netlink' = "select"
        BY <1>4 DEF Push, dyingVars
    <2>4. at \in Nat /\ late \in [Gateways -> 0..2]
        BY DEF TypeOK, Gateways
    <2> QED BY <2>1, <2>2, <2>3, <2>4 DEF Late, Gateways
<1>5. CASE NetlinkDies
    BY <1>5 DEF NetlinkDies, Late, dyingVars
<1>6. CASE UNCHANGED <<notifyVars, dyingVars>>
    BY <1>6 DEF Late, notifyVars, dyingVars
<1>7. CASE \E i \in Gateways : HandlerTakes(i)
    BY <1>7 DEF HandlerTakes, Late, dyingVars
<1>8. ASSUME Next
      PROVE  \/ StartComponent \/ StopComponent \/ Notify \/ Push \/ NetlinkDies
             \/ \E i \in Gateways : HandlerTakes(i)
             \/ UNCHANGED <<notifyVars, dyingVars>>
    BY <1>8 DEF Next, Main, Configure, MakeComponents, StartReporter, StartFails,
                Terminated, StopReporter, Waited, Exits, Reporter, SendSignal,
                Signaller, SignalNotify, SignalReceived, SpawnHandler, Handler,
                HandlerStarts, HandlerDies, ErrorReported, capture, SentrySends
<1> QED BY <1>1, <1>2, <1>3, <1>4, <1>5, <1>6, <1>7, <1>8 DEF vars

Goroutines == {"idle", "exporting", "closed", "gone"}

LEMMA AliveAreCounted ==
    ASSUME NEW e \in Seq(Goroutines)
    PROVE  /\ IsFiniteSet(AliveIn(e))
           /\ Cardinality(AliveIn(e)) \in Nat
           /\ Cardinality(AliveIn(e)) <= Len(e)
<1>1. Len(e) \in Nat /\ DOMAIN e = 1..Len(e)
    BY LenProperties
<1>2. IsFiniteSet(1..Len(e)) /\ Cardinality(1..Len(e)) = Len(e)
    BY <1>1, FS_Interval
<1>3. AliveIn(e) \in SUBSET (1..Len(e))
    BY <1>1 DEF AliveIn
<1> QED BY <1>2, <1>3, FS_Subset, FS_CardinalityType

(* A new exporter is one more, one that has left is one less, and nothing  *)
(* else counts.                                                            *)
LEMMA OneMore ==
    ASSUME NEW e \in Seq(Goroutines)
    PROVE  LET f == Append(e, "idle")
           IN  /\ f \in Seq(Goroutines) /\ Len(f) = Len(e) + 1
               /\ Cardinality(AliveIn(f)) = Cardinality(AliveIn(e)) + 1
<1> DEFINE f == Append(e, "idle")
<1>1. /\ f \in Seq(Goroutines) /\ Len(f) = Len(e) + 1
      /\ \A i \in 1..Len(e) : f[i] = e[i]
      /\ f[Len(e) + 1] = "idle"
    <2>1. "idle" \in Goroutines
        BY DEF Goroutines
    <2> QED BY <2>1, AppendProperties
<1> HIDE DEF f
<1>2. /\ Len(e) \in Nat
      /\ DOMAIN e = 1..Len(e) /\ DOMAIN f = 1..(Len(e) + 1)
    BY <1>1, LenProperties
<1>3. AliveIn(f) = AliveIn(e) \cup {Len(e) + 1}
    BY <1>1, <1>2 DEF AliveIn
<1>4. Len(e) + 1 \notin AliveIn(e)
    BY <1>2 DEF AliveIn
<1>5. Cardinality(AliveIn(f)) = Cardinality(AliveIn(e)) + 1
    BY <1>3, <1>4, AliveAreCounted, FS_AddElement
<1> QED BY <1>1, <1>5 DEF f

LEMMA OneChanges ==
    ASSUME NEW e \in Seq(Goroutines), NEW i \in DOMAIN e, e[i] # "gone",
           NEW g \in Goroutines
    PROVE  LET f == [e EXCEPT ![i] = g]
           IN  /\ f \in Seq(Goroutines) /\ Len(f) = Len(e)
               /\ Cardinality(AliveIn(f)) =
                     IF g = "gone" THEN Cardinality(AliveIn(e)) - 1
                                   ELSE Cardinality(AliveIn(e))
<1> DEFINE f == [e EXCEPT ![i] = g]
<1>1. Len(e) \in Nat /\ DOMAIN e = 1..Len(e)
    BY LenProperties
<1>2. /\ f \in Seq(Goroutines) /\ Len(f) = Len(e)
      /\ \A j \in 1..Len(e) : f[j] = IF j = i THEN g ELSE e[j]
    BY <1>1, ExceptSeq
<1>3. DOMAIN f = DOMAIN e
    OBVIOUS
<1> HIDE DEF f
<1>4. CASE g = "gone"
    <2>1. AliveIn(f) = AliveIn(e) \ {i} /\ i \in AliveIn(e)
        BY <1>1, <1>2, <1>3, <1>4 DEF AliveIn
    <2>2. Cardinality(AliveIn(f)) = Cardinality(AliveIn(e)) - 1
        BY <2>1, AliveAreCounted, FS_RemoveElement
    <2> QED BY <1>2, <1>4, <2>2 DEF f
<1>5. CASE g # "gone"
    <2>1. AliveIn(f) = AliveIn(e)
        BY <1>1, <1>2, <1>3, <1>5 DEF AliveIn
    <2> QED BY <1>2, <1>5, <2>1 DEF f
<1> QED BY <1>4, <1>5

LEMMA NextExporters ==
    ASSUME TypeOK, Counted, [Next]_vars
    PROVE  M!TypeOK' /\ Counted'
<1>1. /\ exporters \in Seq(Goroutines) /\ Len(exporters) <= Len(Exporters)
      /\ metrics \in {"new", "Start", "started", "failing", "failed", "Stop",
                      "stopped", "panicked"}
      /\ done \in BOOLEAN
    BY DEF TypeOK, M!TypeOK, Goroutines
<1>2. Len(Exporters) \in Nat /\ Len(exporters) \in Nat
    BY <1>1, ExportersType, LenProperties
<1> DEFINE Ok ==
      /\ exporters' \in Seq(Goroutines) /\ Len(exporters') <= Len(Exporters)
      /\ metrics' \in {"new", "Start", "started", "failing", "failed", "Stop",
                       "stopped", "panicked"}
      /\ done' \in BOOLEAN
      /\ wg' = Cardinality(AliveIn(exporters'))
      /\ metrics' = "new" => exporters' = <<>>
      /\ metrics' \in {"failed", "stopped"} => wg' = 0
<1>3. SUFFICES Ok
    <2>1. ASSUME Ok
          PROVE  wg' \in 0..Len(Exporters)
        <3>1. /\ Cardinality(AliveIn(exporters')) \in Nat
              /\ Cardinality(AliveIn(exporters')) <= Len(exporters')
            BY <2>1, AliveAreCounted
        <3>2. Len(exporters') \in Nat
            BY <2>1, LenProperties
        <3> QED BY <1>2, <2>1, <3>1, <3>2
    <2> QED BY <2>1 DEF M!TypeOK, Counted, Goroutines
<1>4. CASE UNCHANGED <<metrics, exporters, wg, done>>
    BY <1>1, <1>4 DEF Counted
<1>5. CASE M!Start
    BY <1>1, <1>5 DEF M!Start, Counted
<1>6. CASE M!Stop
    BY <1>1, <1>6 DEF M!Stop, M!closeDone, Counted
<1>7. CASE M!initExporter
    <2>1. CASE exporters' = Append(exporters, "idle") /\ wg' = wg + 1
               /\ UNCHANGED <<metrics, done>>
        <3>1. /\ exporters' \in Seq(Goroutines)
              /\ Len(exporters') = Len(exporters) + 1
              /\ wg' = Cardinality(AliveIn(exporters'))
            BY <1>1, <2>1, OneMore DEF Counted
        <3> QED BY <1>1, <1>2, <1>7, <2>1, <3>1 DEF M!initExporter
    <2>2. CASE M!closeDone("failing") /\ UNCHANGED <<exporters, wg>>
        BY <1>1, <2>2 DEF M!closeDone, Counted
    <2> QED BY <1>7, <2>1, <2>2 DEF M!initExporter
<1>8. CASE M!Started \/ M!Waited
    BY <1>1, <1>8 DEF M!Started, M!Waited, Counted
<1>9. ASSUME NEW i \in 1..Len(Exporters),
             M!Export(i) \/ M!Exported(i) \/ M!Close(i) \/ M!Done(i)
      PROVE  Ok
    <2>1. PICK g \in Goroutines :
              /\ i \in DOMAIN exporters /\ exporters[i] # "gone"
              /\ exporters' = [exporters EXCEPT ![i] = g]
              /\ wg' = IF g = "gone" THEN wg - 1 ELSE wg
              /\ UNCHANGED <<metrics, done>>
        BY <1>9 DEF M!Export, M!Exported, M!Close, M!Done, M!becomes, Goroutines
    <2>2. /\ exporters' \in Seq(Goroutines) /\ Len(exporters') = Len(exporters)
          /\ wg' = Cardinality(AliveIn(exporters'))
        BY <1>1, <2>1, OneChanges DEF Counted
    <2>3. exporters # <<>>
        BY <2>1
    <2>4. metrics' \notin {"failed", "stopped"}
        <3>1. i \in AliveIn(exporters)
            BY <2>1 DEF AliveIn
        <3>2. Cardinality(AliveIn(exporters)) # 0
            BY <1>1, <3>1, AliveAreCounted, FS_EmptySet
        <3> QED BY <2>1, <3>2 DEF Counted
    <2> QED BY <1>1, <2>1, <2>2, <2>3, <2>4 DEF Counted
<1>10. ASSUME Next
       PROVE  \/ UNCHANGED <<metrics, exporters, wg, done>>
              \/ M!Start \/ M!Stop \/ M!initExporter \/ M!Started \/ M!Waited
              \/ \E i \in 1..Len(Exporters) :
                    M!Export(i) \/ M!Exported(i) \/ M!Close(i) \/ M!Done(i)
    BY <1>10 DEF Next, Main, Configure, MakeComponents, StartReporter, StartComponent,
                StartFails, Terminated, StopComponent, StopReporter, Waited, Exits,
                Reporter, SendSignal, Signaller, SignalNotify, SignalReceived, Notify,
                Push, NetlinkDies, SpawnHandler, Handler, HandlerStarts, HandlerTakes,
                HandlerDies, ErrorReported, capture, SentrySends, M!Call, reporterVars
<1> QED BY <1>4, <1>5, <1>6, <1>7, <1>8, <1>9, <1>10 DEF vars, reporterVars

(* The types, one part of the state after the other. *)
LEMMA NextMainTypes ==
    ASSUME TypeOK, [Next]_vars
    PROVE  /\ main' \in {"configuring", "making", "starting", "running", "stopping",
                         "exited", "killed"}
           /\ sent' \subseteq Signals
           /\ signaller' \in {"unborn", "spawned", "select", "done"}
           /\ signals' \in Seq(Signals) /\ Len(signals') <= 1
<1>1. ASSUME NEW s \in Signals, SendSignal(s)
      PROVE  /\ main' \in {main, "killed"} /\ sent' \subseteq Signals
             /\ signaller' = signaller
             /\ signals' \in Seq(Signals) /\ Len(signals') <= 1
    <2>1. <<s>> \in Seq(Signals) /\ Len(<<s>>) = 1
        OBVIOUS
    <2>2. signals' = <<s>> \/ signals' = signals
        BY <1>1 DEF SendSignal
    <2>3. signals \in Seq(Signals) /\ Len(signals) <= 1
        BY DEF TypeOK
    <2>4. CASE signals' = <<s>>
        <3>1. signals' \in Seq(Signals) /\ Len(signals') = 1
            BY <2>1, <2>4, Zenon
        <3> QED BY <1>1, <3>1 DEF SendSignal, TypeOK
    <2>5. CASE signals' = signals
        <3>1. signals' \in Seq(Signals) /\ Len(signals') <= 1
            BY <2>3, <2>5, Zenon
        <3> QED BY <1>1, <3>1 DEF SendSignal, TypeOK
    <2> QED BY <2>2, <2>4, <2>5
<1>2. ASSUME signals' = <<>> \/ signals' = signals
      PROVE  signals' \in Seq(Signals) /\ Len(signals') <= 1
    <2>1. CASE signals' = <<>>
        <3>1. <<>> \in Seq(Signals) /\ Len(<<>>) = 0
            OBVIOUS
        <3>2. signals' \in Seq(Signals) /\ Len(signals') = 0
            BY <2>1, <3>1, Zenon
        <3> QED BY <3>2
    <2>2. CASE signals' = signals
        <3>1. signals \in Seq(Signals) /\ Len(signals) <= 1
            BY DEF TypeOK
        <3> QED BY <2>2, <3>1, Zenon
    <2> QED BY <1>2, <2>1, <2>2
<1>3. ASSUME Next
      PROVE  \/ \E s \in Signals : SendSignal(s)
             \/ /\ main' \in {"making", "starting", "running", "stopping", "exited", main}
                /\ sent' = sent
                /\ signaller' \in {"spawned", "select", "done", signaller}
                /\ signals' = <<>> \/ signals' = signals
    BY <1>3 DEF Next, mainVars, signalVars, Main, Configure, MakeComponents, exitWith,
       StartReporter, StartComponent, StartFails, Terminated, StopComponent,
       StopReporter, Waited, Exits, ErrorReported, capture, SentrySends,
       Reporter, Signaller, SignalNotify, SignalReceived, Notify, Push,
       NetlinkDies, SpawnHandler, Handler, HandlerStarts, HandlerTakes, HandlerDies
<1>4. CASE UNCHANGED vars
    BY <1>4 DEF vars, mainVars, signalVars, TypeOK
<1>5. CASE Next
    <2>1. CASE \E s \in Signals : SendSignal(s)
        BY <1>1, <2>1 DEF TypeOK
    <2>2. CASE ~ \E s \in Signals : SendSignal(s)
        BY <1>2, <1>3, <1>5, <2>2 DEF TypeOK
    <2> QED BY <2>1, <2>2
<1> QED BY <1>4, <1>5

LEMMA NextFlags ==
    ASSUME TypeOK, [Next]_vars
    PROVE  {notified, terminated, netlinkDying, gatewaysDying}' \subseteq BOOLEAN
BY DEF TypeOK, Next, vars, signalVars, dyingVars, Main, Configure, MakeComponents,
       StartReporter, StartComponent, StartFails, Terminated, StopComponent,
       StopReporter, Waited, Exits, ErrorReported, capture, SentrySends,
       Reporter, SendSignal, Signaller, SignalNotify, SignalReceived, Notify, Push,
       NetlinkDies, SpawnHandler, Handler, HandlerStarts, HandlerTakes, HandlerDies

LEMMA NextWaiting ==
    ASSUME TypeOK, IsStack(started), [Next]_vars
    PROVE  waiting' \in {"none", "reporter", "netlink", "gateways"}
<1>1. CASE StopComponent
    <2>1. Head(started) \in Names
        BY <1>1, PopStack, ComponentsFacts DEF StopComponent
    <2> QED BY <1>1, <2>1 DEF StopComponent, Names
<1>2. CASE waiting' = waiting \/ waiting' = "none"
    BY <1>2 DEF TypeOK
<1>3. ASSUME Next
      PROVE  StopComponent \/ waiting' = waiting \/ waiting' = "none"
    BY <1>3 DEF Next, mainVars, Main, Configure, MakeComponents, StartReporter,
       StartComponent, StartFails, Terminated, StopReporter, Waited, Exits,
       ErrorReported, capture, SentrySends,
       Reporter, SendSignal, Signaller, SignalNotify, SignalReceived, Notify, Push,
       NetlinkDies, SpawnHandler, Handler, HandlerStarts, HandlerTakes, HandlerDies
<1> QED BY <1>1, <1>2, <1>3 DEF vars, mainVars

LEMMA NextNotifyTypes ==
    ASSUME TypeOK, [Next]_vars
    PROVE  /\ netlink' \in {"unborn", "select", "callback", "done"}
           /\ at' \in Gateways
           /\ queue' \in [Gateways -> 0..QueueSize]
           /\ late' \in [Gateways -> 0..2]
<1> USE SizeType DEF Gateways
<1>1. CASE Push
    <2>1. /\ at \in Gateways /\ netlink' \in {netlink, "select"}
          /\ queue \in [Gateways -> 0..QueueSize] /\ late \in [Gateways -> 0..2]
          /\ queue[at] < QueueSize
        BY <1>1 DEF Push, TypeOK
    <2>2. at' \in Gateways
        BY <1>1, <2>1 DEF Push
    <2>3. queue' \in [Gateways -> 0..QueueSize]
        BY <1>1, <2>1 DEF Push
    <2>4. late' \in [Gateways -> 0..2]
        BY <1>1, <2>1 DEF Push
    <2> QED BY <2>1, <2>2, <2>3, <2>4 DEF TypeOK
<1>2. ASSUME NEW i \in Gateways, HandlerTakes(i)
      PROVE  queue' \in [Gateways -> 0..QueueSize]
    <2>1. /\ queue \in [Gateways -> 0..QueueSize]
          /\ handling[i] \in Gateways /\ queue[handling[i]] > 0
        BY <1>2 DEF HandlerTakes, TypeOK
    <2> QED BY <1>2, <2>1 DEF HandlerTakes
<1>3. ASSUME Next
      PROVE  \/ Push
             \/ \E i \in Gateways : HandlerTakes(i) /\ UNCHANGED <<netlink, at, late>>
             \/ /\ netlink' \in {"select", "callback", "done", netlink}
                /\ at' \in {1, at}
                /\ queue' = queue /\ late' = late
    <2>1. CASE Main
        BY <2>1 DEF notifyVars, Main, Configure, MakeComponents, StartReporter,
           StartComponent, StartFails, Terminated, StopComponent, StopReporter,
           Waited, Exits
    <2>2. CASE ~Main
        BY <1>3, <2>2 DEF Next, notifyVars, ErrorReported, capture, SentrySends,
           Reporter, SendSignal, Signaller, SignalNotify, SignalReceived, Notify,
           NetlinkDies, SpawnHandler, Handler, HandlerStarts, HandlerTakes, HandlerDies
    <2> QED BY <2>1, <2>2
<1>4. /\ netlink \in {"unborn", "select", "callback", "done"}
      /\ at \in Gateways /\ 1 \in Gateways
      /\ queue \in [Gateways -> 0..QueueSize]
      /\ late \in [Gateways -> 0..2]
    <2>1. 1 \in Gateways
        OBVIOUS
    <2>2. at \in Gateways
        BY Zenon DEF TypeOK
    <2>3. netlink \in {"unborn", "select", "callback", "done"}
        BY Zenon DEF TypeOK
    <2>4. queue \in [Gateways -> 0..QueueSize]
        BY Zenon DEF TypeOK
    <2>5. late \in [Gateways -> 0..2]
        BY Zenon DEF TypeOK
    <2> QED BY <2>1, <2>2, <2>3, <2>4, <2>5
<1>5. CASE Next
    BY <1>1, <1>2, <1>3, <1>4, <1>5
<1>6. CASE UNCHANGED vars
    BY <1>4, <1>6 DEF vars, notifyVars
<1> QED BY <1>5, <1>6

LEMMA NextHandlerTypes ==
    ASSUME TypeOK, Spawned, [Next]_vars
    PROVE  /\ starter' \in 0..N
           /\ handler' \in [Gateways -> {"unborn", "spawned", "running", "done"}]
           /\ handling' \in [Gateways -> Gateways]
<1> USE SizeType DEF Gateways
<1>1. CASE SpawnHandler
    <2>1. starter' \in Gateways /\ handling' = handling
        BY <1>1 DEF SpawnHandler, TypeOK
    <2>2. handler' = [handler EXCEPT ![starter'] = "spawned"]
        BY <1>1 DEF SpawnHandler
    <2>3. handler' \in [Gateways -> {"unborn", "spawned", "running", "done"}]
        BY <2>1, <2>2 DEF TypeOK
    <2>4. handling' \in [Gateways -> Gateways]
        BY <2>1 DEF TypeOK
    <2>5. starter' \in 0..N
        BY <2>1
    <2> QED BY <2>3, <2>4, <2>5
<1>2. ASSUME NEW i \in Gateways, HandlerStarts(i)
      PROVE  /\ starter' \in 0..N
             /\ handler' \in [Gateways -> {"unborn", "spawned", "running", "done"}]
             /\ handling' \in [Gateways -> Gateways]
    <2>1. starter \in Gateways
        BY <1>2 DEF HandlerStarts, Spawned, TypeOK
    <2> QED BY <1>2, <2>1 DEF HandlerStarts, TypeOK
<1>3. ASSUME NEW i \in Gateways, HandlerDies(i)
      PROVE  /\ starter' \in 0..N
             /\ handler' \in [Gateways -> {"unborn", "spawned", "running", "done"}]
             /\ handling' \in [Gateways -> Gateways]
    BY <1>3 DEF HandlerDies, TypeOK
<1>4. ASSUME Next
      PROVE  \/ SpawnHandler
             \/ \E i \in Gateways : HandlerStarts(i) \/ HandlerDies(i)
             \/ UNCHANGED handlerVars
    BY <1>4 DEF Next, Main, Configure, MakeComponents, StartReporter, StartComponent,
       StartFails, Terminated, StopComponent, StopReporter, Waited, Exits, Reporter,
       ErrorReported, capture, SentrySends, SendSignal, Signaller, SignalNotify, SignalReceived, Notify, Push, NetlinkDies, Handler, HandlerTakes
<1>5. CASE UNCHANGED handlerVars
    BY <1>5 DEF handlerVars, TypeOK
<1>6. CASE \E i \in Gateways : HandlerStarts(i) \/ HandlerDies(i)
    BY <1>2, <1>3, <1>6
<1>7. CASE Next
    BY <1>1, <1>4, <1>5, <1>6, <1>7
<1>8. CASE UNCHANGED vars
    BY <1>5, <1>8 DEF vars
<1> QED BY <1>7, <1>8

LEMMA NextCommandTypes ==
    ASSUME TypeOK, [Next]_vars
    PROVE  /\ file' \in {"unreadable", "invalid", "valid"} /\ check' \in BOOLEAN
           /\ failure' \in {"none", "file", "defaults", "document", "components", "start"}
<1>1. ASSUME Next
      PROVE  /\ file' = file /\ check' = check
             /\ failure' \in {"file", "defaults", "document", "components", "start", failure}
    BY <1>1 DEF Next, mainVars, commandVars, Main, Configure, MakeComponents, exitWith,
       StartReporter, StartComponent, StartFails, Terminated, StopComponent,
       StopReporter, Waited, Exits, Reporter, ErrorReported, capture, SentrySends,
       SendSignal, Signaller, SignalNotify, SignalReceived, Notify, Push, NetlinkDies,
       SpawnHandler, Handler, HandlerStarts, HandlerTakes, HandlerDies
<1>2. /\ file \in {"unreadable", "invalid", "valid"} /\ check \in BOOLEAN
      /\ failure \in {"none", "file", "defaults", "document", "components", "start"}
    BY DEF TypeOK
<1> QED BY <1>1, <1>2 DEF vars, mainVars, commandVars

LEMMA NextReported ==
    ASSUME TypeOK, Control, Spawned, Reported, [Next]_vars
    PROVE  /\ Reported'
           /\ sentry' \in {"off", "open", "closed"}
           /\ reports' \in 0..MaxReports
<1> USE DEF Reported
<1>1. /\ sentry \in {"off", "open", "closed"} /\ reports \in 0..MaxReports
      /\ MaxReports \in Nat
    BY CommandType DEF TypeOK
<1>2. /\ sentry = "closed" => main \notin {"making", "starting"} /\ GatewaysDead
      /\ main \in {"configuring", "making"} => metrics = "new"
      /\ metrics \in {"Stop", "stopped"} => netlink = "done" /\ GatewaysDead
    BY DEF Control
<1>3. CASE MakeComponents
    BY <1>1, <1>2, <1>3 DEF MakeComponents, notifyVars, handlerVars, dyingVars
<1>4. CASE StopReporter
    <2>1. netlinkDying /\ netlink = "done" /\ netlink' = netlink
          /\ netlinkDying' = netlinkDying /\ reports' = reports /\ reports = 0
        <3>1. Height = 0
            BY <1>4 DEF StopReporter, Control
        <3> QED BY <1>4, <3>1 DEF StopReporter, Control, notifyVars, dyingVars
    <2>2. metrics' \in {"Stop", "stopped"}
        BY <1>4 DEF StopReporter, M!Stop, M!closeDone, Control
    <2>3. sentry' = IF sentry = "open" THEN "closed" ELSE sentry
        BY <1>4 DEF StopReporter
    <2> QED BY <1>1, <2>1, <2>2, <2>3
<1>5. CASE ErrorReported
    <2>1. netlink # "done" \/ ~GatewaysDead
        BY <1>5 DEF ErrorReported, HandlerFails, NetlinkFails, GatewaysDead
    <2>2. sentry # "closed" /\ metrics \notin {"Stop", "stopped"}
        BY <1>2, <2>1
    <2>3. netlink # "unborn"
        <3>1. ASSUME NEW i \in Gateways, handler[i] = "running"
              PROVE  starter # 0
            BY <3>1, SizeType DEF Spawned, Gateways
        <3> QED BY <1>5, <3>1 DEF ErrorReported, HandlerFails, NetlinkFails
    <2>4. metrics = "started" /\ metrics' = metrics /\ sentry' = sentry
          /\ UNCHANGED <<netlink, starter, netlinkDying>>
        BY <1>5, <2>2, <2>3 DEF ErrorReported, capture, notifyVars, handlerVars, dyingVars
    <2>5. reports' = IF sentry = "open" /\ reports < MaxReports THEN reports + 1 ELSE reports
        BY <1>5 DEF ErrorReported, capture
    <2> QED BY <1>1, <2>4, <2>5
<1>6. CASE SentrySends
    <2>1. UNCHANGED <<sentry, metrics, netlink, starter, netlinkDying>>
        BY <1>6 DEF SentrySends, notifyVars, handlerVars, dyingVars
    <2>2. reports > 0 /\ reports' = reports - 1
        BY <1>6 DEF SentrySends
    <2> QED BY <1>1, <2>1, <2>2
<1>7. CASE StartComponent
    <2>1. /\ metrics = "started" /\ main = "starting"
          /\ UNCHANGED <<metrics, sentry, reports, starter, netlinkDying>>
          /\ netlink' = netlink \/ netlink' = "select"
        BY <1>7 DEF StartComponent, reporterVars, sentryVars, handlerVars, dyingVars
    <2> QED BY <1>1, <1>2, <2>1
<1>8. CASE SpawnHandler
    BY <1>1, <1>8 DEF SpawnHandler, reporterVars, sentryVars, notifyVars, dyingVars
<1>9. CASE /\ sentry' = sentry /\ reports' = reports /\ starter' = starter
           /\ metrics' = metrics
           /\ netlink' = netlink \/ (netlink \notin {"unborn", "done"} /\ netlink' # "unborn")
           /\ netlinkDying => netlinkDying'
    BY <1>1, <1>9
<1>10. CASE StartReporter \/ Reporter(M!Call)
    <2>1. UNCHANGED <<sentry, reports, netlink, netlinkDying, starter>>
        BY <1>10 DEF StartReporter, Reporter, sentryVars, notifyVars, dyingVars, handlerVars
    <2>2. \/ metrics = "new" /\ metrics' = "Start"
          \/ metrics = "Start"
          \/ metrics = "failing" /\ metrics' = "failed"
          \/ metrics = "Stop" /\ metrics' = "stopped"
        BY <1>10 DEF StartReporter, Reporter, M!Call, M!Start, M!initExporter,
                     M!Started, M!Waited
    <2> QED BY <1>1, <2>1, <2>2
<1>11. CASE StopComponent
    <2>1. netlinkDying => netlinkDying'
        BY <1>11, Zenon DEF StopComponent
    <2>2. UNCHANGED <<sentry, reports, netlink, metrics, starter>>
        BY <1>11 DEF StopComponent, reporterVars, sentryVars, notifyVars, handlerVars
    <2> QED BY <1>9, <2>1, <2>2
<1>12. ASSUME NEW i \in 1..Len(Exporters),
              Reporter(M!Export(i) \/ M!Exported(i) \/ M!Close(i) \/ M!Done(i))
       PROVE  UNCHANGED <<sentry, reports, metrics, netlink, netlinkDying, starter>>
    BY <1>12 DEF Reporter, M!Export, M!Exported, M!Close, M!Done, sentryVars,
                 notifyVars, dyingVars, handlerVars
<1>13. CASE Configure \/ StartFails \/ Terminated \/ Waited \/ Exits \/ Signaller
            \/ \E s \in Signals : SendSignal(s)
    <2>1. UNCHANGED <<sentry, reports, metrics, netlink, netlinkDying, starter>>
        BY <1>13 DEF Configure, StartFails, Terminated, Waited, Exits, SendSignal,
              Signaller, SignalNotify, SignalReceived, reporterVars, sentryVars,
              notifyVars, dyingVars, handlerVars
    <2> QED BY <1>9, <2>1
<1>14. CASE Notify \/ Push \/ NetlinkDies \/ \E i \in Gateways : Handler(i)
    <2>1. /\ UNCHANGED <<sentry, reports, metrics, netlinkDying, starter>>
          /\ netlink' = netlink \/ (netlink \notin {"unborn", "done"} /\ netlink' # "unborn")
        BY <1>14 DEF Notify, Push, NetlinkDies, Handler, HandlerStarts, HandlerTakes,
              HandlerDies, reporterVars, sentryVars, notifyVars, dyingVars, handlerVars
    <2> QED BY <1>9, <2>1
<1>15. CASE UNCHANGED vars
    BY <1>9, <1>15 DEF vars, reporterVars, sentryVars, notifyVars, dyingVars, handlerVars
<1> QED BY <1>3, <1>4, <1>5, <1>6, <1>7, <1>8, <1>9, <1>10, <1>11, <1>12, <1>13,
           <1>14, <1>15 DEF Next, Main

LEMMA NextIInv == IInv /\ [Next]_vars => IInv'
<1> SUFFICES ASSUME IInv, [Next]_vars PROVE IInv'
    OBVIOUS
<1> USE DEF IInv
<1>1. IsStack(started)' /\ Control'
    BY NextControl
<1>2. M!TypeOK' /\ Counted'
    BY NextExporters
<1>3. Spawned' /\ Late' /\ Reported'
    BY NextSpawned, NextLate, NextReported
<1>4. started' \in Seq(Names)
    BY <1>1 DEF IsStack
<1>5. TypeOK'
    <2>1. /\ sentry' \in {"off", "open", "closed", "panicked"}
          /\ reports' \in 0..MaxReports
        BY NextReported
    <2> QED BY <1>2, <1>4, <2>1, NextMainTypes, NextFlags, NextWaiting, NextNotifyTypes,
               NextHandlerTypes, NextCommandTypes DEF TypeOK, Names
<1> QED BY <1>1, <1>2, <1>3, <1>5

-----------------------------------------------------------------------------
(* IInv holds all along: the theorems below are parts or consequences.     *)
THEOREM InvariantHolds == Spec => []IInv
BY InitIInv, NextIInv, PTL DEF Spec

(* All the variables of the process keep their types, the channels their   *)
(* capacity and the wait group a count that is never negative.             *)
THEOREM TypeCorrect == Spec => []TypeOK
<1>1. IInv => TypeOK
    BY DEF IInv
<1> QED BY <1>1, InvariantHolds, PTL

(* Whatever the signals and the order of the goroutines, the netlink       *)
(* component stops when no handler may call it any more, and the reporter  *)
(* when the netlink goroutine has gone too (cmd/daemon.go, tomb.Wait()).   *)
THEOREM StopsInOrder == Spec => []UsersStopFirst
<1>1. IInv => UsersStopFirst
    BY DEF IInv, Control, UsersStopFirst
<1> QED BY <1>1, InvariantHolds, PTL

(* Metrics.Stop() closes its channel once, whether it is called by         *)
(* Start(), after an exporter that fails, or by the daemon's shutdown; and *)
(* no error is reported to a Sentry client that is closed.                 *)
THEOREM ClosesOnce == Spec => []NothingAfterClose
<1>1. IInv => NothingAfterClose
    BY DEF IInv, Control, Reported, NothingAfterClose
<1> QED BY <1>1, InvariantHolds, PTL

(* A process that leaves has closed what each of its exporters opened and  *)
(* sent the errors that were captured.                                     *)
THEOREM LeavesNothingOpen == Spec => []NothingLeftOpen
<1>1. IInv => NothingLeftOpen
    <2> USE DEF IInv
    <2>0. IInv /\ main = "exited" => reports = 0
        BY DEF Control, Reported
    <2> SUFFICES ASSUME IInv, main = "exited", NEW i \in DOMAIN exporters
                 PROVE  exporters[i] = "gone"
        BY <2>0 DEF NothingLeftOpen
    <2>1. exporters \in Seq(Goroutines)
        BY DEF TypeOK, M!TypeOK, Goroutines
    <2>2. wg = 0
        <3>1. metrics # "new"
            BY DEF Counted
        <3> QED BY <3>1 DEF Control, Counted
    <2>3. AliveIn(exporters) = {}
        BY <2>1, <2>2, AliveAreCounted, FS_EmptySet DEF Counted
    <2> QED BY <2>3 DEF AliveIn
<1> QED BY <1>1, InvariantHolds, PTL

(* A callback that runs while the gateways stop pushes at most one         *)
(* notification to each of their channels (gateways/root.go, Start).       *)
THEOREM OneLateAtMost == Spec => []AtMostOneLate
<1>1. IInv => AtMostOneLate
    BY DEF IInv, Late, AtMostOneLate
<1> QED BY <1>1, InvariantHolds, PTL

-----------------------------------------------------------------------------
(* The steps that a component which is being stopped has left to make: the *)
(* loop that spawns the handlers goes on, a handler starts or sees that    *)
(* its tomb is dying...                                                    *)
HandlersCanLeave ==
    \/ starter < N
    \/ \E i \in Gateways : handler[i] = "spawned"
    \/ gatewaysDying /\ \E i \in Gateways : handler[i] = "running"

(* ... the netlink goroutine sees that its tomb is dying, or its callback  *)
(* finds room in the channel...                                            *)
NetlinkCanLeave ==
    \/ netlinkDying /\ netlink = "select"
    \/ netlink = "callback" /\ queue[at] < QueueSize

(* ... an exporter ends what it exports, closes what it opened or leaves   *)
(* the wait group.                                                         *)
ExportersCanLeave ==
    \E i \in DOMAIN exporters :
        \/ exporters[i] \in {"exporting", "closed"}
        \/ done /\ exporters[i] = "idle"

(* No Stop() waits for a goroutine that has no step left to make, whatever *)
(* the goroutines were doing when the signal came: SignalEnds without its  *)
(* fairness.  A callback blocked on a full channel and a Sentry server     *)
(* that does not answer are the only exceptions, as in SignalEnds.         *)
StopGoesOn ==
    /\ main = "stopping" =>
          /\ waiting = "gateways" => GatewaysDead \/ HandlersCanLeave
          /\ waiting = "netlink" => netlink = "done" \/ NetlinkCanLeave \/ Blocked
          /\ waiting = "reporter" /\ metrics # "stopped" =>
                \/ metrics = "started" /\ (reports = 0 \/ Unanswered)
                \/ metrics = "Stop" /\ (wg = 0 \/ ExportersCanLeave)
    /\ metrics = "failing" => wg = 0 \/ ExportersCanLeave

(* A component that is told to stop was started, and the exporters are     *)
(* told by "done".                                                         *)
Told ==
    /\ Height = 4 \/ gatewaysDying => netlink # "unborn"
    /\ metrics \in {"failing", "Stop"} => done
    /\ \A i \in Gateways : i <= starter => handler[i] # "unborn"

LEMMA NextTold ==
    ASSUME IInv, Told, [Next]_vars
    PROVE  Told'
<1> USE SizeType
<1>0. TypeOK /\ IsStack(started) /\ Control /\ IsStack(started)'
    BY NextControl DEF IInv
<1>1. Height' = 4 \/ gatewaysDying' => netlink' # "unborn"
    <2>1. CASE StartComponent
        <3>1. /\ started' = <<Components[Len(started) + 1]>> \o started
              /\ gatewaysDying' = gatewaysDying
              /\ netlink' = IF Components[Len(started) + 1] = "gateways"
                            THEN "select" ELSE netlink
            BY <2>1 DEF StartComponent, dyingVars
        <3>2. Height' = Height + 1
            BY <1>0, <2>1, <3>1, PushStack DEF StartComponent, Control, Height
        <3>3. Height' = 4 => netlink' = "select"
            BY <1>0, <3>1, <3>2, HeightIsNat, ComponentsFacts DEF Height
        <3> QED BY <3>1, <3>3 DEF Told
    <2>2. CASE StopComponent
        <3>1. /\ started # <<>> /\ started' = Tail(started) /\ netlink' = netlink
              /\ gatewaysDying' = (gatewaysDying \/ Head(started) = "gateways")
            BY <2>2 DEF StopComponent, notifyVars
        <3>2. /\ Height \in Nat /\ 1 <= Height /\ Height <= 4
              /\ Head(started) = Components[Height] /\ Height' = Height - 1
            <4>1. IsStack(started) /\ started # <<>>
                BY <1>0, <3>1
            <4>2. /\ Len(started) \in Nat /\ 1 <= Len(started) /\ Len(started) <= 4
                  /\ Head(started) = Components[Len(started)]
                  /\ Len(Tail(started)) = Len(started) - 1
                BY <4>1, PopStack
            <4> QED BY <3>1, <4>2 DEF Height
        <3>3. Head(started) = "gateways" => Height = 4
            BY <3>2, ComponentsFacts
        <3>4. Height' # 4
            BY <3>2
        <3> QED BY <3>1, <3>3, <3>4 DEF Told
    <2>3. CASE Notify \/ Push \/ NetlinkDies
        BY <2>3 DEF Notify, Push, NetlinkDies
    <2>4. CASE UNCHANGED <<started, gatewaysDying, netlink>>
        BY <2>4 DEF Told, Height
    <2>5. ASSUME Next
          PROVE  \/ StartComponent \/ StopComponent \/ Notify \/ Push \/ NetlinkDies
                 \/ UNCHANGED <<started, gatewaysDying, netlink>>
        BY <2>5 DEF Next, Main, Configure, MakeComponents, StartReporter, StartFails,
           Terminated, StopReporter, Waited, Exits, Reporter, SendSignal, Signaller,
           SignalNotify, SignalReceived, SpawnHandler, Handler, HandlerStarts,
           HandlerTakes, HandlerDies, ErrorReported, capture, SentrySends,
           mainVars, dyingVars, notifyVars
    <2> QED BY <2>1, <2>2, <2>3, <2>4, <2>5 DEF vars, mainVars, dyingVars, notifyVars
<1>2. metrics' \in {"failing", "Stop"} => done'
    <2>1. CASE StartReporter
        BY <2>1 DEF StartReporter, M!Start
    <2>2. CASE StopReporter
        BY <2>2 DEF StopReporter, M!Stop, M!closeDone
    <2>3. CASE Reporter(M!Call)
        BY <2>3 DEF Reporter, M!Call, M!initExporter, M!closeDone, M!Started, M!Waited, Told
    <2>4. CASE UNCHANGED <<metrics, done>>
        BY <2>4 DEF Told
    <2>5. ASSUME Next
          PROVE  \/ StartReporter \/ StopReporter \/ Reporter(M!Call)
                 \/ UNCHANGED <<metrics, done>>
        BY <2>5 DEF Next, Main, Configure, MakeComponents, StartComponent, StartFails,
           Terminated, StopComponent, Waited, Exits, Reporter, SendSignal, Signaller,
           SignalNotify, SignalReceived, Notify, Push, NetlinkDies, SpawnHandler, Handler,
           HandlerStarts, HandlerTakes, HandlerDies, ErrorReported, capture, SentrySends,
           M!Export, M!Exported, M!Close, M!Done, reporterVars
    <2> QED BY <2>1, <2>2, <2>3, <2>4, <2>5 DEF vars, reporterVars
<1>3. (\A i \in Gateways : i <= starter => handler[i] # "unborn")'
    <2>1. CASE \E i \in Gateways : Handler(i)
        BY <1>0, <2>1 DEF Handler, HandlerStarts, HandlerTakes, HandlerDies, Told,
           TypeOK, handlerVars
    <2>2. CASE SpawnHandler
        BY <1>0, <2>2 DEF SpawnHandler, Told, TypeOK, Gateways
    <2>3. CASE UNCHANGED handlerVars
        BY <2>3 DEF Told, handlerVars
    <2>4. ASSUME Next
          PROVE  (\E i \in Gateways : Handler(i)) \/ SpawnHandler \/ UNCHANGED handlerVars
        BY <2>4 DEF Next, Main, Configure, MakeComponents, StartReporter, StartComponent,
           StartFails, Terminated, StopComponent, StopReporter, Waited, Exits,
           Reporter, SendSignal, Signaller, SignalNotify, SignalReceived, Notify,
           Push, NetlinkDies, ErrorReported, capture, SentrySends
    <2> QED BY <2>1, <2>2, <2>3, <2>4 DEF vars
<1> QED BY <1>1, <1>2, <1>3 DEF Told, Height

LEMMA ToldGives == IInv /\ Told => StopGoesOn
<1> SUFFICES ASSUME IInv, Told PROVE StopGoesOn
    OBVIOUS
<1> USE SizeType
<1>1. TypeOK /\ Control /\ Counted /\ IsStack(started)
    BY DEF IInv
<1> DEFINE low == main = "stopping" /\ metrics # "failed" /\ Height <= 3
<1>a. main = "stopping" /\ waiting # "none" => metrics # "failed"
    BY <1>1 DEF Control
<1>b. low => gatewaysDying
    BY <1>1 DEF Control
<1>2. ASSUME main = "stopping", waiting = "gateways", ~GatewaysDead PROVE HandlersCanLeave
    <2>1. gatewaysDying
        <3>1. Height = 3
            BY <1>1, <1>2 DEF Control
        <3>2. low
            BY <1>2, <1>a, <3>1
        <3> QED BY <1>b, <3>2
    <2>2. CASE starter = N
        <3>1. PICK i \in Gateways : handler[i] # "done"
            BY <1>2, <2>2 DEF GatewaysDead
        <3>2. handler[i] # "unborn"
            BY <2>2, <3>1 DEF Told, Gateways
        <3> QED BY <1>1, <2>1, <3>1, <3>2 DEF HandlersCanLeave, TypeOK
    <2>3. CASE starter # N
        BY <1>1, <2>3 DEF HandlersCanLeave, TypeOK
    <2> QED BY <2>2, <2>3
<1>3. ASSUME main = "stopping", waiting = "netlink", netlink # "done"
      PROVE  NetlinkCanLeave \/ Blocked
    <2>1. gatewaysDying /\ netlinkDying /\ GatewaysDead
        <3>1. Height = 2
            BY <1>1, <1>3 DEF Control
        <3>2. low
            BY <1>3, <1>a, <3>1
        <3>3. netlinkDying
            BY <1>1, <1>3, <1>a, <3>1 DEF Control
        <3>4. GatewaysDead
            BY <1>1, <3>3 DEF Control
        <3> QED BY <1>b, <3>2, <3>3, <3>4
    <2>2. netlink \in {"select", "callback"}
        BY <1>1, <1>3, <2>1 DEF TypeOK, Told
    <2>3. queue[at] \in 0..QueueSize
        BY <1>1 DEF TypeOK
    <2> QED BY <2>1, <2>2, <2>3 DEF NetlinkCanLeave, Blocked
<1>4. ASSUME metrics \in {"failing", "Stop"}, wg # 0 PROVE ExportersCanLeave
    <2>1. done
        BY <1>4 DEF Told
    <2>2. exporters \in Seq(Goroutines)
        BY <1>1 DEF TypeOK, M!TypeOK, Goroutines
    <2>3. PICK i \in DOMAIN exporters : exporters[i] # "gone"
        <3>1. AliveIn(exporters) # {}
            BY <1>1, <1>4, FS_EmptySet DEF Counted
        <3> QED BY <3>1 DEF AliveIn
    <2>4. exporters[i] \in Goroutines
        BY <2>2, <2>3
    <2> QED BY <2>1, <2>3, <2>4 DEF ExportersCanLeave, Goroutines
<1>5. ASSUME main = "stopping", waiting = "reporter", metrics \notin {"stopped", "Stop"}
      PROVE  metrics = "started" /\ (reports = 0 \/ Unanswered)
    <2>1. metrics \in {"new", "Start", "started", "failing", "failed",
                       "Stop", "stopped", "panicked"}
        BY <1>1 DEF TypeOK, M!TypeOK
    <2>2. metrics \notin {"new", "Start", "failing"} /\ metrics # "panicked"
        BY <1>1, <1>5 DEF Control
    <2>3. metrics = "started"
        BY <1>5, <1>a, <2>1, <2>2
    <2>4. reports = 0 \/ reports > 0
        BY <1>1, CommandType DEF TypeOK
    <2> QED BY <1>5, <2>3, <2>4 DEF Unanswered
<1> QED BY <1>2, <1>3, <1>4, <1>5 DEF StopGoesOn, Unanswered

(* The stop is free of deadlocks, for any number of gateways and any       *)
(* exporters: each goroutine that a Stop() waits for can go on             *)
(* (cmd/daemon.go, tomb.Wait() of both components, Metrics.Stop()).        *)
THEOREM StopIsNeverStuck == Spec => []StopGoesOn
<1>1. Init => Told
    BY SizeType DEF Init, Told, Height, M!Init, Gateways
<1>2. IInv /\ Told /\ [Next]_vars => Told'
    BY NextTold
<1> QED BY <1>1, <1>2, ToldGives, InvariantHolds, PTL DEF Spec
=============================================================================
