------------------------------ MODULE Process ------------------------------
(***************************************************************************)
(* cmd/qsd/main.go: the program that starts a qemu-storage-daemon, waits   *)
(* for its pid file, connects to its monitor and serves gRPC calls until   *)
(* the daemon or the gRPC server ends or a signal comes.                   *)
(***************************************************************************)
EXTENDS Naturals

CONSTANT MaxFaults  \* bound: deaths of the daemon, timeouts, signals, errors

ASSUME ProcessAssumption == MaxFaults \in Nat

VARIABLES main,     \* where main() is
          daemon,   \* the qemu-storage-daemon it started
          pidFile,  \* is there a qsd.pid
          stale,    \* was there one when the program started
          r,        \* channel: has the daemon's Result been put into it
          poller,   \* the goroutine that looks for the pid file
          monitor,  \* the goroutine that connects to the QMP socket
          faults
processVars == <<main, daemon, pidFile, stale, r, poller, monitor, faults>>

ProcessTypeOK ==
  /\ main \in {"waiting", "listening", "connecting", "serving", "exited"}
  /\ daemon \in {"starting", "running", "dead"}
  /\ pidFile \in {"none", "there"} /\ stale \in {"no", "yes"}
  /\ r \in {"empty", "full"} /\ (r = "full" => daemon = "dead")
  /\ poller \in {"polling", "offering"}
  /\ monitor \in {"none", "dialling", "connected", "refused"}
  /\ main = "serving" => monitor = "connected"
  /\ faults \in 0..MaxFaults

ProcessInit ==
  /\ main = "waiting" /\ daemon = "starting"
  /\ pidFile = "none" /\ stale = "no"
  /\ r = "empty" /\ poller = "polling" /\ monitor = "none"
  /\ faults = 0

Fault == faults < MaxFaults /\ faults' = faults + 1
Exit  == main' = "exited"

-----------------------------------------------------------------------------
(* The daemon opens the monitor's socket before it writes the pid file, and*)
(* takes over a pid file it finds.  Killed, it leaves the file.            *)
DaemonRuns ==
  /\ daemon = "starting"
  /\ daemon' = "running" /\ pidFile' = "there"
  /\ UNCHANGED <<main, stale, r, poller, monitor, faults>>
DaemonDies ==
  /\ daemon # "dead" /\ Fault
  /\ daemon' = "dead"
  /\ \/ UNCHANGED pidFile
     \/ daemon = "running" /\ pidFile' = "none"
  /\ UNCHANGED <<main, stale, r, poller, monitor>>

(* cmd.CombinedOutput returns: r <- Result{...}, which has room for it.    *)
DaemonEnds ==
  /\ daemon = "dead" /\ r = "empty"
  /\ r' = "full"
  /\ UNCHANGED <<main, daemon, pidFile, stale, poller, monitor, faults>>

(* The poller offers a value when it sees the pid file, until it is taken. *)
BadSeen == pidFile = "none"
Seen    == pidFile = "there"
Poll ==
  /\ poller = "polling" /\ Seen
  /\ poller' = "offering"
  /\ UNCHANGED <<main, daemon, pidFile, stale, r, monitor, faults>>

(* First select: the pid file, the daemon's end or 30 seconds.             *)
AwaitDaemon ==
  /\ main = "waiting"
  /\ \/ poller = "offering" /\ main' = "listening" /\ poller' = "polling" /\ UNCHANGED <<r, faults>>
     \/ r = "full" /\ r' = "empty" /\ Exit /\ UNCHANGED <<poller, faults>>
  /\ UNCHANGED <<daemon, pidFile, stale, monitor>>
StartTimeout ==
  /\ main = "waiting" /\ Fault /\ Exit
  /\ UNCHANGED <<daemon, pidFile, stale, r, poller, monitor>>

(* net.Listen on the port, then NewServer: a goroutine is to connect.      *)
Listen ==
  /\ main = "listening"
  /\ \/ main' = "connecting" /\ monitor' = "dialling" /\ UNCHANGED faults
     \/ Fault /\ Exit /\ UNCHANGED monitor
  /\ UNCHANGED <<daemon, pidFile, stale, r, poller>>

(* CreateNewUnixMonitor is answered by a daemon that runs.  It may reach   *)
(* one that has opened its socket and not yet written its pid file.        *)
Dial ==
  CASE daemon = "running"  -> {"connected"}
    [] daemon = "starting" -> {"connected", "refused"}
    [] daemon = "dead"     -> {"refused"}
Connect ==
  /\ monitor = "dialling"
  /\ monitor' \in Dial
  /\ UNCHANGED <<main, daemon, pidFile, stale, r, poller, faults>>

(* NewVolumeManager waits 5 seconds for the goroutine.                     *)
Accepted == {"connected"}
Connected ==
  /\ main = "connecting"
  /\ \/ monitor \in Accepted /\ main' = "serving"
     \/ monitor = "refused" /\ Exit
  /\ UNCHANGED <<daemon, pidFile, stale, r, poller, monitor, faults>>
ConnectTimeout ==
  /\ main = "connecting" /\ Fault /\ Exit
  /\ UNCHANGED <<daemon, pidFile, stale, r, poller, monitor>>

(* Second select: the daemon's end; a signal (which before that ends the   *)
(* program as well) or an error of the gRPC server.                        *)
BadWatched == {}
Watched    == {"serving"}
WatchDaemon ==
  /\ main \in Watched
  /\ r = "full" /\ r' = "empty" /\ Exit
  /\ UNCHANGED <<daemon, pidFile, stale, poller, monitor, faults>>
SignalOrServeError ==
  /\ main # "exited" /\ Fault /\ Exit
  /\ UNCHANGED <<daemon, pidFile, stale, r, poller, monitor>>

(* The daemon goes with the container, and it is started again.  /var/run  *)
(* is new, or a mount that outlived the container (Makefile:59).           *)
StartAgain ==
  /\ main = "exited"
  /\ main' = "waiting" /\ daemon' = "starting"
  /\ r' = "empty" /\ poller' = "polling" /\ monitor' = "none"
  /\ \/ pidFile = "there" /\ pidFile' = "there" /\ stale' = "yes"
     \/ pidFile' = "none" /\ stale' = "no"
  /\ UNCHANGED faults

Progress ==
  \/ DaemonRuns \/ DaemonEnds \/ Poll \/ AwaitDaemon \/ Listen \/ Connect
  \/ Connected \/ WatchDaemon \/ StartAgain
ProcessNext ==
  \/ Progress
  \/ DaemonDies \/ StartTimeout \/ ConnectTimeout \/ SignalOrServeError

(* Go runs main and its goroutines, the daemon starts, and the kubelet     *)
(* starts the container again.                                             *)
ProcessSpec ==
  /\ ProcessInit /\ [][ProcessNext]_processVars
  /\ WF_processVars(DaemonRuns) /\ WF_processVars(DaemonEnds)
  /\ WF_processVars(Poll) /\ WF_processVars(Connect)
  /\ WF_processVars(AwaitDaemon \/ Listen \/ Connected \/ WatchDaemon \/ StartAgain)

-----------------------------------------------------------------------------
(* The server turns to the daemon only once that is ready, unless a pid    *)
(* file of an earlier daemon misled it.                                    *)
DaemonFirst ==
  main \in {"listening", "connecting", "serving"} /\ stale = "no" => daemon # "starting"

(* The death of the daemon ends the server, wherever it is by then: its    *)
(* result is not lost between the two selects.                             *)
DeathNoticed == daemon = "dead" ~> main = "exited"

(* The server comes to serve again, unless stale pid files mislead it on   *)
(* and on.                                                                 *)
ServesAgain == <>[](main = "serving") \/ []<>(stale = "yes" /\ main = "exited")
=============================================================================
