---------------------------- MODULE ProcessProofs ----------------------------
(***************************************************************************)
(* Theorems about Process, for any number of faults and restarts.          *)
(*                                                                         *)
(* Without a stale pid file the only way past the first select is a pid    *)
(* file the daemon wrote, and the daemon does not go back to starting: the *)
(* inductive invariant follows that from the file over the poller to main. *)
(***************************************************************************)
EXTENDS Process, TLAPS

WaitInv ==
  /\ ProcessTypeOK
  /\ stale = "no" /\ daemon = "starting" =>
       pidFile = "none" /\ poller = "polling" /\ main \in {"waiting", "exited"}

LEMMA WaitInductive == ProcessSpec => []WaitInv
<1>1. ProcessInit => WaitInv
  BY ProcessAssumption DEF ProcessInit, WaitInv, ProcessTypeOK
<1>2. WaitInv /\ [ProcessNext]_processVars => WaitInv'
  <2>. SUFFICES ASSUME WaitInv, [ProcessNext]_processVars
                PROVE  WaitInv'
    OBVIOUS
  <2>. USE ProcessAssumption DEF WaitInv, ProcessTypeOK, Fault, Exit
  <2>1. CASE DaemonRuns \/ DaemonDies \/ DaemonEnds
    BY <2>1 DEF DaemonRuns, DaemonDies, DaemonEnds
  <2>2. CASE Poll
    BY <2>2 DEF Poll, Seen
  <2>3. CASE AwaitDaemon \/ StartTimeout
    BY <2>3 DEF AwaitDaemon, StartTimeout
  <2>4. CASE Listen
    BY <2>4 DEF Listen
  <2>5. CASE Connect
    BY <2>5 DEF Connect, Dial
  <2>6. CASE Connected \/ ConnectTimeout
    BY <2>6 DEF Connected, ConnectTimeout, Accepted
  <2>7. CASE WatchDaemon \/ SignalOrServeError
    BY <2>7 DEF WatchDaemon, SignalOrServeError, Watched
  <2>8. CASE StartAgain
    BY <2>8 DEF StartAgain
  <2>9. CASE UNCHANGED processVars
    BY <2>9 DEF processVars
  <2>. QED
    BY <2>1, <2>2, <2>3, <2>4, <2>5, <2>6, <2>7, <2>8, <2>9 DEF ProcessNext, Progress
<1>. QED  BY <1>1, <1>2, PTL DEF ProcessSpec

(* Types, and that a server that serves has reached a daemon.              *)
THEOREM ProcessTypeCorrect == ProcessSpec => []ProcessTypeOK
<1>1. WaitInv => ProcessTypeOK
  BY DEF WaitInv
<1>. QED  BY <1>1, WaitInductive, PTL

(* However the daemon, the poller and the two selects are scheduled, and   *)
(* however often they are started again: main goes on only after the       *)
(* daemon has started, unless an old pid file was there.                   *)
THEOREM ServerWaitsForDaemon == ProcessSpec => []DaemonFirst
<1>1. WaitInv => DaemonFirst
  BY DEF WaitInv, DaemonFirst
<1>. QED  BY <1>1, WaitInductive, PTL
=============================================================================
