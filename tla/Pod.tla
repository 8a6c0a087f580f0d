--------------------------------- MODULE Pod ---------------------------------
(***************************************************************************)
(* Bringing the pod up and down (deploy/podman/pod-up.sh, pod-down.sh): a  *)
(* pod holds the sidecar, then the app; the log volume holds the captures  *)
(* and the keylog volume the socket.  An operator runs one script at a     *)
(* time; the sidecar starts, and may stop or die, beside the script, and   *)
(* what pod-down.sh asks podman to remove may stay.                        *)
(***************************************************************************)
EXTENDS Integers

CONSTANTS
  DownFirst,  \* pod-up.sh runs only where no pod and no socket is left
  MaxRuns     \* bound: pods brought up

ASSUME RunsAssumption == MaxRuns \in Nat

VARIABLES
  script,    \* the step pod-up.sh is at, or "idle"
  pod,       \* the pod's retain label, or "none" without a pod
  sidecar,   \* its sidecar container
  app,       \* its app container has been started
  sock,      \* the socket file: "absent", "stale" (nobody listens) or "bound"
  volume,    \* the log volume: the runs whose capture is in it
  run,       \* number of this run
  bound,     \* history: this run's sidecar has listened on the socket
  captured,  \* history: this run's sidecar has created its capture, and nobody asked
             \* to wipe it
  outcome    \* history: what the last pod-down.sh said it did

containers == <<pod, sidecar, app>>
history    == <<run, bound, captured, outcome>>
podVars    == <<script, containers, sock, volume, history>>

PodInit ==
  /\ script = "idle" /\ pod = "none" /\ sidecar = "none" /\ app = FALSE
  /\ sock = "absent" /\ volume = {}
  /\ run = 0 /\ bound = FALSE /\ captured = FALSE /\ outcome = "none"

alive == sidecar \in {"starting", "captured", "binding", "listening"}

\* What a sidecar that is killed, and one that stops in order, leaves in the log
\* volume and of the socket.
killed(v, s) == v = volume /\ s = IF sock = "bound" THEN "stale" ELSE sock
closed(v, s) ==
  /\ sidecar = "listening"
  /\ v = (IF pod = "1" THEN volume ELSE volume \ {run}) /\ s = "absent"

\* podman removes the containers: a sidecar that is running stops in order, or is
\* killed when it does not in time.
stopped(v, s) == killed(v, s) \/ closed(v, s)

-----------------------------------------------------------------------------
(* pod-up.sh.                                                              *)

\* podman pod create --replace, and the volumes, which are kept when they exist.
createPod ==
  /\ script = "idle" /\ run < MaxRuns
  /\ DownFirst => pod = "none" /\ sock = "absent"
  /\ script' = "create"
  /\ pod' \in {"0", "1"} /\ sidecar' = "none" /\ app' = FALSE
  /\ \E v \in SUBSET volume, s \in {"absent", "stale"} : stopped(v, s) /\ volume' = v /\ sock' = s
  /\ run' = run + 1 /\ bound' = FALSE /\ captured' = FALSE /\ outcome' = "none"

runSidecar ==
  /\ script = "create"
  /\ script' = "poll" /\ sidecar' = "starting"
  /\ UNCHANGED <<pod, app, sock, volume, history>>

poll_AnyDir ==
  /\ script = "poll"
  /\ script' = "idle" /\ app' = TRUE
  /\ UNCHANGED <<pod, sidecar, sock, volume, history>>
\* The poll finds a socket file, and the app is started.
poll ==
  /\ script = "poll" /\ sock # "absent"
  /\ script' = "idle" /\ app' = TRUE
  /\ UNCHANGED <<pod, sidecar, sock, volume, history>>

pollTimesOut ==
  /\ script = "poll" /\ sock = "absent"
  /\ script' = "idle"
  /\ UNCHANGED <<containers, sock, volume, history>>

-----------------------------------------------------------------------------
(* The sidecar: Start creates the capture, if there is room for one, before  *)
(* NewSocketServer removes a stale socket and listens.                       *)

openCapture ==
  /\ sidecar = "starting"
  /\ sidecar' = "captured"
  /\ captured' \in BOOLEAN /\ volume' = IF captured' THEN volume \cup {run} ELSE volume
  /\ UNCHANGED <<script, pod, app, sock, run, bound, outcome>>

removeStale ==
  /\ sidecar = "captured"
  /\ sidecar' = "binding" /\ sock' = "absent"
  /\ UNCHANGED <<script, pod, app, volume, history>>

listen ==
  /\ sidecar = "binding"
  /\ sidecar' = "listening" /\ sock' = "bound" /\ bound' = TRUE
  /\ UNCHANGED <<script, pod, app, volume, run, captured, outcome>>

sidecarEnds ==
  /\ alive
  /\ sidecar' = "dead" /\ stopped(volume', sock')
  /\ UNCHANGED <<script, pod, app, history>>

-----------------------------------------------------------------------------
(* pod-down.sh.                                                            *)

refuses_Never(request) == FALSE
refuses(request) == request = "1" /\ pod = "0"

\* The RETAIN it goes by.
decision(request) ==
  IF request # "" THEN request ELSE IF pod = "none" THEN "0" ELSE pod

\* What it asks podman to remove.
removals(request) == {"pod", "keylog"} \cup (IF decision(request) = "1" THEN {} ELSE {"log"})

\* Each removal ends in "|| true", and may leave all it was to remove: the others
\* and the message follow.  Removing a volume takes the containers that use it.
podDown(request, done) ==
  /\ script = "idle"
  /\ ~refuses(request)
  /\ done \subseteq removals(request)
  /\ pod' = (IF "pod" \in done THEN "none" ELSE pod)
  /\ sidecar' = (IF done # {} THEN "none" ELSE sidecar)
  /\ app' = (app /\ done \subseteq {"log"})
  /\ \E v \in SUBSET volume, s \in {"absent", "stale", "bound"} :
       /\ IF done # {} THEN stopped(v, s) ELSE v = volume /\ s = sock
       /\ volume' = (IF "log" \in done THEN {} ELSE v)
       /\ sock' = (IF "keylog" \in done THEN "absent" ELSE s)
  /\ captured' = (captured /\ decision(request) = "1")
  /\ outcome' = IF decision(request) # "1" THEN "wiped" ELSE IF pod = "none" THEN outcome ELSE "kept"
  /\ UNCHANGED <<script, run, bound>>

podDownRefused(request) == script = "idle" /\ refuses(request) /\ UNCHANGED podVars

PodNext ==
  \/ createPod \/ runSidecar \/ poll \/ pollTimesOut
  \/ openCapture \/ removeStale \/ listen \/ sidecarEnds
  \/ \E request \in {"", "0", "1"} :
       podDownRefused(request) \/ \E done \in SUBSET {"pod", "keylog", "log"} : podDown(request, done)

PodSpec == PodInit /\ [][PodNext]_podVars

-----------------------------------------------------------------------------
(* Properties.                                                             *)

\* "Sidecar listens on the keylog socket before the app container starts": an app
\* that pod-up.sh started can hand over its first keys.
AppAfterListener == app => bound

\* A pod-down.sh that says it retains a pod's artifacts has kept that run's capture,
\* if the run made one that no pod-down.sh was asked to wipe: the sidecar's --retain,
\* the pod's label and the operator's request agree, however the sidecar ended and
\* whatever podman failed to remove.
RetainedIsKept == outcome = "kept" /\ captured => run \in volume

\* What pod-down.sh says last: the log volume is "wiped".
WipedIsGone == outcome = "wiped" => volume = {}
=============================================================================
