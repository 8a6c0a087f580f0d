------------------------------- MODULE Sidecar -------------------------------
(***************************************************************************)
(* The sidecar's life and what it leaves on disk: Start and Close of       *)
(* cmd/app/app.go with the step of Start that fails, the runs that follow  *)
(* one another in one capture directory (CreateRunCapture, Retention), the *)
(* keylog file, and the age pass beside a capture that grows.              *)
(* A byte is one unit; the file header and every block take one.           *)
(***************************************************************************)
EXTENDS Integers, Functions

CONSTANTS
  None,          \* no capture
  MaxBytes,      \* --max-bytes, 0 for no limit
  MaxAge,        \* --max-age in seconds, 0 for no limit
  maxRunSuffix,  \* the highest suffix of a capture name
  FilesMayFail,  \* directories may be unreadable and files undeletable
  HeaderMayFail, \* the header of a new capture may fail to be written
  MaxRuns,       \* bound: runs
  MaxTime,       \* bound: the clock, in seconds
  MaxSize        \* bound: the size of one capture

HeaderSize == 1
Names == (0 .. MaxTime) \X (0 .. maxRunSuffix)  \* start second, suffix
Subsystems == {"ticks", "live", "capture", "keylog", "relay", "loader"}

ASSUME LimitsAssumption ==
  /\ None \notin Names
  /\ MaxBytes \in Nat /\ MaxAge \in Nat /\ maxRunSuffix \in Nat
  /\ MaxRuns \in Nat /\ MaxTime \in Nat /\ MaxSize \in Nat

VARIABLES
  pc,       \* the step of Start or Close, "running" or "down"
  run,      \* the number of this run
  retain,   \* --retain of this run
  up,       \* the subsystems App holds
  keylog,   \* the runs that opened the keylog file; {} when there is none
  caps,     \* the owned captures: name -> [run, size, mtime]
  runCap,   \* Retention.Run
  room,     \* Writer.room
  stopped,  \* the capture has stopped at its room
  pass,     \* the age pass of the ticker's goroutine
  doomed,   \* captures Enforce listed as expired and still has to delete
  newRoom,  \* what Room returned to enforceRetention
  clock,
  ended     \* history: how the last run ended

proc    == <<pc, run, retain, up>>
ticker  == <<pass, doomed, newRoom>>
capture == <<runCap, room, stopped>>
files   == <<keylog, caps>>
vars    == <<proc, ticker, capture, files, clock, ended>>

Init ==
  /\ pc = "down" /\ run = 0 /\ retain = FALSE /\ up = {}
  /\ pass = "none" /\ doomed = {} /\ newRoom = 0
  /\ runCap = None /\ room = 0 /\ stopped = FALSE
  /\ keylog = {} /\ caps = <<>>
  /\ clock = 0 /\ ended = "clean"

-----------------------------------------------------------------------------
(* Retention.                                                              *)

finished == DOMAIN caps \ {runCap}

\* What Enforce deletes.
expired_Created == {n \in finished : MaxAge > 0 /\ clock - n[1] > MaxAge}
expired == {n \in finished : MaxAge > 0 /\ clock - caps[n].mtime > MaxAge}

sizes == [n \in DOMAIN caps |-> caps[n].size]
OwnedBytes == SumFunctionOnSet(sizes, finished)

Room_Expected == IF MaxBytes = 0 THEN 0 ELSE MaxBytes - SumFunctionOnSet(sizes, finished \ expired)
Room == IF MaxBytes = 0 THEN 0 ELSE MaxBytes - OwnedBytes

\* One os.Remove of Enforce: it goes on after a failure.
removeExpired ==
  \E n \in doomed :
    /\ doomed' = doomed \ {n}
    /\ \/ caps' = Restrict(caps, DOMAIN caps \ {n})
       \/ FilesMayFail /\ caps' = caps

-----------------------------------------------------------------------------
(* Start.                                                                  *)

Start_KeepsKeylog ==
  /\ pc = "down" /\ run < MaxRuns
  /\ run' = run + 1 /\ retain' \in BOOLEAN
  /\ pc' = "load" /\ ended' = "no"
  /\ UNCHANGED <<up, ticker, capture, files, clock>>
\* Up to ebpf.Load.
Start ==
  /\ pc = "down" /\ run < MaxRuns
  /\ run' = run + 1 /\ retain' \in BOOLEAN
  /\ keylog' = {}
  /\ pc' = "load" /\ ended' = "no"
  /\ UNCHANGED <<up, ticker, capture, caps, clock>>

\* A keylog directory that is refused, or a leftover keylog that cannot be deleted.
startRefused ==
  /\ pc = "down" /\ run < MaxRuns
  /\ run' = run + 1
  /\ UNCHANGED <<pc, retain, up, ticker, capture, files, clock, ended>>

\* A failed ebpf.Load is the one that does not go through Close.
loadFails ==
  /\ pc = "load"
  /\ pc' = "down" /\ ended' = "clean"
  /\ UNCHANGED <<run, retain, up, ticker, capture, files, clock>>

starts(at, next, sub) ==
  /\ pc = at
  /\ pc' = next /\ up' = up \cup sub
  /\ UNCHANGED <<run, retain, ticker, capture, caps, clock, ended>>

startFails ==
  /\ pc \in {"attach", "listen", "size", "keylog", "live"}
  /\ pc' = "close"
  /\ UNCHANGED <<run, retain, up, ticker, capture, files, clock, ended>>

load   == starts("load", "attach", {"loader"}) /\ UNCHANGED keylog
attach == starts("attach", "listen", {}) /\ UNCHANGED keylog
listen == starts("listen", "check", {"relay"}) /\ UNCHANGED keylog

\* CheckTarget refuses the capture directory.
targetRefused ==
  /\ pc = "check"
  /\ pc' = "close"
  /\ UNCHANGED <<run, retain, up, ticker, capture, files, clock, ended>>

\* openCapture up to the listing of its Enforce, which may fail.
openCapture ==
  /\ pc = "check"
  /\ pc' = "enforce"
  /\ doomed' = expired \/ (FilesMayFail /\ doomed' = {})
  /\ UNCHANGED <<run, retain, up, pass, newRoom, capture, files, clock, ended>>

enforceAtStart ==
  /\ pc = "enforce"
  /\ \/ removeExpired /\ pc' = pc
     \/ doomed = {} /\ pc' = "size" /\ UNCHANGED <<doomed, caps>>
  /\ UNCHANGED <<run, retain, up, pass, newRoom, capture, keylog, clock, ended>>

noRoom == MaxBytes > 0 /\ Room < HeaderSize

openWithout ==
  /\ pc = "size" /\ noRoom
  /\ pc' = "keylog"
  /\ UNCHANGED <<run, retain, up, ticker, capture, files, clock, ended>>

free_Overwrites == {n \in Names : n[1] = clock}
\* The names of this second that O_EXCL lets NewWriter create.
free == {n \in Names : n[1] = clock /\ n \notin DOMAIN caps}

\* CreateRunCapture: the lowest free name, and the header.
create ==
  /\ pc = "size" /\ ~noRoom
  /\ \E n \in free :
       /\ \A m \in free : n[2] <= m[2]
       /\ LET file == [run |-> run, size |-> HeaderSize, mtime |-> clock]
          IN  caps' = [m \in DOMAIN caps \cup {n} |-> IF m = n THEN file ELSE caps[m]]
       /\ \/ /\ pc' = "keylog" /\ up' = up \cup {"capture"}
             /\ runCap' = n /\ room' = Room /\ stopped' = FALSE
          \/ /\ HeaderMayFail
             /\ pc' = "close"
             /\ UNCHANGED <<up, capture>>
  /\ UNCHANGED <<run, retain, ticker, keylog, clock, ended>>

startKeylog == starts("keylog", IF runCap = None THEN "ready" ELSE "live", {"keylog"})
                 /\ keylog' = keylog \cup {run}
startLive   == starts("live", "ready", {"live"}) /\ UNCHANGED keylog

\* RetentionTick may be zero, and then there are no age passes.
startTicks ==
  /\ pc = "ready"
  /\ pc' = "running" /\ up' = up \cup {"ticks"} /\ pass' \in {"idle", "none"}
  /\ UNCHANGED <<run, retain, doomed, newRoom, capture, files, clock, ended>>

-----------------------------------------------------------------------------
(* The run.                                                                *)

\* A packet or a secret is admitted, or is the first refused.
Write ==
  /\ "capture" \in up /\ up \cap {"live", "keylog"} # {} /\ ~stopped
  /\ IF MaxBytes > 0 /\ caps[runCap].size + 1 > room
     THEN stopped' = TRUE /\ caps' = caps
     ELSE /\ caps[runCap].size < MaxSize
          /\ caps' = [caps EXCEPT ![runCap] = [run |-> @.run, size |-> @.size + 1, mtime |-> clock]]
          /\ stopped' = stopped
  /\ UNCHANGED <<proc, ticker, runCap, room, keylog, clock, ended>>

\* A tick of enforceRetentionPeriodically.  Close does not wait for the goroutine,
\* and its select may take a tick that is due before the closed stop channel.
enforceRetention ==
  /\ pass = "idle"
  /\ pass' = "enforce"
  /\ doomed' = expired \/ (FilesMayFail /\ doomed' = {})
  /\ UNCHANGED <<proc, newRoom, capture, files, clock, ended>>

enforce_NoRoom ==
  /\ pass = "enforce"
  /\ (removeExpired /\ pass' = pass) \/ (doomed = {} /\ pass' = "idle" /\ UNCHANGED <<doomed, caps>>)
  /\ UNCHANGED <<proc, newRoom, capture, keylog, clock, ended>>
\* The rest of the pass's Enforce.
enforce ==
  /\ pass = "enforce"
  /\ \/ removeExpired /\ pass' = pass
     \/ /\ doomed = {} /\ UNCHANGED <<doomed, caps>>
        /\ pass' = IF runCap = None THEN "idle" ELSE "room"
  /\ UNCHANGED <<proc, newRoom, capture, keylog, clock, ended>>

measureRoom ==
  /\ pass = "room"
  /\ \/ pass' = "set" /\ newRoom' = Room
     \/ FilesMayFail /\ MaxBytes > 0 /\ pass' = "idle" /\ newRoom' = newRoom
  /\ UNCHANGED <<proc, doomed, capture, files, clock, ended>>

SetRoom ==
  /\ pass = "set"
  /\ pass' = "idle"
  /\ room' = newRoom
  /\ UNCHANGED <<proc, doomed, newRoom, runCap, stopped, files, clock, ended>>

tickerReturns_Once == pass = "idle" /\ pass' = "none" /\ UNCHANGED <<proc, doomed, newRoom, capture, files, clock, ended>>
tickerReturns ==
  /\ pass = "idle" /\ "ticks" \notin up
  /\ pass' = "none"
  /\ UNCHANGED <<proc, doomed, newRoom, capture, files, clock, ended>>

-----------------------------------------------------------------------------
(* Close.                                                                  *)

signal ==
  /\ pc = "running"
  /\ pc' = "close"
  /\ UNCHANGED <<run, retain, up, ticker, capture, files, clock, ended>>

rank(s) ==
  CASE s = "ticks" -> 1 [] s = "live" -> 2 [] s = "capture" -> 3
    [] s = "keylog" -> 4 [] s = "relay" -> 5 [] s = "loader" -> 6

\* One subsystem is closed, whether or not its Close returns an error.
closeNext ==
  /\ pc = "close"
  /\ \E s \in up : (\A t \in up : rank(s) <= rank(t)) /\ up' = up \ {s}
  /\ UNCHANGED <<pc, run, retain, ticker, capture, files, clock, ended>>

Cleanup ==
  /\ pc = "close" /\ up = {}
  /\ pc' = "delete"
  /\ \/ /\ caps' = IF retain THEN caps ELSE Restrict(caps, DOMAIN caps \ {runCap})
        /\ UNCHANGED ended
     \/ FilesMayFail /\ ~retain /\ runCap # None /\ ended' = "dirty" /\ UNCHANGED caps
  /\ UNCHANGED <<run, retain, up, ticker, capture, keylog, clock>>

gone == pass' = "none" /\ doomed' = {} /\ newRoom' = 0 /\ runCap' = None /\ room' = 0 /\ stopped' = FALSE

deleteKeylog_Retained ==
  /\ pc = "delete"
  /\ pc' = "down" /\ ended' = IF ended = "no" THEN "clean" ELSE ended
  /\ keylog' = IF retain THEN keylog ELSE {}
  /\ gone
  /\ UNCHANGED <<run, retain, up, caps, clock>>
\* deleteKeylog, and the process exits.
deleteKeylog ==
  /\ pc = "delete"
  /\ pc' = "down"
  /\ \/ keylog' = {} /\ ended' = IF ended = "no" THEN "clean" ELSE ended
     \/ FilesMayFail /\ keylog # {} /\ keylog' = keylog /\ ended' = "dirty"
  /\ gone
  /\ UNCHANGED <<run, retain, up, caps, clock>>

\* Killed: what was held in memory never reaches the capture file.
Kill ==
  /\ pc # "down"
  /\ pc' = "down" /\ up' = {} /\ ended' = "dirty"
  /\ IF runCap \in DOMAIN caps
     THEN \E s \in HeaderSize .. caps[runCap].size : caps' = [caps EXCEPT ![runCap].size = s]
     ELSE UNCHANGED caps
  /\ gone
  /\ UNCHANGED <<run, retain, keylog, clock>>

Tick ==
  /\ clock < MaxTime
  /\ clock' = clock + 1
  /\ UNCHANGED <<proc, ticker, capture, files, ended>>

Next ==
  \/ Start \/ startRefused \/ loadFails \/ startFails \/ load \/ attach \/ listen
  \/ targetRefused \/ openCapture \/ enforceAtStart \/ openWithout \/ create
  \/ startKeylog \/ startLive \/ startTicks
  \/ Write \/ enforceRetention \/ enforce \/ measureRoom \/ SetRoom \/ tickerReturns
  \/ signal \/ closeNext \/ Cleanup \/ deleteKeylog \/ Kill \/ Tick

\* A ticker that is started fires for ever and its goroutine is scheduled.  Nothing makes a
\* signal, a packet or a start come.
Fairness ==
  /\ WF_vars(enforceRetention) /\ WF_vars(enforce)
  /\ WF_vars(measureRoom) /\ WF_vars(SetRoom)

Spec == Init /\ [][Next]_vars

FairSpec == Spec /\ Fairness

-----------------------------------------------------------------------------
(* Properties.                                                             *)

\* The captures of all the runs together stay within --max-bytes, at every
\* moment: whatever earlier runs left, killed ones included, whichever deletions
\* fail, and however old the room is that the age pass hands to a capture that
\* has been growing meanwhile ("MaxBytes limits what the owned captures hold
\* together, this run's included").
WithinMaxBytes == MaxBytes > 0 => SumFunction(sizes) <= MaxBytes

\* A capture goes only for its age, counted from its last write, once its run is
\* over, or in the Close of its own run without --retain: never this run's
\* however long it has been idle, and never one an earlier run kept.
OnlyDueDeleted ==
  [][\A n \in DOMAIN caps \ DOMAIN caps' :
       \/ n # runCap /\ MaxAge > 0 /\ clock - caps[n].mtime > MaxAge
       \/ n = runCap /\ pc = "close" /\ ~retain]_vars

\* A capture changes only while the run that created it goes on, and then grows
\* or is cut short by a kill.  Once the run is over, the file keeps its size and
\* the time its age counts from until it is deleted: no later run writes to it,
\* one that starts in the same second or after a kill included ("never followed,
\* truncated or overwritten").
FinishedUnchanged ==
  [][\A n \in DOMAIN caps \cap DOMAIN caps' :
       \/ caps'[n] = caps[n]
       \/ /\ n = runCap /\ caps[n].run = run /\ caps'[n].run = run
          /\ caps'[n].size > caps[n].size \/ pc' = "down"]_vars

\* Once a run has ended in order, with or without a Start that failed, nothing
\* of it is left: no subsystem, no keylog and, unless kept, no capture.
EndedClean ==
  pc = "down" /\ ended = "clean" =>
    /\ up = {} /\ keylog = {}
    /\ retain \/ \A n \in DOMAIN caps : caps[n].run # run

\* The keylog holds one run's keys: while the server may append, nothing of a
\* run that was killed, or whose keylog could not be deleted, is in the file.
KeylogOfOneRun == "keylog" \in up => keylog = {run}

\* The pass's listing and its deletion of n do not fail for ever.
DeletionSucceeds(n) ==
  /\ []<>(pass = "idle" /\ n \in expired) => []<><<enforceRetention /\ n \in doomed'>>_vars
  /\ []<>(pass = "enforce" /\ n \in doomed) => []<><<enforce /\ n \notin DOMAIN caps'>>_vars

\* While a sidecar with age passes runs, a finished capture past its age is
\* deleted, by a later pass if not by the first: only a deletion that fails every
\* time keeps it.
ExpiredDeleted ==
  \A n \in Names :
    DeletionSucceeds(n) =>
      ((pc = "running" /\ pass # "none" /\ n \in expired) ~> (n \notin DOMAIN caps \/ pc # "running"))

MeasuringSucceeds == []<>(pass = "room") => []<><<measureRoom /\ pass' = "set">>_vars

\* The room that a deleted capture frees reaches a capture that is running, after
\* passes that could not measure it.
FreedRoomUsed ==
  MeasuringSucceeds =>
    ((pc = "running" /\ pass # "none" /\ runCap # None /\ room # Room)
       ~> (room = Room \/ pc # "running"))
=============================================================================
