----------------------------- MODULE SidecarProofs -----------------------------
(***************************************************************************)
(* What a run deletes, what it leaves, whose keys the keylog holds and how *)
(* many bytes the captures take, for any number of runs, captures, names.  *)
(***************************************************************************)
EXTENDS Sidecar, Sums, TLAPS

Record == [run : Nat, size : Nat, mtime : Nat]
Early  == {"load", "attach", "listen", "check", "enforce", "size", "keylog"}

\* The captures are files of runs up to this one, and Retention.Run names one of
\* this run.  What Enforce still has to delete is not this run's and was, and so
\* is, past its age.
FilesInv ==
  /\ DOMAIN caps \subseteq Names /\ \A n \in DOMAIN caps : caps[n] \in Record
  /\ run \in Nat /\ clock \in Nat
  /\ \A n \in DOMAIN caps : caps[n].run <= run
  /\ runCap \in Names \cup {None}
  /\ runCap \in DOMAIN caps => caps[runCap].run = run
  /\ pc \in {"load", "attach", "listen", "check", "enforce", "size", "down"} => runCap = None
  /\ pc \notin {"enforce", "running", "close", "delete"} => doomed = {}
  /\ pc \notin {"running", "close", "delete"} => pass = "none"
  /\ \A n \in doomed :
       n # runCap /\ MaxAge > 0 /\ (n \in DOMAIN caps => clock - caps[n].mtime > MaxAge)

\* The keylog is empty until this run opens it, and the server is gone before the
\* keylog is deleted.
KeylogInv ==
  /\ pc \in Early => keylog = {} /\ "keylog" \notin up
  /\ pc \in {"delete", "down", "load"} => up = {}
  /\ "keylog" \in up => keylog = {run}

\* A run that is not over has no capture but the one it may delete.
EndInv ==
  /\ pc # "down" => \A n \in DOMAIN caps : caps[n].run = run => n = runCap
  /\ pc = "delete" /\ ended = "no" => retain \/ \A n \in DOMAIN caps : caps[n].run # run
  /\ ended = "clean" => pc = "down"
  /\ EndedClean

\* One deletion of Enforce, at Start or in the age pass.
LEMMA RemoveExpired ==
  ASSUME removeExpired
  PROVE  /\ doomed' \subseteq doomed
         /\ DOMAIN caps' \subseteq DOMAIN caps /\ \A n \in DOMAIN caps' : caps'[n] = caps[n]
         /\ DOMAIN caps \ DOMAIN caps' \subseteq doomed
<1>1. PICK n \in doomed : /\ doomed' = doomed \ {n}
                          /\ \/ caps' = Restrict(caps, DOMAIN caps \ {n})
                             \/ caps' = caps
  BY DEF removeExpired
<1>2. CASE caps' = Restrict(caps, DOMAIN caps \ {n})
  BY <1>1, <1>2 DEF Restrict
<1>3. CASE caps' = caps
  BY <1>1, <1>3
<1> QED
  BY <1>1, <1>2, <1>3

\* A capture that grows, or that a kill cuts short, stays the file it is.
LEMMA WriteKeeps ==
  ASSUME FilesInv, Write
  PROVE  /\ DOMAIN caps' = DOMAIN caps
         /\ \A n \in DOMAIN caps : caps'[n] \in Record /\ caps'[n].run = caps[n].run
         /\ \A n \in DOMAIN caps : n # runCap => caps'[n] = caps[n]
         /\ \A n \in DOMAIN caps : caps'[n] = caps[n] \/ caps'[n].size > caps[n].size
BY DEF FilesInv, Write, Record

\* A kill cuts only the capture that was being written.
LEMMA KillKeeps ==
  ASSUME FilesInv, Kill
  PROVE  /\ DOMAIN caps' = DOMAIN caps
         /\ \A n \in DOMAIN caps : caps'[n] \in Record /\ caps'[n].run = caps[n].run
         /\ \A n \in DOMAIN caps : n # runCap => caps'[n] = caps[n]
<1>1. CASE UNCHANGED caps
  BY <1>1 DEF FilesInv
<1>2. CASE \E s \in HeaderSize .. caps[runCap].size : caps' = [caps EXCEPT ![runCap].size = s]
  BY <1>2 DEF FilesInv, Record, HeaderSize
<1> QED
  BY <1>1, <1>2 DEF Kill

\* CreateRunCapture adds one file, of this run, under a name that was free.
LEMMA CreateAdds ==
  ASSUME FilesInv, create
  PROVE  \E n \in Names \ DOMAIN caps :
           /\ DOMAIN caps' = DOMAIN caps \cup {n}
           /\ \A m \in DOMAIN caps : caps'[m] = caps[m]
           /\ caps'[n] \in Record /\ caps'[n].run = run
           /\ \/ runCap' = n /\ pc' = "keylog" /\ up' = up \cup {"capture"}
              \/ HeaderMayFail /\ pc' = "close" /\ UNCHANGED <<up, runCap>>
<1>1. PICK n \in free :
        /\ caps' = [m \in DOMAIN caps \cup {n} |->
                      IF m = n THEN [run |-> run, size |-> HeaderSize, mtime |-> clock] ELSE caps[m]]
        /\ \/ runCap' = n /\ pc' = "keylog" /\ up' = up \cup {"capture"}
           \/ HeaderMayFail /\ pc' = "close" /\ UNCHANGED <<up, runCap>>
  BY DEF create, capture
<1>2. n \in Names \ DOMAIN caps
  BY DEF free
<1> QED
  BY <1>1, <1>2 DEF FilesInv, Record, HeaderSize

\* What no action below touches keeps FilesInv.
LEMMA FilesFrame ==
  ASSUME FilesInv, UNCHANGED <<run, ticker, runCap, caps, clock>>,
         pc' \in {"load", "attach", "listen", "check", "enforce", "size", "down"} => runCap = None,
         pc' \notin {"enforce", "running", "close", "delete"} => doomed = {},
         pc' \notin {"running", "close", "delete"} => pass = "none"
  PROVE  FilesInv'
BY DEF FilesInv, ticker

\* Files that go, and a work list of Enforce that only shrinks.
LEMMA FilesShrink ==
  ASSUME FilesInv, UNCHANGED <<run, clock>>,
         DOMAIN caps' \subseteq DOMAIN caps, \A n \in DOMAIN caps' : caps'[n] = caps[n],
         doomed' \subseteq doomed, UNCHANGED <<runCap>>,
         pc' \in {"load", "attach", "listen", "check", "enforce", "size", "down"} => runCap = None,
         pc' \notin {"enforce", "running", "close", "delete"} => doomed' = {},
         pc' \notin {"running", "close", "delete"} => pass' = "none"
  PROVE  FilesInv'
BY DEF FilesInv

\* FilesInv holds at first and every step keeps it.
LEMMA FilesInvariant == Spec => []FilesInv
<1>1. Init => FilesInv
  BY LimitsAssumption DEF Init, FilesInv
<1>2. FilesInv /\ [Next]_vars => FilesInv'
  <2> SUFFICES ASSUME FilesInv, [Next]_vars PROVE FilesInv'
    OBVIOUS
  <2>0. None \notin DOMAIN caps
    BY LimitsAssumption DEF FilesInv
  <2>1. CASE Start
    BY <2>0, <2>1 DEF FilesInv, Start, ticker, capture, Record
  <2>2. CASE startRefused
    BY <2>0, <2>2 DEF FilesInv, startRefused, ticker, capture, files, Record
  <2>3. CASE loadFails \/ startFails \/ load \/ attach \/ listen \/ targetRefused
             \/ startKeylog \/ startLive \/ openWithout \/ signal \/ closeNext
    <3>1. UNCHANGED <<run, ticker, runCap, caps, clock>>
      BY <2>3 DEF loadFails, startFails, load, attach, listen, targetRefused, startKeylog, startLive,
                  openWithout, signal, closeNext, starts, ticker, capture, files
    <3>2. pc' \in {"load", "attach", "listen", "check", "enforce", "size", "down"} => runCap = None
      BY <2>3 DEF FilesInv, loadFails, startFails, load, attach, listen, targetRefused, startKeylog,
                  startLive, openWithout, signal, closeNext, starts
    <3>3. pc' \notin {"enforce", "running", "close", "delete"} => doomed = {}
      BY <2>3 DEF FilesInv, loadFails, startFails, load, attach, listen, targetRefused, startKeylog,
                  startLive, openWithout, signal, closeNext, starts
    <3>4. pc' \notin {"running", "close", "delete"} => pass = "none"
      BY <2>3 DEF FilesInv, loadFails, startFails, load, attach, listen, targetRefused, startKeylog,
                  startLive, openWithout, signal, closeNext, starts
    <3> QED
      BY <3>1, <3>2, <3>3, <3>4, FilesFrame
  <2>4. CASE openCapture
    BY <2>4 DEF FilesInv, openCapture, expired, finished, capture, files
  <2>5. CASE enforceAtStart
    <3>1. CASE removeExpired
      BY <2>5, <3>1, RemoveExpired, FilesShrink DEF FilesInv, enforceAtStart, capture
    <3>2. CASE doomed = {} /\ pc' = "size" /\ UNCHANGED <<doomed, caps>>
      BY <2>5, <3>2, FilesShrink DEF FilesInv, enforceAtStart, capture
    <3> QED
      BY <2>5, <3>1, <3>2 DEF enforceAtStart
  <2>6. CASE create
    <3>1. UNCHANGED <<run, doomed, pass, clock>> /\ pc = "size"
      BY <2>6 DEF create, ticker
    <3>2. doomed = {} /\ pass = "none" /\ run \in Nat
      BY <3>1 DEF FilesInv
    <3>3. PICK n \in Names \ DOMAIN caps :
            /\ DOMAIN caps' = DOMAIN caps \cup {n}
            /\ \A m \in DOMAIN caps : caps'[m] = caps[m]
            /\ caps'[n] \in Record /\ caps'[n].run = run
            /\ \/ runCap' = n /\ pc' = "keylog"
               \/ pc' = "close" /\ runCap' = runCap
      BY <2>6, CreateAdds
    <3>4. \A m \in DOMAIN caps' : m \in Names /\ caps'[m] \in Record /\ caps'[m].run <= run
      BY <3>2, <3>3 DEF FilesInv
    <3> QED
      BY <3>1, <3>2, <3>3, <3>4 DEF FilesInv
  <2>7. CASE startTicks
    BY <2>7 DEF FilesInv, startTicks, capture, files
  <2>8. CASE Write
    <3>1. UNCHANGED <<pc, run, pass, doomed, runCap, clock>>
      BY <2>8 DEF Write, proc, ticker
    <3> QED
      BY <2>8, <3>1, WriteKeeps DEF FilesInv
  <2>9. CASE enforceRetention
    BY <2>9 DEF FilesInv, enforceRetention, expired, finished, proc, capture, files
  <2>10. CASE enforce
    <3>1. CASE removeExpired
      BY <2>10, <3>1, RemoveExpired, FilesShrink DEF FilesInv, enforce, proc, capture
    <3>2. CASE doomed = {} /\ UNCHANGED <<doomed, caps>>
      BY <2>10, <3>2, FilesShrink DEF FilesInv, enforce, proc, capture
    <3> QED
      BY <2>10, <3>1, <3>2 DEF enforce
  <2>11. CASE measureRoom
    BY <2>11 DEF FilesInv, measureRoom, proc, capture, files
  <2>12. CASE SetRoom
    BY <2>12 DEF FilesInv, SetRoom, proc, files
  <2>13. CASE tickerReturns
    BY <2>13 DEF FilesInv, tickerReturns, proc, capture, files
  <2>14. CASE Cleanup
    <3>1. DOMAIN caps' \subseteq DOMAIN caps /\ \A n \in DOMAIN caps' : caps'[n] = caps[n]
      BY <2>14 DEF Cleanup, Restrict
    <3> QED
      BY <2>14, <3>1, FilesShrink DEF Cleanup, ticker, capture
  <2>15. CASE deleteKeylog
    BY <2>0, <2>15 DEF FilesInv, deleteKeylog, gone
  <2>16. CASE Kill
    <3>1. UNCHANGED <<run, clock>> /\ pc' = "down" /\ pass' = "none" /\ doomed' = {} /\ runCap' = None
      BY <2>16 DEF Kill, gone
    <3> QED
      BY <2>0, <2>16, <3>1, KillKeeps DEF FilesInv
  <2>17. CASE Tick
    <3>1. clock' = clock + 1 /\ UNCHANGED <<pc, run, pass, doomed, runCap, caps>>
      BY <2>17 DEF Tick, proc, ticker, capture, files
    <3> QED
      BY <3>1, LimitsAssumption DEF FilesInv, Record
  <2>18. CASE UNCHANGED vars
    BY <2>18 DEF FilesInv, vars, proc, ticker, capture, files
  <2> QED
    BY <2>1, <2>2, <2>3, <2>4, <2>5, <2>6, <2>7, <2>8, <2>9, <2>10, <2>11, <2>12, <2>13, <2>14,
       <2>15, <2>16, <2>17, <2>18 DEF Next
<1> QED
  BY <1>1, <1>2, PTL DEF Spec

\* No file goes but for its age after its run, or in its own run's Close without
\* --retain (Enforce and Cleanup of retention.go), whatever deletions fail and
\* however the age pass, the writes and Close interleave.
THEOREM DueDeleted == Spec => OnlyDueDeleted
<1> DEFINE Due(n) == \/ n # runCap /\ MaxAge > 0 /\ clock - caps[n].mtime > MaxAge
                     \/ n = runCap /\ pc = "close" /\ ~retain
           Step == \A n \in DOMAIN caps \ DOMAIN caps' : Due(n)
<1>1. FilesInv /\ [Next]_vars => [Step]_vars
  <2> SUFFICES ASSUME FilesInv, Next PROVE Step
    OBVIOUS
  <2>1. CASE enforceAtStart \/ enforce
    <3>1. CASE removeExpired
      BY <3>1, RemoveExpired DEF FilesInv
    <3>2. CASE UNCHANGED caps
      BY <3>2
    <3> QED
      BY <2>1, <3>1, <3>2 DEF enforceAtStart, enforce
  <2>2. CASE Cleanup
    BY <2>2 DEF Cleanup, Restrict
  <2>3. CASE create
    BY <2>3, CreateAdds, Zenon
  <2>4. CASE Write
    BY <2>4, WriteKeeps
  <2>5. CASE Kill
    BY <2>5, KillKeeps
  <2>6. CASE UNCHANGED caps
    BY <2>6
  <2> QED
    BY <2>1, <2>2, <2>3, <2>4, <2>5, <2>6
       DEF Next, Start, startRefused, loadFails, startFails, load, attach, listen, starts, targetRefused,
           openCapture, openWithout, startKeylog, startLive, startTicks, enforceRetention, measureRoom,
           SetRoom, tickerReturns, signal, closeNext, deleteKeylog, Tick, files
<1> QED
  BY <1>1, FilesInvariant, PTL DEF Spec, OnlyDueDeleted

\* Only the run that created a capture changes it, and only until that run is
\* over (Retention.Run, and O_EXCL in CreateRunCapture's loop), under any number
\* of starts in one second and of kills.
THEOREM FinishedStay == Spec => FinishedUnchanged
<1> DEFINE Step == \A n \in DOMAIN caps \cap DOMAIN caps' :
                     \/ caps'[n] = caps[n]
                     \/ /\ n = runCap /\ caps[n].run = run /\ caps'[n].run = run
                        /\ caps'[n].size > caps[n].size \/ pc' = "down"
<1>1. FilesInv /\ [Next]_vars => [Step]_vars
  <2> SUFFICES ASSUME FilesInv, Next PROVE Step
    OBVIOUS
  <2>1. CASE enforceAtStart \/ enforce
    <3>1. CASE removeExpired
      BY <3>1, RemoveExpired
    <3>2. CASE UNCHANGED caps
      BY <3>2
    <3> QED
      BY <2>1, <3>1, <3>2 DEF enforceAtStart, enforce
  <2>2. CASE Cleanup
    BY <2>2 DEF Cleanup, Restrict
  <2>3. CASE create
    BY <2>3, CreateAdds, Zenon
  <2>4. CASE Write
    BY <2>4, WriteKeeps DEF FilesInv
  <2>5. CASE Kill
    <3>1. pc' = "down"
      BY <2>5 DEF Kill
    <3> QED
      BY <2>5, <3>1, KillKeeps DEF FilesInv
  <2>6. CASE UNCHANGED caps
    BY <2>6
  <2> QED
    BY <2>1, <2>2, <2>3, <2>4, <2>5, <2>6
       DEF Next, Start, startRefused, loadFails, startFails, load, attach, listen, starts, targetRefused,
           openCapture, openWithout, startKeylog, startLive, startTicks, enforceRetention, measureRoom,
           SetRoom, tickerReturns, signal, closeNext, deleteKeylog, Tick, files
<1> QED
  BY <1>1, FilesInvariant, PTL DEF Spec, FinishedUnchanged

\* Every step keeps KeylogInv.
LEMMA KeylogInvariant == Spec => []KeylogInv
<1>1. Init => KeylogInv
  BY DEF Init, KeylogInv, Early
<1>2. KeylogInv /\ [Next]_vars => KeylogInv'
  <2> SUFFICES ASSUME KeylogInv, [Next]_vars PROVE KeylogInv'
    OBVIOUS
  <2> USE DEF KeylogInv, Early
  <2>1. CASE Start
    BY <2>1 DEF Start
  <2>2. CASE startRefused
    BY <2>2 DEF startRefused, files
  <2>3. CASE loadFails \/ startFails \/ targetRefused \/ signal
    BY <2>3 DEF loadFails, startFails, targetRefused, signal, files
  <2>4. CASE load \/ attach \/ listen
    BY <2>4 DEF load, attach, listen, starts
  <2>5. CASE startKeylog
    BY <2>5 DEF startKeylog, starts
  <2>6. CASE startLive \/ startTicks
    BY <2>6 DEF startLive, startTicks, starts, files
  <2>7. CASE openCapture \/ enforceAtStart \/ openWithout
    BY <2>7 DEF openCapture, enforceAtStart, openWithout, files
  <2>8. CASE create
    BY <2>8 DEF create
  <2>9. CASE Write \/ enforceRetention \/ enforce \/ measureRoom \/ SetRoom \/ tickerReturns \/ Tick
    BY <2>9 DEF Write, enforceRetention, enforce, measureRoom, SetRoom, tickerReturns, Tick, proc, files
  <2>10. CASE closeNext
    BY <2>10 DEF closeNext, files
  <2>11. CASE Cleanup
    BY <2>11 DEF Cleanup
  <2>12. CASE deleteKeylog \/ Kill
    BY <2>12 DEF deleteKeylog, Kill
  <2>13. CASE UNCHANGED vars
    BY <2>13 DEF vars, proc, files
  <2> QED
    BY <2>1, <2>2, <2>3, <2>4, <2>5, <2>6, <2>7, <2>8, <2>9, <2>10, <2>11, <2>12, <2>13 DEF Next
<1> QED
  BY <1>1, <1>2, PTL DEF Spec

\* While the keylog server may append, the file holds this run's keys alone: a
\* keylog a killed run left is gone before the listener is up (Start of app.go).
THEOREM OneRun == Spec => []KeylogOfOneRun
<1>1. KeylogInv => KeylogOfOneRun
  BY DEF KeylogInv, KeylogOfOneRun
<1> QED
  BY <1>1, KeylogInvariant, PTL

\* A run that ended in order leaves nothing behind (Close of app.go), if no header
\* of a new capture fails to be written.  The run sidecar_leak shows that the
\* hypothesis is needed.
THEOREM LeavesNothing ==
  ASSUME HeaderMayFail = FALSE
  PROVE  Spec => []EndedClean
<1>1. Init => EndInv
  BY DEF Init, EndInv, EndedClean
<1>2. FilesInv /\ KeylogInv /\ EndInv /\ [Next]_vars => EndInv'
  <2> SUFFICES ASSUME FilesInv, KeylogInv, EndInv, [Next]_vars PROVE EndInv'
    OBVIOUS
  <2>1. CASE Start
    BY <2>1 DEF Start, FilesInv, EndInv, EndedClean, capture, Record
  <2>2. CASE startRefused
    BY <2>2 DEF startRefused, FilesInv, EndInv, EndedClean, files, Record
  <2>3. CASE loadFails
    <3>1. up = {} /\ keylog = {} /\ runCap = None /\ UNCHANGED <<run, up, keylog, caps>> /\ pc' = "down"
      BY <2>3 DEF loadFails, FilesInv, KeylogInv, Early, files
    <3>2. \A n \in DOMAIN caps : caps[n].run # run
      BY <2>3, <3>1, LimitsAssumption DEF loadFails, FilesInv, EndInv
    <3> QED
      BY <3>1, <3>2 DEF EndInv, EndedClean
  <2>4. CASE startFails \/ targetRefused \/ signal \/ openWithout \/ startTicks \/ openCapture
    BY <2>4 DEF startFails, targetRefused, signal, openWithout, startTicks, openCapture, capture, files,
                EndInv, EndedClean
  <2>5. CASE load \/ attach \/ listen \/ startKeylog \/ startLive
    BY <2>5 DEF load, attach, listen, startKeylog, startLive, starts, capture, EndInv, EndedClean
  <2>6. CASE enforceAtStart \/ enforce
    <3>1. /\ UNCHANGED <<run, retain, up, runCap, keylog, ended>>
          /\ pc' = pc \/ (pc = "enforce" /\ pc' = "size")
      BY <2>6 DEF enforceAtStart, enforce, proc, capture
    <3>2. DOMAIN caps' \subseteq DOMAIN caps /\ \A n \in DOMAIN caps' : caps'[n] = caps[n]
      BY <2>6, RemoveExpired DEF enforceAtStart, enforce
    <3> QED
      BY <3>1, <3>2 DEF EndInv, EndedClean
  <2>7. CASE create
    <3>1. UNCHANGED <<run, ended>> /\ pc = "size"
      BY <2>7 DEF create
    <3>2. PICK n \in Names \ DOMAIN caps :
            /\ DOMAIN caps' = DOMAIN caps \cup {n}
            /\ \A m \in DOMAIN caps : caps'[m] = caps[m]
            /\ runCap' = n /\ pc' = "keylog"
      BY <2>7, CreateAdds
    <3>3. \A m \in DOMAIN caps : caps[m].run # run
      BY <3>1, LimitsAssumption DEF FilesInv, EndInv
    <3> QED
      BY <3>1, <3>2, <3>3 DEF EndInv, EndedClean
  <2>8. CASE Write
    <3>1. UNCHANGED <<pc, run, retain, up, runCap, keylog, ended>>
      BY <2>8 DEF Write, proc
    <3> QED
      BY <2>8, <3>1, WriteKeeps DEF EndInv, EndedClean
  <2>9. CASE enforceRetention \/ measureRoom \/ SetRoom \/ tickerReturns \/ Tick
    BY <2>9 DEF enforceRetention, measureRoom, SetRoom, tickerReturns, Tick, proc, capture, files,
                EndInv, EndedClean
  <2>10. CASE closeNext
    BY <2>10 DEF closeNext, capture, files, EndInv, EndedClean
  <2>11. CASE Cleanup
    <3>1. /\ UNCHANGED <<run, retain, runCap>> /\ pc = "close" /\ pc' = "delete"
          /\ ended' = ended \/ ended' = "dirty"
      BY <2>11 DEF Cleanup, capture
    <3>2. DOMAIN caps' \subseteq DOMAIN caps /\ \A n \in DOMAIN caps' : caps'[n] = caps[n]
      BY <2>11 DEF Cleanup, Restrict
    <3>3. ended' = "dirty" \/ retain \/ runCap \notin DOMAIN caps'
      BY <2>11 DEF Cleanup, Restrict
    <3> QED
      BY <3>1, <3>2, <3>3 DEF EndInv, EndedClean
  <2>12. CASE deleteKeylog
    BY <2>12 DEF deleteKeylog, KeylogInv, EndInv, EndedClean
  <2>13. CASE Kill
    BY <2>13 DEF Kill, EndInv, EndedClean
  <2>14. CASE UNCHANGED vars
    BY <2>14 DEF vars, proc, capture, files, EndInv, EndedClean
  <2> QED
    BY <2>1, <2>2, <2>3, <2>4, <2>5, <2>6, <2>7, <2>8, <2>9, <2>10, <2>11, <2>12, <2>13, <2>14 DEF Next
<1>3. EndInv => EndedClean
  BY DEF EndInv
<1> QED
  BY <1>1, <1>2, <1>3, FilesInvariant, KeylogInvariant, PTL DEF Spec

-----------------------------------------------------------------------------
(* The bytes of all the captures.                                          *)

\* What the captures S of the directory c hold together.
Bytes(c, S) == SumFunctionOnSet([n \in DOMAIN c |-> c[n].size], S)

\* Sums of sizes are natural, and those of fewer captures smaller.
LEMMA BytesPart ==
  ASSUME NEW c, IsFiniteSet(DOMAIN c), \A n \in DOMAIN c : c[n].size \in Nat,
         NEW S \in SUBSET DOMAIN c, NEW T \in SUBSET S
  PROVE  Bytes(c, T) \in Nat /\ Bytes(c, S) \in Nat /\ Bytes(c, T) <= Bytes(c, S)
<1> DEFINE f == [n \in DOMAIN c |-> c[n].size]
<1>1. IsFiniteSet(S)
  BY FS_Subset
<1>2. \A n \in S : f[n] \in Nat
  OBVIOUS
<1> HIDE DEF f
<1>3. /\ SumFunctionOnSet(f, T) \in Nat /\ SumFunctionOnSet(f, S) \in Nat
      /\ SumFunctionOnSet(f, T) <= SumFunctionOnSet(f, S)
  BY <1>1, <1>2, SumPart, Zenon
<1> QED
  BY <1>3 DEF f, Bytes

\* They depend on nothing else of the directory.
LEMMA BytesSame ==
  ASSUME NEW c, NEW d, NEW S, IsFiniteSet(S), S \subseteq DOMAIN c, S \subseteq DOMAIN d,
         \A n \in S : d[n].size = c[n].size
  PROVE  Bytes(d, S) = Bytes(c, S)
<1> DEFINE f == [n \in DOMAIN c |-> c[n].size]
           g == [n \in DOMAIN d |-> d[n].size]
<1>1. \A n \in S : g[n] = f[n]
  OBVIOUS
<1> HIDE DEF f, g
<1>2. SumFunctionOnSet(g, S) = SumFunctionOnSet(f, S)
  BY <1>1, SumAgree, Zenon
<1> QED
  BY <1>2 DEF f, g, Bytes

\* One capture's share.
LEMMA BytesSplit ==
  ASSUME NEW c, IsFiniteSet(DOMAIN c), \A n \in DOMAIN c : c[n].size \in Nat, NEW n \in DOMAIN c
  PROVE  Bytes(c, DOMAIN c) = c[n].size + Bytes(c, DOMAIN c \ {n})
<1> DEFINE f == [m \in DOMAIN c |-> c[m].size]
           D == DOMAIN c
<1>1. (\A m \in D : f[m] \in Int) /\ f[n] = c[n].size /\ n \in D
  OBVIOUS
<1>2. IsFiniteSet(D)
  OBVIOUS
<1> HIDE DEF f, D
<1>3. SumFunctionOnSet(f, D) = f[n] + SumFunctionOnSet(f, D \ {n})
  BY <1>1, <1>2, SumRemove, Zenon
<1> QED
  BY <1>1, <1>3, Zenon DEF f, D, Bytes

\* What r's capture holds, if there is one, and what the others hold.
LEMMA BytesOwned ==
  ASSUME NEW c, IsFiniteSet(DOMAIN c), \A n \in DOMAIN c : c[n].size \in Nat, NEW r
  PROVE  /\ Bytes(c, DOMAIN c) \in Nat /\ Bytes(c, DOMAIN c \ {r}) \in Nat
         /\ r \in DOMAIN c => Bytes(c, DOMAIN c) = c[r].size + Bytes(c, DOMAIN c \ {r})
         /\ r \notin DOMAIN c => Bytes(c, DOMAIN c) = Bytes(c, DOMAIN c \ {r})
<1>1. DOMAIN c \ {r} \in SUBSET DOMAIN c /\ DOMAIN c \in SUBSET DOMAIN c
  OBVIOUS
<1>2. Bytes(c, DOMAIN c) \in Nat /\ Bytes(c, DOMAIN c \ {r}) \in Nat
  BY <1>1, BytesPart, Zenon
<1>3. r \in DOMAIN c => Bytes(c, DOMAIN c) = c[r].size + Bytes(c, DOMAIN c \ {r})
  BY BytesSplit, Zenon
<1>4. r \notin DOMAIN c => DOMAIN c \ {r} = DOMAIN c
  OBVIOUS
<1> QED
  BY <1>2, <1>3, <1>4, Zenon

\* The other captures leave as much of MaxBytes as the room a capture was given, or
\* is about to be given, and the capture that is written is there.
RoomInv ==
  /\ IsFiniteSet(DOMAIN caps)
  /\ "capture" \in up => runCap \in DOMAIN caps
  /\ room \in Int /\ newRoom \in Int
  /\ MaxBytes > 0 =>
       /\ WithinMaxBytes
       /\ runCap # None => room + OwnedBytes <= MaxBytes
       /\ pass = "set" => newRoom + OwnedBytes <= MaxBytes

\* The sums of the model.
LEMMA SumsOwned ==
  /\ SumFunction(sizes) = Bytes(caps, DOMAIN caps)
  /\ OwnedBytes = Bytes(caps, DOMAIN caps \ {runCap})
BY DEF SumFunction, sizes, OwnedBytes, finished, Bytes

\* Captures that go leave fewer bytes, with and without r's.
LEMMA BytesShrink ==
  ASSUME NEW c, IsFiniteSet(DOMAIN c), \A n \in DOMAIN c : c[n].size \in Nat, NEW r,
         NEW d, DOMAIN d \subseteq DOMAIN c, \A n \in DOMAIN d : d[n] = c[n]
  PROVE  /\ IsFiniteSet(DOMAIN d)
         /\ Bytes(d, DOMAIN d) \in Nat /\ Bytes(d, DOMAIN d) <= Bytes(c, DOMAIN c)
         /\ Bytes(d, DOMAIN d \ {r}) \in Nat /\ Bytes(d, DOMAIN d \ {r}) <= Bytes(c, DOMAIN c \ {r})
<1>1. IsFiniteSet(DOMAIN d)
  BY FS_Subset
<1>2. IsFiniteSet(DOMAIN d \ {r})
  BY <1>1, FS_Subset
<1>3. Bytes(d, DOMAIN d) = Bytes(c, DOMAIN d)
  BY <1>1, BytesSame
<1>4. Bytes(d, DOMAIN d \ {r}) = Bytes(c, DOMAIN d \ {r})
  BY <1>2, BytesSame
<1>5. /\ DOMAIN c \in SUBSET DOMAIN c /\ DOMAIN d \in SUBSET DOMAIN c
      /\ DOMAIN c \ {r} \in SUBSET DOMAIN c /\ DOMAIN d \ {r} \in SUBSET (DOMAIN c \ {r})
  OBVIOUS
<1>6. Bytes(c, DOMAIN d) \in Nat /\ Bytes(c, DOMAIN d) <= Bytes(c, DOMAIN c)
  BY <1>5, BytesPart, Zenon
<1>7. Bytes(c, DOMAIN d \ {r}) \in Nat /\ Bytes(c, DOMAIN d \ {r}) <= Bytes(c, DOMAIN c \ {r})
  BY <1>5, BytesPart, Zenon
<1> QED
  BY <1>1, <1>3, <1>4, <1>6, <1>7, Zenon

\* Whatever happens to r's capture, the others hold what they held.
LEMMA BytesOthers ==
  ASSUME NEW c, IsFiniteSet(DOMAIN c), NEW r,
         NEW d, DOMAIN d \ {r} = DOMAIN c \ {r}, \A n \in DOMAIN c \ {r} : d[n] = c[n]
  PROVE  Bytes(d, DOMAIN d \ {r}) = Bytes(c, DOMAIN c \ {r})
<1>1. IsFiniteSet(DOMAIN c \ {r})
  BY FS_Subset
<1> QED
  BY <1>1, BytesSame

\* Every step keeps RoomInv: finished captures only go, and the one that is written
\* grows up to its room.
LEMMA RoomStep == FilesInv /\ FilesInv' /\ KeylogInv /\ RoomInv /\ [Next]_vars => RoomInv'
<1> SUFFICES ASSUME FilesInv, FilesInv', KeylogInv, RoomInv, [Next]_vars PROVE RoomInv'
  OBVIOUS
<1> DEFINE total == Bytes(caps, DOMAIN caps)
           owned == Bytes(caps, DOMAIN caps \ {runCap})
           within == /\ total <= MaxBytes
                     /\ runCap # None => room + owned <= MaxBytes
                     /\ pass = "set" => newRoom + owned <= MaxBytes
<1>1. /\ IsFiniteSet(DOMAIN caps) /\ \A n \in DOMAIN caps : caps[n].size \in Nat
      /\ "capture" \in up => runCap \in DOMAIN caps
      /\ room \in Int /\ newRoom \in Int /\ MaxBytes \in Nat
  BY LimitsAssumption DEF RoomInv, FilesInv, Record
<1>2. \A n \in DOMAIN caps' : caps'[n].size \in Nat
  BY DEF FilesInv, Record
<1>3. /\ total \in Nat /\ owned \in Nat
      /\ runCap \in DOMAIN caps => total = caps[runCap].size + owned
      /\ runCap \notin DOMAIN caps => total = owned
  BY <1>1, BytesOwned, Zenon
<1>4. MaxBytes > 0 => within
  BY SumsOwned DEF RoomInv, WithinMaxBytes
<1>5. ASSUME IsFiniteSet(DOMAIN caps'), "capture" \in up' => runCap' \in DOMAIN caps',
             room' \in Int, newRoom' \in Int, MaxBytes > 0 => within'
      PROVE  RoomInv'
  <2>1. (SumFunction(sizes))' = total' /\ OwnedBytes' = owned'
    BY DEF SumFunction, sizes, OwnedBytes, finished, Bytes
  <2> HIDE DEF total, owned
  <2> QED
    BY <1>5, <2>1 DEF RoomInv, WithinMaxBytes
<1>6. ASSUME DOMAIN caps' \subseteq DOMAIN caps, \A n \in DOMAIN caps' : caps'[n] = caps[n],
             UNCHANGED <<runCap, room, newRoom>>, "capture" \in up' => runCap \in DOMAIN caps',
             pass' = "set" => pass = "set"
      PROVE  RoomInv'
  <2>1. IsFiniteSet(DOMAIN caps') /\ total' \in Nat /\ total' <= total
    BY <1>1, <1>6, BytesShrink, Zenon
  <2>2. owned' \in Nat /\ owned' <= owned
    BY <1>1, <1>6, BytesShrink, Zenon
  <2> HIDE DEF total, owned
  <2>3. MaxBytes > 0 => within'
    <3>1. UNCHANGED <<runCap, room, newRoom>> /\ (pass' = "set" => pass = "set")
      BY <1>6
    <3>2. \A m, n \in Nat, r \in Int : m <= n /\ r + n <= MaxBytes => r + m <= MaxBytes
      BY <1>1
    <3>3. MaxBytes > 0 => total' <= MaxBytes
      BY <1>1, <1>3, <1>4, <2>1
    <3> QED
      BY <1>1, <1>3, <1>4, <2>2, <3>1, <3>2, <3>3, Zenon
  <2> QED
    BY <1>1, <1>5, <1>6, <2>1, <2>3, Zenon
<1>7. CASE Start \/ startRefused \/ loadFails \/ startFails \/ load \/ attach \/ listen \/ targetRefused
           \/ openCapture \/ openWithout \/ startKeylog \/ startLive \/ startTicks
  <2>1. UNCHANGED <<caps, runCap, room, newRoom>>
    BY <1>7 DEF Start, startRefused, loadFails, startFails, load, attach, listen, targetRefused,
                openCapture, openWithout, startKeylog, startLive, startTicks, starts, capture, ticker, files
  <2>2. ("capture" \in up' => "capture" \in up) /\ (pass' = "set" => pass = "set")
    BY <1>7 DEF Start, startRefused, loadFails, startFails, load, attach, listen, targetRefused,
                openCapture, openWithout, startKeylog, startLive, startTicks, starts, ticker
  <2> QED
    BY <1>1, <1>6, <2>1, <2>2
<1>8. CASE enforceRetention \/ tickerReturns \/ signal \/ closeNext \/ Tick \/ UNCHANGED vars
  <2>1. UNCHANGED <<caps, runCap, room, newRoom>>
    BY <1>8 DEF enforceRetention, tickerReturns, signal, closeNext, Tick, vars, capture, ticker, files
  <2>2. ("capture" \in up' => "capture" \in up) /\ (pass' = "set" => pass = "set")
    BY <1>8 DEF enforceRetention, tickerReturns, signal, closeNext, Tick, vars, proc, ticker
  <2> QED
    BY <1>1, <1>6, <2>1, <2>2
<1>9. CASE enforceAtStart \/ enforce
  <2>1. UNCHANGED <<up, runCap, room, newRoom>> /\ (pass' = "set" => pass = "set")
    BY <1>9 DEF enforceAtStart, enforce, proc, capture
  <2>2. CASE removeExpired
    <3>1. /\ DOMAIN caps' \subseteq DOMAIN caps /\ \A n \in DOMAIN caps' : caps'[n] = caps[n]
          /\ \A n \in DOMAIN caps \ DOMAIN caps' : n # runCap
      BY <2>2, RemoveExpired DEF FilesInv
    <3> QED
      BY <1>1, <1>6, <2>1, <3>1
  <2>3. CASE UNCHANGED caps
    BY <1>1, <1>6, <2>1, <2>3
  <2> QED
    BY <1>9, <2>2, <2>3 DEF enforceAtStart, enforce
<1>10. CASE Cleanup
  <2>1. UNCHANGED <<runCap, room, newRoom, pass>> /\ up' = {}
    BY <1>10 DEF Cleanup, capture, ticker
  <2>2. DOMAIN caps' \subseteq DOMAIN caps /\ \A n \in DOMAIN caps' : caps'[n] = caps[n]
    BY <1>10 DEF Cleanup, Restrict
  <2> QED
    BY <1>6, <2>1, <2>2
<1>11. CASE create
  <2>1. PICK n \in Names \ DOMAIN caps :
          /\ DOMAIN caps' = DOMAIN caps \cup {n} /\ caps'[n].size = HeaderSize
          /\ \A m \in DOMAIN caps : caps'[m] = caps[m]
          /\ \/ runCap' = n /\ room' = Room
             \/ UNCHANGED <<up, runCap, room>>
    BY <1>11 DEF create, free, capture
  <2>2. runCap = None /\ pass = "none" /\ pass' = "none" /\ newRoom' = newRoom /\ ~noRoom
    BY <1>11 DEF create, FilesInv, ticker
  <2>3. runCap \notin DOMAIN caps /\ total = owned
    BY <1>3, <2>2, LimitsAssumption DEF FilesInv
  <2>4. IsFiniteSet(DOMAIN caps')
    BY <1>1, <2>1, FS_AddElement
  <2>5. DOMAIN caps \ {n} = DOMAIN caps /\ DOMAIN caps' \ {n} = DOMAIN caps
    BY <2>1
  <2>6. Bytes(caps', DOMAIN caps' \ {n}) = total
    BY <1>1, <2>1, <2>5, BytesOthers
  <2>7. total' = HeaderSize + total
    <3>1. total' = caps'[n].size + Bytes(caps', DOMAIN caps' \ {n})
      BY <1>2, <2>1, <2>4, BytesOwned
    <3> QED
      BY <2>1, <2>6, <3>1
  <2>8. Room = IF MaxBytes = 0 THEN 0 ELSE MaxBytes - owned
    BY SumsOwned DEF Room
  <2>9. CASE runCap' = n /\ room' = Room
    <3>1. owned' = total
      BY <2>6, <2>9
    <3> HIDE DEF total, owned
    <3>2. room' \in Int
      BY <1>1, <1>3, <2>8, <2>9
    <3>3. MaxBytes > 0 => within'
      BY <1>1, <1>3, <2>2, <2>3, <2>7, <2>8, <2>9, <3>1 DEF noRoom, HeaderSize
    <3> QED
      BY <1>1, <1>5, <2>1, <2>2, <2>4, <2>9, <3>2, <3>3
  <2>10. CASE UNCHANGED <<up, runCap, room>>
    <3> HIDE DEF total, owned
    <3>1. MaxBytes > 0 => within'
      BY <1>1, <1>3, <2>2, <2>3, <2>7, <2>8, <2>10 DEF noRoom, HeaderSize
    <3> QED
      BY <1>1, <1>5, <2>1, <2>2, <2>4, <2>10, <3>1
  <2> QED
    BY <2>1, <2>9, <2>10
<1>12. CASE Write
  <2>1. /\ UNCHANGED <<up, pass, newRoom, runCap, room>> /\ "capture" \in up
        /\ \/ caps' = caps
           \/ /\ ~(MaxBytes > 0 /\ caps[runCap].size + 1 > room)
              /\ caps' = [caps EXCEPT ![runCap] = [run |-> @.run, size |-> @.size + 1, mtime |-> clock]]
    BY <1>12 DEF Write, proc, ticker
  <2>2. runCap \in DOMAIN caps /\ runCap # None
    BY <1>1, <2>1, LimitsAssumption DEF FilesInv
  <2>3. CASE caps' = caps
    BY <1>1, <1>6, <2>1, <2>3
  <2>4. CASE /\ ~(MaxBytes > 0 /\ caps[runCap].size + 1 > room)
             /\ caps' = [caps EXCEPT ![runCap] = [run |-> @.run, size |-> @.size + 1, mtime |-> clock]]
    <3>1. /\ DOMAIN caps' = DOMAIN caps /\ caps'[runCap].size = caps[runCap].size + 1
          /\ \A n \in DOMAIN caps \ {runCap} : caps'[n] = caps[n]
      BY <2>2, <2>4
    <3>2. IsFiniteSet(DOMAIN caps')
      BY <1>1, <3>1
    <3>3. owned' = owned
      BY <1>1, <2>1, <3>1, BytesOthers
    <3>4. total' = caps'[runCap].size + owned'
      BY <1>2, <2>1, <2>2, <3>1, <3>2, BytesOwned
    <3>5. caps[runCap].size \in Nat
      BY <1>1, <2>2
    <3> HIDE DEF total, owned
    <3>6. MaxBytes > 0 => within'
      BY <1>1, <1>3, <1>4, <2>1, <2>2, <2>4, <3>1, <3>3, <3>4, <3>5
    <3> QED
      BY <1>1, <1>5, <2>1, <2>2, <3>1, <3>2, <3>6
  <2> QED
    BY <2>1, <2>3, <2>4
<1>13. CASE measureRoom
  <2>1. UNCHANGED <<up, caps, runCap, room>>
    BY <1>13 DEF measureRoom, proc, capture, files
  <2>2. CASE pass' = "idle" /\ newRoom' = newRoom
    BY <1>1, <1>6, <2>1, <2>2
  <2>3. CASE newRoom' = Room
    <3>1. total' = total /\ owned' = owned
      BY <2>1
    <3>2. newRoom' = IF MaxBytes = 0 THEN 0 ELSE MaxBytes - owned
      BY <2>3, SumsOwned DEF Room
    <3> HIDE DEF total, owned
    <3>3. newRoom' \in Int /\ (MaxBytes > 0 => within')
      BY <1>1, <1>3, <1>4, <2>1, <3>1, <3>2
    <3> QED
      BY <1>1, <1>5, <2>1, <3>3
  <2> QED
    BY <1>13, <2>2, <2>3 DEF measureRoom
<1>14. CASE SetRoom
  <2>1. UNCHANGED <<up, caps, runCap, newRoom>> /\ room' = newRoom /\ pass = "set" /\ pass' = "idle"
    BY <1>14 DEF SetRoom, proc, files
  <2>2. total' = total /\ owned' = owned
    BY <2>1
  <2> HIDE DEF total, owned
  <2>3. MaxBytes > 0 => within'
    BY <1>4, <2>1, <2>2
  <2> QED
    BY <1>1, <1>5, <2>1, <2>3
<1>15. CASE deleteKeylog \/ Kill
  <2>1. up' = {} /\ runCap' = None /\ pass' = "none" /\ room' = 0 /\ newRoom' = 0
    BY <1>15 DEF deleteKeylog, Kill, gone, KeylogInv
  <2>2. IsFiniteSet(DOMAIN caps') /\ total' \in Nat /\ total' <= total
    <3>1. CASE UNCHANGED caps
      BY <1>1, <1>3, <3>1
    <3>2. CASE /\ runCap \in DOMAIN caps
               /\ \E s \in HeaderSize .. caps[runCap].size : caps' = [caps EXCEPT ![runCap].size = s]
      <4>1. PICK s \in HeaderSize .. caps[runCap].size : caps' = [caps EXCEPT ![runCap].size = s]
        BY <3>2, Zenon
      <4>2. /\ DOMAIN caps' = DOMAIN caps /\ caps'[runCap].size = s
            /\ \A n \in DOMAIN caps \ {runCap} : caps'[n] = caps[n]
        BY <1>1, <3>2, <4>1 DEF FilesInv, Record
      <4>3. IsFiniteSet(DOMAIN caps')
        BY <1>1, <4>2
      <4>4. Bytes(caps', DOMAIN caps' \ {runCap}) = owned
        BY <1>1, <4>2, BytesOthers
      <4>5. total' = caps'[runCap].size + owned
        <5>1. runCap \in DOMAIN caps'
          BY <3>2, <4>2
        <5>2. total' = caps'[runCap].size + Bytes(caps', DOMAIN caps' \ {runCap})
          BY <1>2, <4>3, <5>1, BytesSplit, Zenon
        <5> QED
          BY <4>4, <5>2, Zenon
      <4>6. s \in Nat /\ s <= caps[runCap].size /\ caps[runCap].size \in Nat
        BY <1>1, <3>2 DEF HeaderSize
      <4> HIDE DEF total, owned
      <4> QED
        BY <1>3, <3>2, <4>2, <4>3, <4>5, <4>6
    <3> QED
      BY <1>15, <3>1, <3>2 DEF deleteKeylog, Kill
  <2> HIDE DEF total, owned
  <2>3. MaxBytes > 0 => within'
    BY <1>1, <1>3, <1>4, <2>1, <2>2
  <2> QED
    BY <1>5, <2>1, <2>2, <2>3
<1> QED
  BY <1>7, <1>8, <1>9, <1>10, <1>11, <1>12, <1>13, <1>14, <1>15 DEF Next

\* The captures of all the runs stay within --max-bytes together (Room of
\* retention.go, SetRoom and the Writer's check), for every limit, any number of
\* runs, kills and failed deletions, and however late the age pass hands over a
\* room it measured.
THEOREM WithinLimit == Spec => []WithinMaxBytes
<1>1. Init => RoomInv
  <2> SUFFICES ASSUME Init PROVE RoomInv
    OBVIOUS
  <2>1. DOMAIN caps = {} /\ up = {} /\ runCap = None /\ pass = "none" /\ room = 0 /\ newRoom = 0
    BY DEF Init
  <2>2. IsFiniteSet(DOMAIN caps)
    BY <2>1, FS_EmptySet
  <2>3. SumFunction(sizes) = 0
    BY <2>1, SumEmpty DEF SumFunction, sizes
  <2> QED
    BY <2>1, <2>2, <2>3, LimitsAssumption DEF RoomInv, WithinMaxBytes
<1>2. RoomInv => WithinMaxBytes
  BY LimitsAssumption DEF RoomInv, WithinMaxBytes
<1> QED
  BY <1>1, <1>2, RoomStep, FilesInvariant, KeylogInvariant, PTL DEF Spec
=============================================================================
