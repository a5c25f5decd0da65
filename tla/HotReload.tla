----------------------------- MODULE HotReload ------------------------------
(***************************************************************************)
(* shared/hot_reload.py: HotReloader.  The watcher thread and threads that *)
(* call reload() take the lock, read the base file, then the override of   *)
(* the environment, validate the merge and publish a snapshot; callbacks   *)
(* run after the lock is released.  The files are edited at any time.      *)
(* A file is a value, "bad" where it cannot be read or the merge does not  *)
(* pass a validator.                                                       *)
(***************************************************************************)
EXTENDS Integers, Sequences, FiniteSets, SequencesExt

CONSTANTS
  Threads,   \* threads that call reload()
  MaxEdits,  \* bound: edits of the files
  MaxReloads \* bound: calls of reload()

VARIABLES
  file,      \* the two files; the override may be absent
  version,   \* _version
  snapshot,  \* _snapshot
  holder,    \* who holds _lock over a step, or Nobody
  read,      \* what the holder has read of the base file
  calling,   \* per thread in its callbacks, the pair it announces, or None
  watched,   \* files the watcher thread watches; {} when it does not run
  changed,   \* the watcher has a change to handle
  edits, reloads, \* counters
  announced  \* history: the pairs (old, new) of versions announced, in order

hrvars == <<file, version, snapshot, holder, read, calling, watched, changed, edits, reloads, announced>>

Nobody == "nobody"
Watcher == "watcher"
None == <<>>
Bad == "bad"
Absent == "absent"
Bases == {"b1", "b2", Bad}
Overrides == {"o1", Bad, Absent}
Anyone == Threads \cup {Watcher}

\* _load_merged and _validate
Merged(b, o) == <<b, o>>
Valid(b, o) == b # Bad /\ o # Bad

Init ==
  /\ file \in {[base |-> "b1", override |-> o] : o \in {"o1", Absent}}
  /\ version = 1 /\ snapshot = [version |-> 1, data |-> Merged(file.base, file.override)]
  /\ holder = Nobody /\ read = None /\ calling = [t \in Anyone |-> None]
  /\ watched = {} /\ changed = FALSE /\ edits = 0 /\ reloads = 0 /\ announced = <<>>
-----------------------------------------------------------------------------
\* A file that is deleted is watched no longer.
EditFile(f, v) ==
  /\ edits < MaxEdits /\ edits' = edits + 1 /\ file[f] # v
  /\ file' = [file EXCEPT ![f] = v]
  /\ changed' = (changed \/ f \in watched)
  /\ watched' = IF v = Absent THEN watched \ {f} ELSE watched
  /\ UNCHANGED <<version, snapshot, holder, read, calling, reloads, announced>>

\* The override is watched only if the file exists when the thread starts.
StartWatching ==
  /\ watched = {}
  /\ watched' = {f \in {"base", "override"} : file[f] # Absent}
  /\ UNCHANGED <<file, version, snapshot, holder, read, calling, changed, edits, reloads, announced>>

\* stop_watching() lets a reload in progress end.
StopWatching ==
  /\ watched # {} /\ holder # Watcher /\ calling[Watcher] = None
  /\ watched' = {} /\ changed' = FALSE
  /\ UNCHANGED <<file, version, snapshot, holder, read, calling, edits, reloads, announced>>
-----------------------------------------------------------------------------
ReadsBase(t) == holder' = t /\ read' = <<file.base>>

Reload(t) ==
  /\ t \in Threads /\ holder = Nobody /\ calling[t] = None /\ reloads < MaxReloads
  /\ reloads' = reloads + 1 /\ ReadsBase(t)
  /\ UNCHANGED <<file, version, snapshot, calling, watched, changed, edits, announced>>

\* One iteration of _watch_loop.
WatchLoop ==
  /\ watched # {} /\ changed /\ holder = Nobody /\ calling[Watcher] = None
  /\ changed' = FALSE /\ ReadsBase(Watcher)
  /\ UNCHANGED <<file, version, snapshot, calling, watched, edits, reloads, announced>>

\* The second file is read, the merge validated and published; the lock is released.
Kept_Counted(v) == v + 1
Kept(v) == v

\* A change reported during a reload is still to be handled, whether the reload failed
\* or not.
StillChanged_TakenAsRead(t) == changed /\ t # Watcher
StillChanged(t) == changed
Publish(t) ==
  /\ holder = t
  /\ IF Valid(read[1], file.override)
     THEN /\ version' = version + 1
          /\ snapshot' = [version |-> version', data |-> Merged(read[1], file.override)]
          /\ calling' = [calling EXCEPT ![t] = <<snapshot.version, version'>>]
     ELSE version' = Kept(version) /\ UNCHANGED <<snapshot, calling>>
  /\ changed' = StillChanged(t)
  /\ holder' = Nobody /\ read' = None
  /\ UNCHANGED <<file, watched, edits, reloads, announced>>

Announce(t) ==
  /\ calling[t] # None /\ announced' = Append(announced, calling[t])
  /\ calling' = [calling EXCEPT ![t] = None]
  /\ UNCHANGED <<file, version, snapshot, holder, read, watched, changed, edits, reloads>>

Next ==
  \/ \E v \in Bases : EditFile("base", v)
  \/ \E v \in Overrides : EditFile("override", v)
  \/ StartWatching \/ StopWatching \/ WatchLoop
  \/ \E t \in Anyone : Reload(t) \/ Publish(t) \/ Announce(t)

\* Threads run; nobody has to edit, to call or to stop the watcher.
Proceed == \E t \in Anyone : Publish(t) \/ Announce(t)
Fairness == WF_hrvars(Proceed) /\ WF_hrvars(WatchLoop)

Spec == Init /\ [][Next]_hrvars /\ Fairness
-----------------------------------------------------------------------------
\* Every published version is announced once, with the version it replaced, however
\* the reloads of different threads overlap (but in any order).
AnnouncedOnce ==
  LET busy == {t \in Anyone : calling[t] # None}
      pairs == Range(announced) \cup {calling[t] : t \in busy}
  IN  /\ pairs = {<<v - 1, v>> : v \in 2..snapshot.version}
      /\ Len(announced) + Cardinality(busy) = snapshot.version - 1

\* A change the watcher is told of ends in a snapshot of the files as they are, unless
\* they are invalid, the watcher is stopped, or an override came up that it does not
\* watch.  Invalid files in between do not stop it.
Unwatched == file.override # Absent /\ "override" \notin watched
Current == snapshot.data = Merged(file.base, file.override)
Settles == changed ~> (Current \/ ~Valid(file.base, file.override) \/ watched = {} \/ Unwatched)
=============================================================================
