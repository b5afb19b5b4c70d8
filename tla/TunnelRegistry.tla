---------------------------- MODULE TunnelRegistry ----------------------------
(***************************************************************************)
(* TunnelRegistry: the tunnel configurations in a Cache, their backup file *)
(* (/tmp/protogate-tunnels-backup.json, in the place of the blob) written  *)
(* by the backup thread and by callers of save_to_storage(), and a process *)
(* that may crash and start again.                                         *)
(*                                                                         *)
(* Persistence is enabled.  A call on the cache holds its mutex and is one *)
(* step; a save is three, the snapshot, the opening of the file, which     *)
(* empties it, and the writing.  Left out: the callback after a backup.    *)
(***************************************************************************)
EXTENDS Functions, Naturals, TLC

CONSTANTS
  Tunnels,
  Configs,    \* what a tunnel may be configured as
  Invalid,    \* configurations that validate() throws on
  Callers,    \* threads that call save_to_storage()
  Backup,     \* the backup thread, none of them
  Ttl,        \* life of an entry of cache_, 0 in the code
  MaxTime     \* the bound of the clock

VARIABLES
  up,        \* the process runs
  now,
  cache,     \* the entries: [config, expires]
  file,      \* [kind, tunnels]: "absent", "torn" (does not parse) or "whole"
  pc,        \* how far a save is, or whether the backup thread is there
  snap,      \* what a save is going to write
  running,   \* backup_timer_running_
  stop,      \* stop_backup_flag_
  due,       \* history: what was registered and not removed, with its config
  owed       \* history: due when the snapshot in the file was taken

storeVars == <<file, owed>>
threadVars == <<pc, snap, running, stop>>
vars == <<up, now, cache, storeVars, threadVars, due>>

Savers == Callers \cup {Backup}
Nobody == << >>

-----------------------------------------------------------------------------
\* Cache: what get(), contains() and for_each() see of it

Fresh(t) == t \in DOMAIN cache /\ now < cache[t].expires
Visible == {t \in DOMAIN cache : Fresh(t)}
Entry(c) == [config |-> c, expires |-> now + Ttl]
With(f, t, v) == [u \in DOMAIN f \cup {t} |-> IF u = t THEN v ELSE f[u]]
Put(t, c) == cache' = With(cache, t, Entry(c))

-----------------------------------------------------------------------------
\* Calls

RegisterTunnel(t, c) ==
  /\ up /\ c \notin Invalid
  /\ Put(t, c)
  /\ due' = With(due, t, c)
  /\ UNCHANGED <<up, now, storeVars, threadVars>>

\* update_tunnel(): the entry has to be there.
UpdateTunnel(t, c) ==
  /\ up /\ c \notin Invalid
  /\ Fresh(t)
  /\ Put(t, c)
  /\ due' = With(due, t, c)
  /\ UNCHANGED <<up, now, storeVars, threadVars>>

RemoveTunnel(t) ==
  /\ up /\ t \in DOMAIN cache
  /\ cache' = Restrict(cache, DOMAIN cache \ {t})
  /\ due' = Restrict(due, DOMAIN due \ {t})
  /\ UNCHANGED <<up, now, storeVars, threadVars>>

Clear ==
  /\ up
  /\ cache' = Nobody /\ due' = Nobody
  /\ UNCHANGED <<up, now, storeVars, threadVars>>

-----------------------------------------------------------------------------
\* Saving

\* serialize_tunnels()
Serialize(s) ==
  /\ up
  /\ pc[s] = IF s = Backup THEN "woken" ELSE "idle"
  /\ snap' = [snap EXCEPT ![s] = [tunnels |-> [t \in Visible |-> cache[t].config], due |-> due]]
  /\ pc' = [pc EXCEPT ![s] = "serialized"]
  /\ UNCHANGED <<up, now, cache, storeVars, running, stop, due>>

\* upload_to_blob(): std::ofstream truncates the file it opens.
OpenFile(s) ==
  /\ up /\ pc[s] = "serialized"
  /\ file' = [kind |-> "torn", tunnels |-> Nobody]
  /\ owed' = Nobody
  /\ pc' = [pc EXCEPT ![s] = "opened"]
  /\ UNCHANGED <<up, now, cache, snap, running, stop, due>>

\* after a save: a caller returns, the backup thread looks at its flag
Saved(s) == pc' = [pc EXCEPT ![s] = IF s = Backup THEN "sleeping" ELSE "idle"]

\* Two saves may have the file open at once.  A text that was written since
\* this one opened it is overwritten from the beginning, and what is longer in
\* it stays behind: the file is torn.
WriteFile(s) ==
  /\ up /\ pc[s] = "opened"
  /\ IF DOMAIN file.tunnels \subseteq DOMAIN snap[s].tunnels
     THEN file' = [kind |-> "whole", tunnels |-> snap[s].tunnels]
     ELSE file' = [kind |-> "torn", tunnels |-> Nobody]
  /\ owed' = IF file'.kind = "whole" THEN snap[s].due ELSE Nobody
  /\ Saved(s)
  /\ UNCHANGED <<up, now, cache, snap, running, stop, due>>

\* A failed write or close throws nothing, and upload_to_blob() reports it as
\* written: nothing of the text reached the file, or a part of it did.
WriteFails(s) ==
  /\ up /\ pc[s] = "opened"
  /\ \/ UNCHANGED storeVars
     \/ file' = [kind |-> "torn", tunnels |-> Nobody] /\ owed' = Nobody
  /\ Saved(s)
  /\ UNCHANGED <<up, now, cache, snap, running, stop, due>>

OpenFails(s) ==
  /\ up /\ pc[s] = "serialized"
  /\ Saved(s)
  /\ UNCHANGED <<up, now, cache, storeVars, snap, running, stop, due>>

-----------------------------------------------------------------------------
\* The backup thread

StartBackupTimer ==
  /\ up /\ ~running
  /\ running' = TRUE /\ stop' = FALSE
  /\ pc' = [pc EXCEPT ![Backup] = "sleeping"]
  /\ UNCHANGED <<up, now, cache, storeVars, snap, due>>

\* backup_loop()
Wakes ==
  /\ up /\ pc[Backup] = "sleeping" /\ ~stop
  /\ pc' = [pc EXCEPT ![Backup] = "woken"]
  /\ UNCHANGED <<up, now, cache, storeVars, snap, running, stop, due>>

LoopEnds ==
  /\ up /\ pc[Backup] = "sleeping" /\ stop
  /\ pc' = [pc EXCEPT ![Backup] = "ended"]
  /\ UNCHANGED <<up, now, cache, storeVars, snap, running, stop, due>>

\* stop_backup_timer(): the flag, then join()
StopBackupTimer ==
  /\ up /\ running /\ ~stop
  /\ stop' = TRUE
  /\ UNCHANGED <<up, now, cache, storeVars, pc, snap, running, due>>

Joined ==
  /\ up /\ running /\ stop /\ pc[Backup] = "ended"
  /\ running' = FALSE
  /\ UNCHANGED <<up, now, cache, storeVars, pc, snap, stop, due>>

-----------------------------------------------------------------------------
\* Crash and start

Idle == [s \in Savers |-> IF s = Backup THEN "ended" ELSE "idle"]
NoSnap == [s \in Savers |-> [tunnels |-> Nobody, due |-> Nobody]]

Crash ==
  /\ up
  /\ up' = FALSE
  /\ cache' = Nobody /\ due' = Nobody
  /\ pc' = Idle /\ snap' = NoSnap /\ running' = FALSE /\ stop' = FALSE
  /\ UNCHANGED <<now, storeVars>>

\* load_from_storage(): deserialize_tunnels() of a text that does not parse
\* loads nothing.  Of a text that parses it loads every tunnel: register and
\* update let none in that validate() throws on, so from_json() skips none.
Loaded == IF file.kind = "whole" THEN file.tunnels ELSE Nobody
Start ==
  /\ ~up
  /\ up' = TRUE
  /\ cache' = [t \in DOMAIN Loaded |-> Entry(Loaded[t])]
  /\ due' = Loaded
  /\ UNCHANGED <<now, storeVars, threadVars>>

Tick ==
  /\ now < MaxTime
  /\ now' = now + 1
  /\ UNCHANGED <<up, cache, storeVars, threadVars, due>>

Init ==
  /\ up = FALSE /\ now = 0
  /\ cache = Nobody /\ due = Nobody /\ owed = Nobody
  /\ file = [kind |-> "absent", tunnels |-> Nobody]
  /\ pc = Idle /\ snap = NoSnap /\ running = FALSE /\ stop = FALSE

Next ==
  \/ \E t \in Tunnels, c \in Configs : RegisterTunnel(t, c) \/ UpdateTunnel(t, c)
  \/ \E t \in Tunnels : RemoveTunnel(t)
  \/ Clear
  \/ \E s \in Savers : \/ Serialize(s)
                       \/ OpenFile(s) \/ OpenFails(s)
                       \/ WriteFile(s) \/ WriteFails(s)
  \/ StartBackupTimer \/ Wakes \/ LoopEnds \/ StopBackupTimer \/ Joined
  \/ Crash \/ Start \/ Tick

Spec == Init /\ [][Next]_vars

-----------------------------------------------------------------------------
\* A backup that parses holds every tunnel that was registered, and not
\* removed, when its snapshot was taken.  (A torn one is not claimed to hold
\* anything: OpenFile, WriteFile, WriteFails and Crash leave such a file, and
\* Start loads nothing of it.)  The code does not keep this: with a
\* ttl of 0 an entry of cache_ has expired when put() returns, nothing sees
\* it, and the backup of a registry with tunnels in it is an empty list.
BackupWhole == file.kind = "whole" => file.tunnels = owed
=============================================================================
