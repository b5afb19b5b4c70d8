------------------------ MODULE TunnelRegistry_proofs ------------------------
(***************************************************************************)
(* What a backup of the tunnel configurations holds, for any tunnels, any  *)
(* threads that save at once, any crashes, and any life of an entry: never *)
(* a tunnel that was not due when its snapshot was taken; nothing at all   *)
(* with the ttl of 0 that the code has.                                    *)
(***************************************************************************)
EXTENDS TunnelRegistry, TLAPS

USE DEF storeVars, threadVars, vars, Savers

-----------------------------------------------------------------------------
\* f holds of g what the ttl lets it hold
IsMap(f) == f = [t \in DOMAIN f |-> f[t]]
Holds(f, g) ==
  /\ IsMap(f) /\ IsMap(g)
  /\ DOMAIN f \subseteq DOMAIN g
  /\ \A t \in DOMAIN f : f[t] = g[t]
  /\ Ttl = 0 => DOMAIN f = {}

\* The inductive invariant: the cache has what is due, with the time it was
\* put there; snapshots and the file hold of it what was visible.
Cached ==
  /\ now \in Nat /\ now <= MaxTime
  /\ DOMAIN cache = DOMAIN due /\ IsMap(due)
  /\ \A t \in DOMAIN cache :
       /\ cache[t].config = due[t]
       /\ cache[t].expires \in Nat
       /\ cache[t].expires <= now + Ttl
Snapped ==
  /\ DOMAIN snap = Savers
  /\ \A s \in Savers : Holds(snap[s].tunnels, snap[s].due)
Stored == Holds(file.tunnels, owed)
Inv == Cached /\ Snapped /\ Stored

(***************************************************************************)
(* Nothing holds nothing.                                                  *)
(***************************************************************************)
LEMMA NobodyHolds == IsMap(Nobody) /\ DOMAIN Nobody = {} /\ Holds(Nobody, Nobody)
  <1>1. DOMAIN Nobody = {}
    BY DEF Nobody
  <1>2. IsMap(Nobody)
    BY DEF Nobody, IsMap
  <1>3. QED
    BY <1>1, <1>2 DEF Holds

(***************************************************************************)
(* A map with one entry put into it, and with some taken out.              *)
(***************************************************************************)
LEMMA PutIn ==
  ASSUME NEW f, NEW t, NEW v
  PROVE  /\ DOMAIN With(f, t, v) = DOMAIN f \cup {t} /\ IsMap(With(f, t, v))
         /\ With(f, t, v)[t] = v
         /\ \A u \in DOMAIN f \ {t} : With(f, t, v)[u] = f[u]
  BY DEF With, IsMap

\* Some entries are taken out.
LEMMA TakenOut ==
  ASSUME NEW f, NEW S
  PROVE  /\ DOMAIN Restrict(f, S) = S /\ IsMap(Restrict(f, S))
         /\ \A t \in S : Restrict(f, S)[t] = f[t]
  BY DEF Restrict, IsMap

(***************************************************************************)
(* A snapshot holds what is due of what is visible.                        *)
(***************************************************************************)
LEMMA SnapshotHolds ==
  ASSUME Ttl \in Nat, MaxTime \in Nat, Cached
  PROVE  Holds([t \in Visible |-> cache[t].config], due)
  <1> DEFINE f == [t \in Visible |-> cache[t].config]
  <1>1. IsMap(f) /\ DOMAIN f = Visible
    BY DEF IsMap
  <1>2. Visible \subseteq DOMAIN due /\ \A t \in Visible : f[t] = due[t]
    BY DEF Visible, Cached
  <1>3. Ttl = 0 => Visible = {}
    BY DEF Visible, Fresh, Cached
  <1>4. IsMap(due)
    BY DEF Cached
  <1> HIDE DEF f
  <1>5. QED
    BY <1>1, <1>2, <1>3, <1>4 DEF Holds, f

(***************************************************************************)
(* The invariant holds at first, and each step keeps it.                   *)
(***************************************************************************)
LEMMA InitInv == ASSUME Ttl \in Nat, MaxTime \in Nat, Init PROVE Inv
  <1>1. Cached
    BY NobodyHolds DEF Init, Cached
  <1>2. Snapped
    BY NobodyHolds DEF Init, Snapped, NoSnap
  <1>3. Stored
    BY NobodyHolds DEF Init, Stored
  <1>4. QED
    BY <1>1, <1>2, <1>3 DEF Inv

\* what does not touch the cache, the snapshots or the file
LEMMA Kept ==
  ASSUME Inv
  PROVE  /\ UNCHANGED <<now, cache, due>> => Cached'
         /\ UNCHANGED snap => Snapped'
         /\ UNCHANGED <<file, owed>> => Stored'
  BY DEF Inv, Cached, Snapped, Stored

\* A configuration is put into the cache.
LEMMA PutInv ==
  ASSUME Ttl \in Nat, MaxTime \in Nat, Inv, NEW t \in Tunnels, NEW c \in Configs,
         Put(t, c), due' = With(due, t, c), UNCHANGED <<now, snap, file, owed>>
  PROVE  Inv'
  <1>1. now \in Nat /\ now <= MaxTime /\ now' = now
    BY DEF Inv, Cached
  <1>2. /\ DOMAIN cache' = DOMAIN cache \cup {t} /\ DOMAIN due' = DOMAIN due \cup {t}
        /\ IsMap(due')
    BY PutIn DEF Put
  <1> DEFINE e == Entry(c)
  <1>a. cache' = With(cache, t, e) /\ due' = With(due, t, c) /\ DOMAIN cache = DOMAIN due
    BY DEF Put, Inv, Cached
  <1>b. e.config = c /\ e.expires = now + Ttl
    BY DEF Entry
  <1> HIDE DEF e
  <1>c. cache'[t] = e /\ \A u \in DOMAIN cache \ {t} : cache'[u] = cache[u]
    <2>1. With(cache, t, e)[t] = e /\ \A u \in DOMAIN cache \ {t} : With(cache, t, e)[u] = cache[u]
      BY DEF With
    <2>2. QED
      BY ONLY <2>1, <1>a
  <1>d. due'[t] = c /\ \A u \in DOMAIN due \ {t} : due'[u] = due[u]
    <2>1. With(due, t, c)[t] = c /\ \A u \in DOMAIN due \ {t} : With(due, t, c)[u] = due[u]
      BY DEF With
    <2>2. QED
      BY ONLY <2>1, <1>a
  <1>3. cache'[t].config = due'[t] /\ cache'[t].expires = now + Ttl
    BY ONLY <1>b, <1>c, <1>d
  <1>4. \A u \in DOMAIN cache \ {t} : cache'[u] = cache[u] /\ due'[u] = due[u]
    BY ONLY <1>a, <1>c, <1>d
  <1>5. Cached'
    BY <1>1, <1>2, <1>3, <1>4 DEF Inv, Cached
  <1>6. QED
    BY <1>5, Kept DEF Inv

\* Some tunnels are removed.
LEMMA RemoveInv ==
  ASSUME Ttl \in Nat, MaxTime \in Nat, Inv, NEW t \in Tunnels, RemoveTunnel(t)
  PROVE  Inv'
  <1>1. /\ cache' = Restrict(cache, DOMAIN cache \ {t})
        /\ due' = Restrict(due, DOMAIN due \ {t})
        /\ UNCHANGED <<now, snap, file, owed>>
    BY DEF RemoveTunnel
  <1>2. Cached'
    BY <1>1, TakenOut DEF Inv, Cached
  <1>3. QED
    BY <1>1, <1>2, Kept DEF Inv

\* A snapshot is taken.
LEMMA SerializeInv ==
  ASSUME Ttl \in Nat, MaxTime \in Nat, Inv, NEW s \in Savers, Serialize(s)
  PROVE  Inv'
  <1>1. /\ snap' = [snap EXCEPT ![s] = [tunnels |-> [t \in Visible |-> cache[t].config], due |-> due]]
        /\ UNCHANGED <<now, cache, due, file, owed>>
    BY DEF Serialize
  <1>2. Holds([t \in Visible |-> cache[t].config], due)
    BY SnapshotHolds DEF Inv
  <1>3. Snapped'
    <2>1. DOMAIN snap = Savers /\ \A q \in Savers : Holds(snap[q].tunnels, snap[q].due)
      BY DEF Inv, Snapped
    <2>2. PICK taken : taken = [tunnels |-> [t \in Visible |-> cache[t].config], due |-> due]
      OBVIOUS
    <2>3. Holds(taken.tunnels, taken.due)
      BY <1>2, <2>2
    <2>4. DOMAIN snap' = Savers /\ \A q \in Savers : snap'[q] = IF q = s THEN taken ELSE snap[q]
      BY ONLY <1>1, <2>1, <2>2
    <2>5. \A q \in Savers : Holds(snap'[q].tunnels, snap'[q].due)
      BY ONLY <2>1, <2>3, <2>4
    <2>6. QED
      BY <2>4, <2>5 DEF Snapped, Holds
  <1>4. QED
    BY <1>1, <1>3, Kept DEF Inv

\* The file is emptied, and written.
LEMMA FileInv ==
  ASSUME Ttl \in Nat, MaxTime \in Nat, Inv, NEW s \in Savers, OpenFile(s) \/ WriteFile(s) \/ WriteFails(s)
  PROVE  Inv'
  <1>1. UNCHANGED <<now, cache, due, snap>>
    BY DEF OpenFile, WriteFile, WriteFails
  <1>2. Holds(snap[s].tunnels, snap[s].due)
    BY DEF Inv, Snapped
  <1>3. \/ file'.tunnels = Nobody /\ owed' = Nobody
        \/ file'.tunnels = snap[s].tunnels /\ owed' = snap[s].due
        \/ UNCHANGED <<file, owed>>
    BY DEF OpenFile, WriteFile, WriteFails
  <1>4. Stored'
    <2>1. Holds(file'.tunnels, owed')
      BY <1>2, <1>3, NobodyHolds DEF Inv, Stored
    <2>2. QED
      BY <2>1 DEF Stored, Holds
  <1>5. QED
    BY <1>1, <1>4, Kept DEF Inv

\* The process ends, and starts from the file.
LEMMA CrashInv == ASSUME Ttl \in Nat, MaxTime \in Nat, Inv, Crash \/ Clear PROVE Inv'
  <1>1. cache' = Nobody /\ due' = Nobody /\ UNCHANGED <<now, file, owed>>
    BY DEF Crash, Clear
  <1>2. Cached'
    BY <1>1, NobodyHolds DEF Inv, Cached
  <1>3. Snapped'
    <2>1. CASE Clear
      BY <2>1, Kept DEF Clear
    <2>2. CASE Crash
      <3>1. snap' = NoSnap
        BY <2>2 DEF Crash
      <3>2. QED
        BY <3>1, NobodyHolds DEF NoSnap, Snapped
    <2>3. QED
      BY <2>1, <2>2
  <1>4. QED
    BY <1>1, <1>2, <1>3, Kept DEF Inv

LEMMA StartInv == ASSUME Ttl \in Nat, MaxTime \in Nat, Inv, Start PROVE Inv'
  <1>1. /\ cache' = [t \in DOMAIN Loaded |-> Entry(Loaded[t])] /\ due' = Loaded
        /\ UNCHANGED <<now, snap, file, owed>>
    BY DEF Start
  <1>2. IsMap(Loaded)
    BY NobodyHolds DEF Loaded, Inv, Stored, Holds
  <1>3. now \in Nat /\ now <= MaxTime
    BY DEF Inv, Cached
  <1>4. Cached'
    BY <1>1, <1>2, <1>3 DEF Cached, Entry
  <1>5. QED
    BY <1>1, <1>4, Kept DEF Inv

\* Time passes.
LEMMA TickInv == ASSUME Ttl \in Nat, MaxTime \in Nat, Inv, Tick PROVE Inv'
  <1>1. now' = now + 1 /\ now < MaxTime /\ UNCHANGED <<cache, due, snap, file, owed>>
    BY DEF Tick
  <1>2. Cached'
    BY <1>1 DEF Inv, Cached
  <1>3. QED
    BY <1>1, <1>2, Kept DEF Inv

\* So every step keeps it.
LEMMA NextInv ==
  ASSUME Ttl \in Nat, MaxTime \in Nat, Inv, [Next]_vars
  PROVE  Inv'
  <1>1. CASE UNCHANGED vars
    BY <1>1, Kept DEF Inv
  <1>2. ASSUME NEW t \in Tunnels, NEW c \in Configs, RegisterTunnel(t, c) \/ UpdateTunnel(t, c)
        PROVE  Inv'
    BY <1>2, PutInv DEF RegisterTunnel, UpdateTunnel
  <1>3. ASSUME NEW s \in Savers, OpenFails(s) PROVE Inv'
    BY <1>3, Kept DEF OpenFails, Inv
  <1>4. ASSUME StartBackupTimer \/ Wakes \/ LoopEnds \/ StopBackupTimer \/ Joined PROVE Inv'
    BY <1>4, Kept DEF StartBackupTimer, Wakes, LoopEnds, StopBackupTimer, Joined, Inv
  <1>5. QED
    BY <1>1, <1>2, <1>3, <1>4, RemoveInv, SerializeInv, FileInv, CrashInv, StartInv, TickInv
       DEF Next

-----------------------------------------------------------------------------
\* The theorems

(***************************************************************************)
(* Whatever saves overlap and wherever the process dies: a backup that was *)
(* written holds only tunnels that were registered, and not removed, when  *)
(* its snapshot was taken, each as it was configured then.                 *)
(***************************************************************************)
BackupHonest ==
  file.kind = "whole" =>
    DOMAIN file.tunnels \subseteq DOMAIN owed /\ \A t \in DOMAIN file.tunnels : file.tunnels[t] = owed[t]

\* This holds of every run of the program, for any life of an entry.
THEOREM BackupsHonest ==
  ASSUME Ttl \in Nat, MaxTime \in Nat
  PROVE  Spec => []BackupHonest
  <1>1. Init => Inv
    BY InitInv
  <1>2. Inv /\ [Next]_vars => Inv'
    BY NextInv
  <1>3. Inv => BackupHonest
    BY DEF Inv, Stored, Holds, BackupHonest
  <1>4. QED
    BY <1>1, <1>2, <1>3, PTL DEF Spec

(***************************************************************************)
(* With the ttl of the code no backup ever holds a tunnel: BackupWhole is  *)
(* not the matter of an unlucky order of steps.                            *)
(***************************************************************************)
BackupEmpty == DOMAIN file.tunnels = {}

\* This holds of every run of the program as it is, with the ttl of 0.
THEOREM BackupsAlwaysEmpty ==
  ASSUME Ttl = 0, MaxTime \in Nat
  PROVE  Spec => []BackupEmpty
  <1>1. Init => Inv
    BY InitInv
  <1>2. Inv /\ [Next]_vars => Inv'
    BY NextInv
  <1>3. Inv => BackupEmpty
    BY DEF Inv, Stored, Holds, BackupEmpty
  <1>4. QED
    BY <1>1, <1>2, <1>3, PTL DEF Spec
=============================================================================
