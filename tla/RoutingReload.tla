--------------------------- MODULE RoutingReload ---------------------------
(***************************************************************************)
(* The configuration files of the ai-gateway and the tables made of them:  *)
(* the watch (ai-gateway/app/routing_watch.py), POST /admin/reload-routing *)
(* (main.py) and what each loader makes of a bad file (routing.py,         *)
(* model_routing_policy.py, classification_floor.py).                      *)
(*                                                                         *)
(* The gateway is one process: a tick of the watch and an admin reload run *)
(* without an await, so neither falls into the other or into a request's   *)
(* step.  The files belong to the kubelet, which may replace one between   *)
(* any two of the three times a tick reads it.                             *)
(***************************************************************************)
EXTENDS Naturals, Sequences, SequencesExt

CONSTANTS
  Watched,     \* the files, in the order the watch and the admin reload take
  Contents,    \* Contents[f]: what file f may hold
  First,       \* First[f]: what it holds when the pod starts
  Broken,      \* a text that is not YAML
  Missing,     \* no file
  Poison,      \* the policy, with a list entry that is no mapping
  Listed,      \* the policy, as a list
  Empty,       \* the table of a loader that falls back to nothing
  Forgetful,   \* files whose loader falls back on a bad text: the routing tables
  Baked,       \* the policy's copy in the image, for a missing file
  NoExcludes,  \* NoExcludes[c]: policy c, its excludes forgotten
  MaxWrites    \* bound: how often the kubelet replaces a file

Files == Range(Watched)

ASSUME WatchedAssumption ==
  /\ Watched \in Seq(Files) \ {<< >>} /\ IsInjective(Watched)
  /\ Forgetful \subseteq Files
  /\ DOMAIN First = Files /\ Poison \notin {Broken, Missing, Listed}
  /\ Listed \notin {Broken, Missing}
  /\ \A f \in Files : First[f] \in Contents[f] \ {Poison, Listed}
  /\ MaxWrites \in Nat

VARIABLES
  disk,     \* what each file holds, by name
  digest,   \* RoutingWatcher._digests: the content last taken note of
  table,    \* the table in force
  at,       \* the file a tick is at; 0 between two ticks
  saw,      \* the content of that file when its digest was read, or None
  checked,  \* it was read again and is a mapping
  started,  \* the watcher has taken its first digests
  held,     \* history: what each file has held since the gateway read it first
  writes    \* how many times a file was replaced

None == "none"

reloadVars == <<disk, digest, table, at, saw, checked, started, held, writes>>

\* What the watch checks; and what the policy's loader raises at.
IsMapping(c) == c \notin {Broken, Missing, Listed}
Raises(c) == c \in {Poison, Listed}

\* What a loader leaves in force.  The routing tables fall back to nothing,
\* so does the policy, but for a missing file it has the copy in the image;
\* the floors stay as they are.  A policy that is a list, or has a list entry
\* that is no mapping, raises half-way: the excludes are gone by then, the rest
\* is as it was.
Loaded(f, c, old) ==
  IF Raises(c) THEN NoExcludes[old]
  ELSE IF IsMapping(c) THEN c
  ELSE IF c = Missing /\ Baked[f] # None THEN Baked[f]
  ELSE IF f \in Forgetful THEN Empty ELSE old

ReloadInit ==
  /\ disk = First
  /\ table = [f \in Files |-> Loaded(f, First[f], Empty)]
  /\ digest = [f \in Files |-> None]
  /\ at = 0 /\ saw = None /\ checked = FALSE
  /\ started = FALSE
  /\ held = [f \in Files |-> {First[f]}]
  /\ writes = 0

\* The kubelet replaces a file, whole.
Write(f, c) ==
  /\ writes < MaxWrites /\ c # disk[f]
  /\ disk' = [disk EXCEPT ![f] = c]
  /\ held' = [held EXCEPT ![f] = @ \cup {IF started THEN disk[f] ELSE c}]
  /\ writes' = writes + 1
  /\ UNCHANGED <<digest, table, at, saw, checked, started>>

\* The tables were loaded; the watcher is made after them.
StartWatch ==
  /\ ~started
  /\ started' = TRUE
  /\ digest' = disk
  /\ UNCHANGED <<disk, table, at, saw, checked, held, writes>>

Idle == at = 0

Tick ==
  /\ started /\ Idle
  /\ at' = 1
  /\ UNCHANGED <<disk, digest, table, saw, checked, started, held, writes>>

NextFile ==
  /\ at' = IF at = Len(Watched) THEN 0 ELSE at + 1
  /\ saw' = None /\ checked' = FALSE

\* First read: the digest.
ReadDigest ==
  /\ at > 0 /\ saw = None
  /\ LET c == disk[Watched[at]]
     IN  IF c = Missing \/ c = digest[Watched[at]] THEN NextFile
         ELSE saw' = c /\ UNCHANGED <<at, checked>>
  /\ UNCHANGED <<disk, digest, table, started, held, writes>>

\* Second read: the check.  A bad text is taken note of and nothing else.
ReadToCheck ==
  /\ at > 0 /\ saw # None /\ ~checked
  /\ LET f == Watched[at]
     IN  IF IsMapping(disk[f]) THEN checked' = TRUE /\ UNCHANGED <<digest, at, saw>>
         ELSE digest' = [digest EXCEPT ![f] = saw] /\ NextFile
  /\ UNCHANGED <<disk, table, started, held, writes>>

\* Mutant of ReadToLoad: the digest is taken note of before the reload.
NoteThenLoad ==
  /\ checked
  /\ LET f == Watched[at]
     IN  /\ table' = [table EXCEPT ![f] = Loaded(f, disk[f], @)]
         /\ digest' = [digest EXCEPT ![f] = saw]
         /\ IF Raises(disk[f]) THEN at' = 0 /\ saw' = None /\ checked' = FALSE ELSE NextFile
  /\ UNCHANGED <<disk, started, held, writes>>

\* Third read: the loader's.  When it raises, the tick is over.
ReadToLoad ==
  /\ checked
  /\ LET f == Watched[at]
     IN  /\ table' = [table EXCEPT ![f] = Loaded(f, disk[f], @)]
         /\ IF Raises(disk[f])
              THEN at' = 0 /\ saw' = None /\ checked' = FALSE /\ UNCHANGED digest
              ELSE digest' = [digest EXCEPT ![f] = saw] /\ NextFile
  /\ UNCHANGED <<disk, started, held, writes>>

\* POST /admin/reload-routing: every table, as far as no loader raises.
Reached(f) ==
  \A i \in 1 .. Len(Watched) :
    Raises(disk[Watched[i]]) => \E j \in 1 .. i : Watched[j] = f

AdminReload ==
  /\ started /\ Idle
  /\ table' = [f \in Files |-> IF Reached(f) THEN Loaded(f, disk[f], table[f]) ELSE table[f]]
  /\ UNCHANGED <<disk, digest, at, saw, checked, started, held, writes>>

TickStep == ReadDigest \/ ReadToCheck \/ ReadToLoad

ReloadNext ==
  \/ \E f \in Files : \E c \in Contents[f] : Write(f, c)
  \/ StartWatch \/ Tick \/ TickStep \/ AdminReload

-----------------------------------------------------------------------------
(***************************************************************************)
(* Properties.                                                             *)
(***************************************************************************)
\* A content the watch has taken note of is the one in force, however the
\* kubelet's writes fall between the reads of a tick.  Excepted are files
\* that hold again what they held before: the watch compares with the last
\* content only, and took note of that one already.
NotedIsLoaded ==
  \A f \in Files :
    /\ started /\ IsMapping(disk[f])
    /\ disk[f] \notin held[f]
    /\ digest[f] = disk[f]
    => table[f] = disk[f]

=============================================================================
