------------------------- MODULE WorldSessionProofs -------------------------
(***************************************************************************)
(* For every number of worlds and sockets, every queue length and every    *)
(* number of frames: one session streams at a time, a world is left at     *)
(* rest, its prompt version never goes back nor ahead of the engine, and   *)
(* what the browser is sent can be decoded.                                *)
(***************************************************************************)
EXTENDS WorldSession, SequenceTheorems, TLAPS

-----------------------------------------------------------------------------
\* Where a socket is: its loop runs while it streams, on a world that is made;
\* frames are left while they play, and a dropped frame calls for a key frame.
Seat(v) ==
  /\ at[v] # "off" <=> pc[v] = "streaming"
  /\ pc[v] \in {"accepting", "streaming"} => on[v] \in Worlds /\ state[on[v]] \notin Making
  /\ at[v] = "play" => frames[v] # 0
  /\ pc[v] # "streaming" \/ at[v] \in {"edit", "splice"} => ~ready[v]
  /\ gap[v] => key[v]
Seats == \A v \in Viewers : Seat(v)

\* The runtime's world is the one the engine was reset to; a world in the making
\* is not, and has seen no edit.
Made ==
  /\ world # None => world = engine.world
  /\ \A w \in Worlds : state[w] \in Making => version[w] = 0 /\ engine.world # w

\* The calls of the worker are one per owner...
OneCallEach ==
  \A i, j \in 1..Len(gpu) : gpu[i].owner = gpu[j].owner /\ gpu[i].owner # None => i = j

\* ... and each is what its owner waits for: of a world in the making, of a
\* session, whose edit is newer than the world and older than what is asked
\* next, or of nobody, where a splice is the call that runs.
CallAt(a) == IF a \in {"edit", "splice"} THEN a ELSE "step"
OfNobody(i, job) ==
  job.kind = "splice" =>
    i = 1 /\ \A w \in Worlds : engine.world = w => version[w] <= job.version
OfWorld(w, job) ==
  \/ job.kind = "generate" /\ state[w] = "image"
  \/ job.kind = "reset" /\ state[w] = "reset"
OfViewer(v, job) ==
  /\ pc[v] = "streaming" /\ ~ready[v] /\ job.kind = CallAt(at[v])
  /\ job.kind # "step" =>
       /\ job.version <= sent[v]
       /\ engine.world = on[v] => version[on[v]] <= job.version
       /\ \A k \in 1..Len(edits) : job.version <= edits[k]
Fits(i, job) ==
  /\ job.owner = None => OfNobody(i, job)
  /\ job.owner \in Worlds => OfWorld(job.owner, job)
  /\ job.owner \in Viewers => OfViewer(job.owner, job)
Calls == \A i \in 1..Len(gpu) : Fits(i, gpu[i])

\* The edits that wait are newer than the world the session shows, and a world
\* that was made under a session has seen no edit.
Asked(v) ==
  pc[v] = "streaming" =>
    /\ \A k \in 1..Len(edits) :
         edits[k] <= sent[v] /\ (engine.world = on[v] => version[on[v]] <= edits[k])
    /\ \A w \in Worlds : engine.world = w => w = on[v] \/ version[w] = 0
AllAsked == \A v \in Viewers : Asked(v)

Inv == /\ TypeOK /\ Seats /\ Made /\ OneCallEach /\ Calls /\ AllAsked
       /\ OneStream /\ WorldsAtRest /\ VersionsAreShown /\ Decodable

-----------------------------------------------------------------------------
\* The first call of the line is running.
LEMMA FirstRuns ==
  ASSUME gpu \in Seq(Jobs), NEW o, NEW kind, Running(o, kind)
  PROVE  /\ gpu # <<>> /\ Head(gpu) = gpu[1] /\ 1 \in 1..Len(gpu)
         /\ gpu[1].owner = o /\ gpu[1].kind = kind /\ gpu[1].version \in Versions
<1>1. gpu # <<>> /\ Head(gpu).owner = o /\ Head(gpu).kind = kind
  BY DEF Running
<1>2. Head(gpu) = gpu[1] /\ Len(gpu) \in Nat \ {0}
  BY <1>1, EmptySeq
<1>3. 1 \in 1..Len(gpu)
  BY <1>2
<1>4. gpu[1] \in Jobs
  BY <1>3, ElementOfSeq
<1>5. gpu[1].version \in Versions
  BY <1>4 DEF Jobs
<1> QED  BY <1>1, <1>2, <1>3, <1>5

\* A call that is fit for its place is so wherever it moves up to.
Keeps(i) == \A job \in Jobs : job = gpu[i] => Fits(i, job)'

\* The line keeps its order when its first call ends...
LEMMA LineMovesUp ==
  ASSUME gpu \in Seq(Jobs), OneCallEach, Calls, gpu # <<>>, gpu' = Tail(gpu),
         \A i \in 2..Len(gpu) : Keeps(i)
  PROVE  OneCallEach' /\ Calls'
<1>1. /\ Len(gpu) \in Nat /\ Len(gpu') = Len(gpu) - 1
      /\ \A i \in 1..Len(gpu') : i + 1 \in 2..Len(gpu) /\ gpu'[i] = gpu[i + 1]
  BY HeadTailProperties
<1>2. OneCallEach'
  BY <1>1 DEF OneCallEach
<1>3. ASSUME NEW i \in 1..Len(gpu')
      PROVE  Fits(i, gpu[i])'
  <2> PICK job \in Jobs : job = gpu[i + 1]
    BY <1>1
  <2>1. Fits(i + 1, job) /\ Fits(i + 1, job)'
    BY <1>1 DEF Calls, Keeps
  <2>2. Fits(i, job)'
    BY <2>1, <1>1 DEF Fits, OfNobody
  <2> QED  BY <2>2, <1>1
<1> QED  BY <1>2, <1>3 DEF Calls

\* ... and when a call joins it whose owner has no other.
LEMMA LineGrows ==
  ASSUME gpu \in Seq(Jobs), OneCallEach, NEW job \in Jobs, gpu' = Append(gpu, job),
         job.owner # None => \A i \in 1..Len(gpu) : gpu[i].owner # job.owner,
         \A i \in 1..Len(gpu) : Keeps(i),
         \A i \in 1..Len(gpu') : Fits(i, job)'
  PROVE  OneCallEach' /\ Calls'
<1>1. /\ Len(gpu) \in Nat /\ Len(gpu') = Len(gpu) + 1
      /\ gpu'[Len(gpu) + 1] = job
      /\ \A i \in 1..Len(gpu) : gpu'[i] = gpu[i] /\ gpu[i] \in Jobs
  BY AppendProperties
<1>2. OneCallEach'
  BY <1>1 DEF OneCallEach
<1>3. ASSUME NEW i \in 1..Len(gpu')
      PROVE  Fits(i, gpu[i])'
  <2>1. CASE i = Len(gpu) + 1
    BY <2>1, <1>1
  <2>2. CASE i # Len(gpu) + 1
    <3>1. i \in 1..Len(gpu)
      BY <2>2, <1>1
    <3> PICK other \in Jobs : other = gpu[i]
      BY <3>1, <1>1
    <3>2. Fits(i, other)'
      BY <3>1 DEF Keeps
    <3> QED  BY <3>1, <3>2, <1>1
  <2> QED  BY <2>1, <2>2
<1> QED  BY <1>2, <1>3 DEF Calls

\* The first call ends and its owner asks for another.
LEMMA LineTurns ==
  ASSUME gpu \in Seq(Jobs), OneCallEach, Calls, gpu # <<>>,
         NEW job \in Jobs, gpu' = Append(Tail(gpu), job), job.owner = gpu[1].owner,
         job.owner # None,
         \A i \in 2..Len(gpu) : Keeps(i),
         \A i \in 1..Len(gpu') : Fits(i, job)'
  PROVE  OneCallEach' /\ Calls'
<1>1. /\ Len(gpu) \in Nat \ {0} /\ Tail(gpu) \in Seq(Jobs) /\ Len(Tail(gpu)) = Len(gpu) - 1
      /\ \A i \in 1..(Len(gpu) - 1) : i + 1 \in 2..Len(gpu) /\ Tail(gpu)[i] = gpu[i + 1]
  BY HeadTailProperties
<1>2. /\ Len(gpu') = Len(gpu) /\ gpu'[Len(gpu)] = job
      /\ \A i \in 1..(Len(gpu) - 1) : gpu'[i] = gpu[i + 1]
  <2>1. \A i \in 1..Len(Tail(gpu)) : gpu'[i] = Tail(gpu)[i]
    BY <1>1, AppendProperties
  <2>2. Len(gpu') = Len(Tail(gpu)) + 1 /\ gpu'[Len(Tail(gpu)) + 1] = job
    BY <1>1, AppendProperties
  <2> QED  BY <1>1, <2>1, <2>2
<1> DEFINE n == Len(gpu)
<1>3. /\ n \in Nat /\ Len(gpu') = n /\ gpu'[n] = job
      /\ \A i \in 1..(n - 1) : gpu'[i] = gpu[i + 1] /\ gpu[i + 1] \in Jobs
      /\ \A i \in 2..n : gpu[i].owner # gpu[1].owner
      /\ \A i \in 2..n : Keeps(i) /\ Fits(i, gpu[i])
      /\ \A i \in 1..n : Fits(i, job)'
  <2>1. 1 \in 1..n
    BY <1>1
  <2> QED  BY <2>1, <1>1, <1>2 DEF OneCallEach, Calls
<1> HIDE DEF n
<1>4. ASSUME NEW i \in 1..n, NEW j \in 1..n, gpu'[i].owner = gpu'[j].owner, gpu'[i].owner # None,
             i # j
      PROVE  FALSE
  <2>1. CASE i = n
    <3>1. j \in 1..(n - 1) /\ j + 1 \in 2..n
      BY <2>1, <1>3, <1>4
    <3> QED  BY <3>1, <2>1, <1>3, <1>4
  <2>2. CASE j = n
    <3>1. i \in 1..(n - 1) /\ i + 1 \in 2..n
      BY <2>2, <1>3, <1>4
    <3> QED  BY <3>1, <2>2, <1>3, <1>4
  <2>3. CASE i # n /\ j # n
    <3>1. /\ i \in 1..(n - 1) /\ i + 1 \in 1..n /\ j \in 1..(n - 1) /\ j + 1 \in 1..n
          /\ i + 1 # j + 1
      BY <2>3, <1>3, <1>4
    <3> QED  BY <3>1, <1>3, <1>4 DEF OneCallEach, n
  <2> QED  BY <2>1, <2>2, <2>3
<1>5. ASSUME NEW i \in 1..n
      PROVE  Fits(i, gpu[i])'
  <2>1. CASE i = n
    BY <2>1, <1>3
  <2>2. CASE i # n
    <3>1. i \in 1..(n - 1) /\ i + 1 \in 2..n /\ i + 1 # 1
      BY <2>2, <1>3
    <3> PICK other \in Jobs : other = gpu[i + 1]
      BY <3>1, <1>3
    <3>2. Fits(i + 1, other) /\ Fits(i + 1, other)'
      BY <3>1, <1>3 DEF Keeps
    <3>3. Fits(i, other)'
      BY <3>1, <3>2 DEF Fits, OfNobody
    <3> QED  BY <3>1, <3>3, <1>3
  <2> QED  BY <2>1, <2>2
<1> QED  BY <1>3, <1>4, <1>5 DEF Calls, OneCallEach

\* The calls of a session that is gone are nobody's: only one that runs may
\* still splice.
LEMMA LineIsDisowned ==
  ASSUME gpu \in Seq(Jobs), OneCallEach, Calls, NEW v \in Viewers, gpu' = Disown(v),
         \A i \in 1..Len(gpu) : gpu[i].owner # v => Keeps(i),
         \A i \in 1..Len(gpu) : gpu[i].owner = v /\ gpu[i].kind = "splice" =>
            i = 1 /\ \A w \in Worlds : engine'.world = w => version'[w] <= gpu[i].version
  PROVE  OneCallEach' /\ Calls' /\ \A i \in 1..Len(gpu') : gpu'[i].owner # v
<1>1. /\ Len(gpu) \in Nat /\ Len(gpu') = Len(gpu)
      /\ \A i \in 1..Len(gpu) : gpu[i] \in Jobs
      /\ \A i \in 1..Len(gpu) : gpu[i].owner # v => gpu'[i] = gpu[i]
      /\ \A i \in 1..Len(gpu) : gpu[i].owner = v =>
           gpu'[i].owner = None /\ gpu'[i].kind = gpu[i].kind
           /\ gpu'[i].version = gpu[i].version
  <2>1. Len(gpu) \in Nat /\ \A i \in 1..Len(gpu) : gpu[i] \in Jobs
    OBVIOUS
  <2>2. gpu' = [i \in 1..Len(gpu) |-> IF gpu[i].owner = v
                                     THEN [gpu[i] EXCEPT !.owner = None] ELSE gpu[i]]
    BY DEF Disown
  <2>3. Len(gpu') = Len(gpu)
    BY <2>1, <2>2
  <2>4. ASSUME NEW i \in 1..Len(gpu), gpu[i].owner = v
        PROVE  gpu'[i].owner = None /\ gpu'[i].kind = gpu[i].kind
               /\ gpu'[i].version = gpu[i].version
    BY <2>1, <2>2, <2>4 DEF Jobs
  <2> QED  BY <2>1, <2>2, <2>3, <2>4
<1>2. OneCallEach'
  BY <1>1 DEF OneCallEach
<1>3. \A i \in 1..Len(gpu') : gpu'[i].owner # v
  BY <1>1, SessionAssumption
<1>4. ASSUME NEW i \in 1..Len(gpu')
      PROVE  Fits(i, gpu[i])'
  <2>1. CASE gpu[i].owner = v
    BY <2>1, <1>1, SessionAssumption DEF Fits, OfNobody
  <2>2. CASE gpu[i].owner # v
    <3> PICK other \in Jobs : other = gpu[i]
      BY <1>1
    <3>1. Fits(i, other)'
      BY <2>2, <1>1 DEF Keeps
    <3> QED  BY <2>2, <3>1, <1>1
  <2> QED  BY <2>1, <2>2
<1> QED  BY <1>2, <1>3, <1>4 DEF Calls

\* The one call in line of a session that is gone is taken out of it.
LEMMA LineIsWithout ==
  ASSUME gpu \in Seq(Jobs), OneCallEach, Calls, NEW v \in Viewers, gpu' = Without(v),
         \A i \in 1..Len(gpu) : gpu[i].owner # v => Keeps(i)
  PROVE  /\ gpu' \in Seq(Jobs) /\ OneCallEach' /\ Calls'
         /\ \A i \in 1..Len(gpu') : gpu'[i].owner # v
<1>1. CASE \A i \in 1..Len(gpu) : gpu[i].owner # v
  <2>1. gpu' = gpu
    BY <1>1 DEF Without, RemoveFirstMatch
  <2>2. ASSUME NEW i \in 1..Len(gpu)
        PROVE  Fits(i, gpu[i])'
    <3> PICK other \in Jobs : other = gpu[i]
      OBVIOUS
    <3> QED  BY <1>1, <2>1 DEF Keeps
  <2> QED  BY <1>1, <2>1, <2>2 DEF OneCallEach, Calls
<1>2. ASSUME NEW k \in 1..Len(gpu), gpu[k].owner = v
      PROVE  /\ gpu' \in Seq(Jobs) /\ OneCallEach' /\ Calls'
             /\ \A i \in 1..Len(gpu') : gpu'[i].owner # v
  <2> DEFINE front == SubSeq(gpu, 1, k - 1)
             back == SubSeq(gpu, k + 1, Len(gpu))
  <2>1. gpu' = front \o back
    <3>1. {i \in 1..Len(gpu) : gpu[i].owner = v} = {k}
      BY <1>2, SessionAssumption DEF OneCallEach
    <3>2. Min({k}) = k
      BY DEF Min
    <3> QED  BY <1>2, <3>1, <3>2 DEF Without, RemoveFirstMatch, RemoveAt, SelectInSeq
  <2>2. Len(gpu) \in Nat /\ \A i \in 1..Len(gpu) : gpu[i] \in Jobs
    OBVIOUS
  <2>3. /\ front \in Seq(Jobs) /\ Len(front) = k - 1
        /\ \A i \in 1..(k - 1) : front[i] = gpu[i]
    <3>1. \A i \in 1..(k - 1) : gpu[i] \in Jobs
      BY <2>2
    <3> QED  BY <3>1, SubSeqProperties
  <2>4. /\ back \in Seq(Jobs) /\ Len(back) = Len(gpu) - k
        /\ \A i \in 1..(Len(gpu) - k) : back[i] = gpu[k + i]
    <3>1. \A i \in (k + 1)..Len(gpu) : gpu[i] \in Jobs
      BY <2>2
    <3>2. /\ SubSeq(gpu, k + 1, Len(gpu)) \in Seq(Jobs)
          /\ Len(SubSeq(gpu, k + 1, Len(gpu)))
               = IF k + 1 <= Len(gpu) THEN Len(gpu) - (k + 1) + 1 ELSE 0
          /\ \A i \in 1..(Len(gpu) - (k + 1) + 1) :
               SubSeq(gpu, k + 1, Len(gpu))[i] = gpu[(k + 1) + i - 1]
      BY <3>1, <2>2, SubSeqProperties
    <3> QED  BY <3>2, <2>2
  <2> HIDE DEF front, back
  <2>5. /\ gpu' \in Seq(Jobs) /\ Len(gpu') = Len(gpu) - 1
        /\ \A i \in 1..Len(gpu') : gpu'[i] = IF i < k THEN gpu[i] ELSE gpu[i + 1]
    <3>1. /\ gpu' \in Seq(Jobs) /\ Len(gpu') = Len(front) + Len(back)
          /\ \A i \in 1..(Len(front) + Len(back)) :
               gpu'[i] = IF i <= Len(front) THEN front[i] ELSE back[i - Len(front)]
      <4>1. front \in Seq(Jobs) /\ back \in Seq(Jobs)
        BY <2>3, <2>4
      <4>2. /\ front \o back \in Seq(Jobs) /\ Len(front \o back) = Len(front) + Len(back)
            /\ \A i \in 1..(Len(front) + Len(back)) :
                 (front \o back)[i] = IF i <= Len(front) THEN front[i] ELSE back[i - Len(front)]
        BY <4>1, ConcatProperties
      <4> QED  BY <4>2, <2>1
    <3>2. Len(front) = k - 1 /\ Len(back) = Len(gpu) - k /\ Len(gpu) \in Nat
      BY <2>2, <2>3, <2>4
    <3>3. Len(gpu') = Len(gpu) - 1
      BY <3>1, <3>2
    <3>4. ASSUME NEW i \in 1..(Len(gpu) - 1)
          PROVE  gpu'[i] = IF i < k THEN gpu[i] ELSE gpu[i + 1]
      <4>1. gpu'[i] = IF i <= k - 1 THEN front[i] ELSE back[i - (k - 1)]
        BY <3>1, <3>2
      <4>2. CASE i < k
        BY <4>1, <4>2, <2>3
      <4>3. CASE ~(i < k)
        <5>1. i - (k - 1) \in 1..(Len(gpu) - k) /\ k + (i - (k - 1)) = i + 1
          BY <4>3, <3>2
        <5> QED  BY <4>1, <4>3, <5>1, <2>4
      <4> QED  BY <4>2, <4>3
    <3> QED  BY <3>1, <3>3, <3>4
  <2>6. OneCallEach'
    <3> SUFFICES ASSUME NEW i \in 1..Len(gpu'), NEW j \in 1..Len(gpu'),
                        gpu'[i].owner = gpu'[j].owner, gpu'[i].owner # None
                 PROVE  i = j
      BY DEF OneCallEach
    <3> DEFINE a == IF i < k THEN i ELSE i + 1
               b == IF j < k THEN j ELSE j + 1
    <3>1. /\ a \in 1..Len(gpu) /\ b \in 1..Len(gpu) /\ gpu'[i] = gpu[a] /\ gpu'[j] = gpu[b]
          /\ a = b => i = j
      BY <2>2, <2>5
    <3> HIDE DEF a, b
    <3> QED  BY <3>1 DEF OneCallEach
  <2>7. \A i \in 1..Len(gpu) : i # k => gpu[i].owner # v
    BY <1>2, SessionAssumption DEF OneCallEach
  <2>8. ASSUME NEW i \in 1..Len(gpu')
        PROVE  gpu'[i].owner # v /\ Fits(i, gpu[i])'
    <3> DEFINE j == IF i < k THEN i ELSE i + 1
    <3>1. j \in 1..Len(gpu) /\ j # k /\ gpu'[i] = gpu[j] /\ (j = i \/ j > 1)
      BY <2>2, <2>5
    <3> HIDE DEF j
    <3> PICK other \in Jobs : other = gpu[j]
      BY <3>1, <2>2
    <3>2. Fits(j, other) /\ Fits(j, other)'
      BY <2>7, <3>1 DEF Keeps, Calls
    <3>3. Fits(i, other)'
      BY <3>1, <3>2 DEF Fits, OfNobody
    <3> QED  BY <2>7, <3>1, <3>3
  <2> QED  BY <2>5, <2>6, <2>8 DEF Calls
<1> QED  BY <1>1, <1>2

-----------------------------------------------------------------------------
\* What the call that runs says of its owner.
LEMMA ViewerRuns ==
  ASSUME TypeOK, Seats, Calls, NEW v \in Viewers, NEW kind, Running(v, kind)
  PROVE  /\ pc[v] = "streaming" /\ ~ready[v] /\ kind = CallAt(at[v]) /\ on[v] \in Worlds
         /\ state[on[v]] \notin Making
         /\ gpu # <<>> /\ Head(gpu) = gpu[1] /\ 1 \in 1..Len(gpu) /\ gpu[1].owner = v
         /\ gpu[1].version \in Versions
         /\ kind # "step" => OfViewer(v, gpu[1])
<1>1. /\ gpu # <<>> /\ Head(gpu) = gpu[1] /\ 1 \in 1..Len(gpu)
      /\ gpu[1].owner = v /\ gpu[1].kind = kind /\ gpu[1].version \in Versions
  BY FirstRuns DEF TypeOK
<1>2. OfViewer(v, gpu[1])
  BY <1>1 DEF Calls, Fits
<1>3. Seat(v)
  BY DEF Seats
<1> QED  BY <1>1, <1>2, <1>3 DEF OfViewer, Seat

LEMMA WorldRuns ==
  ASSUME TypeOK, Calls, NEW w \in Worlds, NEW kind, Running(w, kind)
  PROVE  /\ kind = "generate" => state[w] = "image"
         /\ kind = "reset" => state[w] = "reset"
         /\ kind \in {"generate", "reset"}
         /\ gpu # <<>> /\ Head(gpu) = gpu[1] /\ 1 \in 1..Len(gpu) /\ gpu[1].owner = w
<1>1. /\ gpu # <<>> /\ Head(gpu) = gpu[1] /\ 1 \in 1..Len(gpu)
      /\ gpu[1].owner = w /\ gpu[1].kind = kind
  BY FirstRuns DEF TypeOK
<1>2. OfWorld(w, gpu[1])
  BY <1>1 DEF Calls, Fits
<1> QED  BY <1>1, <1>2 DEF OfWorld

-----------------------------------------------------------------------------
\* The type invariant falls into four parts.
LineTypeOK == gpu \in Seq(Jobs)
RuntimeTypeOK ==
  /\ world \in Worlds \cup {None}
  /\ state \in [Worlds -> Making \cup States]
  /\ version \in [Worlds -> Versions]
  /\ streaming \in BOOLEAN /\ stop \in BOOLEAN
  /\ edits \in Seq(Versions)
  /\ engine \in [world: Worlds \cup {None}, version: Versions]
SocketTypeOK ==
  /\ pc \in [Viewers -> {"idle", "accepting", "streaming", "closing"}]
  /\ on \in [Viewers -> Worlds \cup {None}]
  /\ listening \in [Viewers -> BOOLEAN]
  /\ sent \in [Viewers -> Versions]
LoopTypeOK ==
  /\ at \in [Viewers -> {"off", "head", "step", "edit", "splice", "play", "last"}]
  /\ ready \in [Viewers -> BOOLEAN]
  /\ frames \in [Viewers -> 0..FramesPerStep]
  /\ out \in [Viewers -> Seq(Payloads)]
  /\ key \in [Viewers -> BOOLEAN] /\ gap \in [Viewers -> BOOLEAN]

LEMMA TypeParts == TypeOK <=> LineTypeOK /\ RuntimeTypeOK /\ SocketTypeOK /\ LoopTypeOK
  BY DEF TypeOK, LineTypeOK, RuntimeTypeOK, SocketTypeOK, LoopTypeOK

\* The calls that are made are of their type.
LEMMA JobTypes ==
  ASSUME NEW v \in Versions
  PROVE  /\ \A kind \in Kinds, o \in Worlds \cup Viewers \cup {None} : Job(o, kind, v) \in Jobs
         /\ 0 \in Versions
  BY SessionAssumption DEF Job, Jobs, Versions

\* A call that joins the line leaves it a line.
LEMMA LineTypes ==
  ASSUME LineTypeOK
  PROVE  /\ \A job \in Jobs : Append(gpu, job) \in Seq(Jobs)
         /\ gpu # <<>> => Tail(gpu) \in Seq(Jobs)
         /\ \A job \in Jobs : gpu # <<>> => Append(Tail(gpu), job) \in Seq(Jobs)
         /\ \A v \in Viewers : Disown(v) \in Seq(Jobs)
<1> USE DEF LineTypeOK
<1>1. \A job \in Jobs : Append(gpu, job) \in Seq(Jobs)
  BY AppendProperties
<1>2. gpu # <<>> => Tail(gpu) \in Seq(Jobs)
  BY HeadTailProperties
<1>3. \A job \in Jobs : gpu # <<>> => Append(Tail(gpu), job) \in Seq(Jobs)
  BY <1>2, AppendProperties
<1>4. ASSUME NEW v \in Viewers
      PROVE  Disown(v) \in Seq(Jobs)
  <2>1. Len(gpu) \in Nat /\ \A i \in 1..Len(gpu) : gpu[i] \in Jobs
    OBVIOUS
  <2>2. \A i \in 1..Len(gpu) : [gpu[i] EXCEPT !.owner = None] \in Jobs
    BY <2>1 DEF Jobs
  <2> DEFINE d == [i \in 1..Len(gpu) |-> IF gpu[i].owner = v
                                         THEN [gpu[i] EXCEPT !.owner = None] ELSE gpu[i]]
  <2>3. d \in [1..Len(gpu) -> Jobs]
    BY <2>1, <2>2
  <2>4. d \in Seq(Jobs)
    BY <2>1, <2>3, SeqDef
  <2> QED  BY <2>4 DEF Disown
<1> QED  BY <1>1, <1>2, <1>3, <1>4

\* The steps of a session, in the order of the module, and the ends of one.
Ends(v) == StreamEnds(v) \/ StreamFails(v) \/ StartFails(v) \/ LastStepFails(v) \/ StreamCancelled(v)
Turns(v) == SpliceDone(v) \/ EditFails(v)

\* The world, the engine and the marks of the runtime keep their types.
LEMMA StepKeepsRuntimeTypes ==
  ASSUME TypeOK, Seats, Calls, [Next]_vars
  PROVE  RuntimeTypeOK'
<1> USE DEF RuntimeTypeOK
<1>1. /\ LineTypeOK /\ RuntimeTypeOK /\ SocketTypeOK
      /\ <<>> \in Seq(Versions) /\ 0 \in Versions
  BY TypeParts, EmptySeq, SessionAssumption DEF Versions
<1>2. gpu # <<>> => Head(gpu).version \in Versions
  <2>1. gpu # <<>> => Head(gpu) \in Jobs
    BY <1>1, HeadTailProperties DEF LineTypeOK
  <2> QED  BY <2>1 DEF Jobs
<1>3. CASE UNCHANGED vars \/ GenerateImage
  BY <1>1, <1>3 DEF vars, worldVars, runtimeVars, GenerateImage
<1>4. CASE OrphanDone
  BY <1>1, <1>2, <1>4 DEF OrphanDone, Running, worldVars, runtimeVars
<1>5. CASE CloseWorld
  BY <1>1, <1>5 DEF CloseWorld, States
<1>6. ASSUME NEW w \in Worlds, MakingStep(w) \/ \E first \in {"image", "reset"} : CreateWorld(w, first)
      PROVE  RuntimeTypeOK'
  <2>1. CASE WorldMade(w)
    BY <1>1, <2>1 DEF WorldMade, runtimeVars, States
  <2>2. CASE ImageDone(w) \/ CreateFails(w) \/ \E first \in {"image", "reset"} : CreateWorld(w, first)
    BY <1>1, <2>2 DEF ImageDone, CreateFails, CreateWorld, runtimeVars, Making
  <2> QED  BY <1>6, <2>1, <2>2 DEF MakingStep
<1>7. ASSUME NEW v \in Viewers,
             \/ OpenSocket(v) \/ StreamRefused(v) \/ StepDone(v) \/ LoopHead(v) \/ TakeFrames(v)
             \/ PlayFrame(v)
      PROVE  RuntimeTypeOK'
  BY <1>1, <1>7
  DEF OpenSocket, StreamRefused, StepDone, LoopHead, TakeFrames, PlayFrame, worldVars, runtimeVars
<1>8. ASSUME NEW v \in Viewers, ReceiverEnds(v) \/ Drain(v)
      PROVE  RuntimeTypeOK'
  BY <1>1, <1>8 DEF ReceiverEnds, Drain, worldVars
<1>9. ASSUME NEW v \in Viewers, SocketCloses(v)
      PROVE  RuntimeTypeOK'
  <2> DEFINE stopped == stop \/ listening[v]
  <2>1. stopped \in BOOLEAN
    OBVIOUS
  <2>2. stop' = stopped /\ UNCHANGED <<worldVars, streaming, edits, engine>>
    BY <1>9 DEF SocketCloses
  <2> HIDE DEF stopped
  <2> QED  BY <1>1, <2>1, <2>2 DEF worldVars
<1>10. ASSUME NEW v \in Viewers, StartStream(v)
       PROVE  RuntimeTypeOK'
  BY <1>1, <1>10 DEF StartStream, States
<1>11. ASSUME NEW v \in Viewers, NEW n \in Versions, RequestEdit(v, n)
       PROVE  RuntimeTypeOK'
  <2>1. Append(edits, n) \in Seq(Versions)
    BY <1>1, AppendProperties
  <2> QED  BY <1>1, <1>11, <2>1 DEF RequestEdit, worldVars
<1>12. ASSUME NEW v \in Viewers, BeginEdit(v)
       PROVE  RuntimeTypeOK'
  BY <1>1, <1>12 DEF BeginEdit, States
<1>13. ASSUME NEW v \in Viewers, EditDone(v)
       PROVE  RuntimeTypeOK'
  BY <1>1, <1>13 DEF EditDone, EditedVersion, runtimeVars
<1>14. ASSUME NEW v \in Viewers, Turns(v)
       PROVE  RuntimeTypeOK'
  <2>1. /\ state' \in [Worlds -> Making \cup States]
        /\ UNCHANGED <<world, runtimeVars>>
    BY <1>1, <1>14 DEF Turns, SpliceDone, EditFails, GoOn, States
  <2>2. version' \in [Worlds -> Versions] /\ engine' \in [world: Worlds \cup {None}, version: Versions]
    BY <1>1, <1>2, <1>14 DEF Turns, SpliceDone, EditFails, Running
  <2> QED  BY <1>1, <2>1, <2>2 DEF runtimeVars
<1>15. ASSUME NEW v \in Viewers, Ends(v)
       PROVE  RuntimeTypeOK'
  <2>1. Seat(v)
    BY DEF Seats
  <2>2. on[v] \in Worlds
    <3>1. CASE StreamEnds(v) \/ StreamFails(v) \/ LastStepFails(v)
      BY <2>1, <3>1 DEF StreamEnds, StreamFails, LastStepFails, Seat
    <3>2. CASE StartFails(v) \/ StreamCancelled(v)
      BY <2>1, <3>2 DEF StartFails, StreamCancelled, Seat
    <3> QED  BY <1>15, <3>1, <3>2 DEF Ends
  <2>3. PICK last \in Making \cup States : Finally(v, last)
    <3>1. state[on[v]] \in Making \cup States /\ "FAILED" \in Making \cup States
      BY <1>1, <2>2 DEF States
    <3> QED
      BY <1>15, <3>1 DEF Ends, StreamEnds, StreamFails, StartFails, LastStepFails, StreamCancelled
  <2> QED  BY <1>1, <2>3 DEF Finally, Rest, States
<1> QED
  BY <1>3, <1>4, <1>5, <1>6, <1>7, <1>8, <1>9, <1>10, <1>11, <1>12, <1>13, <1>14, <1>15
  DEF Next, SessionStep, Turns, Ends

\* So do the sockets...
LEMMA StepKeepsSocketTypes ==
  ASSUME TypeOK, [Next]_vars
  PROVE  SocketTypeOK'
<1> USE DEF SocketTypeOK
<1>1. SocketTypeOK /\ RuntimeTypeOK /\ 0 \in Versions
  BY TypeParts, SessionAssumption DEF Versions
<1>2. CASE UNCHANGED socketVars
  BY <1>1, <1>2 DEF socketVars
<1>3. ASSUME NEW v \in Viewers, OpenSocket(v) \/ StartStream(v) \/ StreamRefused(v)
      PROVE  SocketTypeOK'
  <2>1. CASE OpenSocket(v)
    BY <1>1, <2>1 DEF OpenSocket, RuntimeTypeOK
  <2>2. CASE StartStream(v)
    BY <1>1, <2>2 DEF StartStream
  <2>3. CASE StreamRefused(v)
    BY <1>1, <2>3 DEF StreamRefused
  <2> QED  BY <1>3, <2>1, <2>2, <2>3
<1>4. ASSUME NEW v \in Viewers, NEW n \in Versions, RequestEdit(v, n)
      PROVE  SocketTypeOK'
  BY <1>1, <1>4 DEF RequestEdit
<1>5. ASSUME NEW v \in Viewers, ReceiverEnds(v) \/ SocketCloses(v)
      PROVE  SocketTypeOK'
  BY <1>1, <1>5 DEF ReceiverEnds, SocketCloses
<1>6. ASSUME NEW v \in Viewers, Ends(v)
      PROVE  SocketTypeOK'
  <2>1. listening' = listening \/ listening' = [listening EXCEPT ![v] = TRUE]
    BY <1>6 DEF Ends, StreamEnds, StreamFails, StartFails, LastStepFails, StreamCancelled
  <2>2. \E last : Finally(v, last)
    BY <1>6 DEF Ends, StreamEnds, StreamFails, StartFails, LastStepFails, StreamCancelled
  <2>3. /\ pc' = [pc EXCEPT ![v] = "closing"] /\ on' = [on EXCEPT ![v] = None]
        /\ sent' = [sent EXCEPT ![v] = 0]
    BY <2>2 DEF Finally
  <2> QED  BY <1>1, <2>1, <2>3
<1>7. UNCHANGED socketVars \/ \E v \in Viewers :
        \/ OpenSocket(v) \/ StartStream(v) \/ StreamRefused(v)
        \/ ReceiverEnds(v) \/ SocketCloses(v) \/ Ends(v)
        \/ \E n \in Versions : RequestEdit(v, n)
  BY DEF Next, vars, OrphanDone, GenerateImage, CloseWorld, MakingStep, CreateWorld, ImageDone,
         WorldMade, CreateFails, Drain, SessionStep, StepDone, LoopHead, TakeFrames, BeginEdit,
         EditDone, SpliceDone, EditFails, GoOn, PlayFrame, Ends
<1> QED  BY <1>2, <1>3, <1>4, <1>5, <1>6, <1>7

\* ... and the loops.
LEMMA StepKeepsLoopTypes ==
  ASSUME TypeOK, Seats, [Next]_vars
  PROVE  LoopTypeOK'
<1> USE DEF LoopTypeOK
<1>1. LoopTypeOK
  BY TypeParts
<1>2. CASE UNCHANGED <<loopVars, videoVars>>
  BY <1>1, <1>2 DEF loopVars, videoVars
<1>3. ASSUME NEW v \in Viewers, StartStream(v)
      PROVE  LoopTypeOK'
  <2>1. <<"key">> \in Seq(Payloads)
    BY DEF Payloads
  <2> QED  BY <1>1, <1>3, <2>1 DEF StartStream
<1>4. ASSUME NEW v \in Viewers, StepDone(v) \/ LoopHead(v) \/ BeginEdit(v) \/ EditDone(v)
      PROVE  LoopTypeOK'
  BY <1>1, <1>4 DEF StepDone, LoopHead, BeginEdit, EditDone, videoVars
<1>5. ASSUME NEW v \in Viewers, TakeFrames(v) \/ Turns(v)
      PROVE  LoopTypeOK'
  <2>1. StartPlaying(v) /\ UNCHANGED <<out, gap>> /\ (key' = key \/ key' = [key EXCEPT ![v] = TRUE])
    BY <1>5 DEF TakeFrames, Turns, SpliceDone, EditFails, GoOn, videoVars
  <2>2. FramesPerStep \in 0..FramesPerStep
    BY SessionAssumption
  <2> QED  BY <1>1, <2>1, <2>2 DEF StartPlaying
<1>6. ASSUME NEW v \in Viewers, PlayFrame(v)
      PROVE  LoopTypeOK'
  <2>1. Payload(v) \in Payloads
    BY DEF Payload, Payloads
  <2>2. out' \in [Viewers -> Seq(Payloads)]
    <3>1. Append(out[v], Payload(v)) \in Seq(Payloads)
      BY <1>1, <2>1, AppendProperties
    <3> QED  BY <1>1, <1>6, <3>1 DEF PlayFrame
  <2>3. frames' \in [Viewers -> 0..FramesPerStep]
    <3>1. frames[v] # 0
      BY <1>6 DEF PlayFrame, Seats, Seat
    <3>2. 0 \in 0..FramesPerStep /\ frames[v] - 1 \in 0..FramesPerStep
      BY <1>1, <3>1, SessionAssumption
    <3> QED  BY <1>1, <1>6, <3>2 DEF PlayFrame
  <2>4. key' \in [Viewers -> BOOLEAN] /\ gap' \in [Viewers -> BOOLEAN]
    <3> DEFINE full == Len(out[v]) >= QueueLength
    <3>1. full \in BOOLEAN
      OBVIOUS
    <3>2. key' = [key EXCEPT ![v] = full] /\ gap' = [gap EXCEPT ![v] = full]
      BY <1>6 DEF PlayFrame, KeyAfter
    <3> HIDE DEF full
    <3> QED  BY <1>1, <3>1, <3>2
  <2>5. at' \in [Viewers -> {"off", "head", "step", "edit", "splice", "play", "last"}]
        /\ UNCHANGED ready
    BY <1>1, <1>6 DEF PlayFrame
  <2> QED  BY <1>1, <2>2, <2>3, <2>4, <2>5
<1>7. ASSUME NEW v \in Viewers, Drain(v)
      PROVE  LoopTypeOK'
  <2>1. Tail(out[v]) \in Seq(Payloads)
    BY <1>1, <1>7, HeadTailProperties DEF Drain
  <2> QED  BY <1>1, <1>7, <2>1 DEF Drain, loopVars
<1>8. ASSUME NEW v \in Viewers, Ends(v)
      PROVE  LoopTypeOK'
  <2>1. \E last : Finally(v, last)
    BY <1>8 DEF Ends, StreamEnds, StreamFails, StartFails, LastStepFails, StreamCancelled
  <2>2. 0 \in 0..FramesPerStep /\ <<>> \in Seq(Payloads)
    BY SessionAssumption
  <2> QED  BY <1>1, <2>1, <2>2 DEF Finally
<1>9. UNCHANGED <<loopVars, videoVars>> \/ \E v \in Viewers :
        \/ StartStream(v) \/ StepDone(v) \/ LoopHead(v) \/ BeginEdit(v) \/ EditDone(v)
        \/ TakeFrames(v) \/ Turns(v) \/ PlayFrame(v) \/ Drain(v) \/ Ends(v)
  BY DEF Next, vars, OrphanDone, GenerateImage, CloseWorld, MakingStep, CreateWorld, ImageDone,
         WorldMade, CreateFails, SessionStep, OpenSocket, StreamRefused, SocketCloses,
         ReceiverEnds, RequestEdit, Turns, Ends
<1> QED  BY <1>2, <1>3, <1>4, <1>5, <1>6, <1>7, <1>8, <1>9

-----------------------------------------------------------------------------
\* One session at a time: the streaming mark is that of the socket that streams.
LEMMA StepKeepsOneStream ==
  ASSUME TypeOK, Seats, Calls, OneStream, [Next]_vars
  PROVE  OneStream'
<1> USE DEF OneStream
<1>1. SocketTypeOK /\ RuntimeTypeOK
  BY TypeParts
<1>2. CASE UNCHANGED <<streaming, pc>>
  BY <1>2
<1>3. ASSUME NEW v \in Viewers, StartStream(v)
      PROVE  OneStream'
  <2>1. /\ ~streaming /\ streaming' = TRUE /\ pc'[v] = "streaming"
        /\ \A u \in Viewers : u # v => pc'[u] = pc[u]
    BY <1>1, <1>3 DEF StartStream, MayStream, SocketTypeOK
  <2> QED  BY <2>1
<1>4. ASSUME NEW v \in Viewers, Ends(v)
      PROVE  OneStream'
  <2>1. \A u \in Viewers : pc[u] = "streaming" => u = v
    <3>1. Seat(v)
      BY DEF Seats
    <3> QED
      BY <1>4, <3>1 DEF Ends, StreamEnds, StreamFails, StartFails, LastStepFails,
                        StreamCancelled, MayStream, Seat
  <2>2. \E last : Finally(v, last)
    BY <1>4 DEF Ends, StreamEnds, StreamFails, StartFails, LastStepFails, StreamCancelled
  <2>3. /\ streaming' = FALSE /\ pc'[v] = "closing"
        /\ \A u \in Viewers : u # v => pc'[u] = pc[u]
    BY <1>1, <2>2 DEF Finally, SocketTypeOK
  <2> QED  BY <2>1, <2>3
<1>5. ASSUME NEW v \in Viewers, OpenSocket(v) \/ StreamRefused(v) \/ SocketCloses(v)
      PROVE  OneStream'
  <2>1. /\ UNCHANGED streaming /\ pc[v] # "streaming" /\ pc'[v] # "streaming"
        /\ \A u \in Viewers : u # v => pc'[u] = pc[u]
    BY <1>1, <1>5 DEF OpenSocket, StreamRefused, SocketCloses, SocketTypeOK, runtimeVars
  <2> QED  BY <2>1
<1>6. \/ UNCHANGED <<streaming, pc>>
      \/ \E v \in Viewers :
           StartStream(v) \/ Ends(v) \/ OpenSocket(v) \/ StreamRefused(v) \/ SocketCloses(v)
  BY ZenonT(30) DEF Next, vars, OrphanDone, GenerateImage, CloseWorld, MakingStep, CreateWorld, ImageDone,
         WorldMade, CreateFails, SessionStep, StepDone, LoopHead, TakeFrames, BeginEdit, EditDone,
         SpliceDone, EditFails, GoOn, PlayFrame, Drain, ReceiverEnds, RequestEdit, Ends,
         socketVars, runtimeVars
<1> QED  BY <1>2, <1>3, <1>4, <1>5, <1>6

\* A session that ends does it from its place, with its world's state or FAILED.
LEMMA EndsAre ==
  ASSUME TypeOK, Seats, NEW v \in Viewers, Ends(v)
  PROVE  /\ on[v] \in Worlds /\ state[on[v]] \in States
         /\ \E last \in States : (last = state[on[v]] \/ last = "FAILED") /\ Finally(v, last)
<1>1. Seat(v)
  BY DEF Seats
<1>2. on[v] \in Worlds /\ state[on[v]] \notin Making
  <2>1. CASE StreamEnds(v) \/ StreamFails(v) \/ LastStepFails(v)
    BY <1>1, <2>1 DEF StreamEnds, StreamFails, LastStepFails, Seat
  <2>2. CASE StartFails(v) \/ StreamCancelled(v)
    BY <1>1, <2>2 DEF StartFails, StreamCancelled, Seat
  <2> QED  BY <2>1, <2>2 DEF Ends
<1>3. state[on[v]] \in States /\ "FAILED" \in States
  BY <1>2 DEF TypeOK, States
<1> QED
  BY <1>2, <1>3 DEF Ends, StreamEnds, StreamFails, StartFails, LastStepFails, StreamCancelled

\* A world that is made is never in the making again.
LEMMA MadeStaysMade ==
  ASSUME TypeOK, Seats, Calls, [Next]_vars, NEW w \in Worlds, state[w] \notin Making
  PROVE  state'[w] \notin Making
<1>1. RuntimeTypeOK
  BY TypeParts
<1>2. CASE UNCHANGED state
  BY <1>2
<1>3. ASSUME NEW o, NEW s \in States, state' = [state EXCEPT ![o] = s]
      PROVE  state'[w] \notin Making
  BY <1>1, <1>3 DEF RuntimeTypeOK, Making, States
<1>4. ASSUME CloseWorld \/ (\E o \in Worlds : WorldMade(o))
             \/ \E v \in Viewers : StartStream(v) \/ BeginEdit(v) \/ Turns(v)
      PROVE  state'[w] \notin Making
  BY <1>3, <1>4 DEF CloseWorld, WorldMade, StartStream, BeginEdit, Turns, SpliceDone, EditFails,
                    GoOn, States
<1>5. ASSUME NEW v \in Viewers, Ends(v)
      PROVE  state'[w] \notin Making
  <2>1. PICK last \in States : Finally(v, last)
    BY <1>5, EndsAre
  <2>2. Rest(last) \in States /\ state' = [state EXCEPT ![on[v]] = Rest(last)]
    BY <2>1 DEF Finally, Rest, States
  <2> QED  BY <1>3, <2>2
<1>6. ASSUME NEW o \in Worlds, \/ ImageDone(o) \/ CreateFails(o)
                               \/ \E first \in {"image", "reset"} : CreateWorld(o, first)
      PROVE  state'[w] \notin Making
  <2>1. state[o] \in Making
    BY <1>6, WorldRuns DEF ImageDone, CreateFails, CreateWorld, Making
  <2>2. \A p \in Worlds : p # o => state'[p] = state[p]
    BY <1>1, <1>6 DEF ImageDone, CreateFails, CreateWorld, RuntimeTypeOK
  <2> QED  BY <2>1, <2>2
<1>7. \/ UNCHANGED state \/ CloseWorld
      \/ \E o \in Worlds : WorldMade(o) \/ ImageDone(o) \/ CreateFails(o)
                           \/ \E first \in {"image", "reset"} : CreateWorld(o, first)
      \/ \E v \in Viewers : StartStream(v) \/ BeginEdit(v) \/ Turns(v) \/ Ends(v)
  BY DEF Next, vars, worldVars, OrphanDone, GenerateImage, MakingStep, SessionStep, OpenSocket,
         StreamRefused, SocketCloses, ReceiverEnds, Drain, RequestEdit, StepDone, LoopHead,
         TakeFrames, EditDone, PlayFrame, Turns, Ends
<1> QED  BY <1>2, <1>4, <1>5, <1>6, <1>7

\* The place of a socket is that of its loop, and its world is made.
LEMMA StepKeepsSeats ==
  ASSUME TypeOK, Seats, Calls, Made, [Next]_vars
  PROVE  Seats'
<1>1. SocketTypeOK /\ RuntimeTypeOK /\ LoopTypeOK
  BY TypeParts
<1> DEFINE SameSeat(u) == UNCHANGED <<pc[u], on[u], at[u], ready[u], frames[u], gap[u], key[u]>>
           Sits(v) == Seat(v)' /\ \A u \in Viewers : u # v => SameSeat(u)
<1>2. \A u \in Viewers : SameSeat(u) => Seat(u)'
  BY MadeStaysMade DEF Seats, Seat
<1>3. ASSUME NEW v \in Viewers, Sits(v)
      PROVE  Seats'
  BY <1>2, <1>3 DEF Seats
<1>4. ASSUME NEW v \in Viewers, OpenSocket(v)
      PROVE  Sits(v)
  <2>1. world \in Worlds /\ state[world] \notin Making /\ state' = state
    BY <1>1, <1>4 DEF OpenSocket, Made, RuntimeTypeOK, worldVars
  <2>2. Seat(v)
    BY DEF Seats
  <2> QED
    BY <1>1, <1>4, <2>1, <2>2 DEF OpenSocket, Seat, SocketTypeOK, loopVars, videoVars
<1>5. ASSUME NEW v \in Viewers, StartStream(v)
      PROVE  Sits(v)
  <2>1. Seat(v) /\ on[v] \in Worlds /\ state'[on[v]] \notin Making
    BY <1>5, MadeStaysMade DEF Seats, Seat, StartStream
  <2> QED  BY <1>1, <1>5, <2>1 DEF StartStream, Seat, SocketTypeOK, LoopTypeOK
<1>6. ASSUME NEW v \in Viewers, StreamRefused(v) \/ SocketCloses(v)
      PROVE  Sits(v)
  <2>1. Seat(v)
    BY DEF Seats
  <2> QED
    BY <1>1, <1>6, <2>1 DEF StreamRefused, SocketCloses, Seat, SocketTypeOK, loopVars, videoVars
<1>7. ASSUME NEW v \in Viewers, LoopHead(v) \/ BeginEdit(v) \/ EditDone(v) \/ StepDone(v)
      PROVE  Sits(v)
  <2>1. Seat(v) /\ (pc[v] \in {"accepting", "streaming"} => state'[on[v]] \notin Making)
    BY MadeStaysMade DEF Seats, Seat
  <2>2. pc[v] = "streaming" /\ UNCHANGED <<pc, on, frames, gap, key>>
    BY <1>7, ViewerRuns
    DEF LoopHead, BeginEdit, EditDone, StepDone, Seats, Seat, socketVars, videoVars
  <2>3. /\ at'[v] \in {"last", "step", "edit", "splice"} \/ at'[v] = at[v]
        /\ \A u \in Viewers : u # v => UNCHANGED <<at[u], ready[u]>>
    BY <1>1, <1>7 DEF LoopHead, BeginEdit, EditDone, StepDone, LoopTypeOK
  <2>4. at'[v] \in {"edit", "splice"} => ~ready'[v]
    <3>1. CASE StepDone(v)
      <4>1. at[v] \notin {"edit", "splice"} /\ UNCHANGED at
        BY <3>1, ViewerRuns DEF StepDone, CallAt
      <4> QED  BY <4>1
    <3>2. CASE EditDone(v)
      BY <3>2, ViewerRuns DEF EditDone
    <3>3. CASE BeginEdit(v) \/ LoopHead(v)
      BY <1>1, <3>3 DEF BeginEdit, LoopHead, LoopTypeOK
    <3> QED  BY <1>7, <3>1, <3>2, <3>3
  <2> QED  BY <2>1, <2>2, <2>3, <2>4 DEF Seat
<1>8. ASSUME NEW v \in Viewers, TakeFrames(v) \/ Turns(v)
      PROVE  Sits(v)
  <2>1. Seat(v) /\ (pc[v] \in {"accepting", "streaming"} => state'[on[v]] \notin Making)
    BY MadeStaysMade DEF Seats, Seat
  <2>2. pc[v] = "streaming"
    BY <1>8, ViewerRuns
    DEF TakeFrames, Turns, SpliceDone, EditFails, Seats, Seat
  <2>3. /\ at' = [at EXCEPT ![v] = "play"] /\ frames' = [frames EXCEPT ![v] = FramesPerStep]
        /\ ready' = [ready EXCEPT ![v] = FALSE]
        /\ UNCHANGED <<pc, on, gap>>
        /\ key' = key \/ key' = [key EXCEPT ![v] = TRUE]
    BY <1>8 DEF TakeFrames, Turns, SpliceDone, EditFails, GoOn, StartPlaying, socketVars, videoVars
  <2> QED  BY <1>1, <2>1, <2>2, <2>3, SessionAssumption DEF Seat, LoopTypeOK
<1>9. ASSUME NEW v \in Viewers, PlayFrame(v)
      PROVE  Sits(v)
  <2>1. Seat(v) /\ state' = state
    BY <1>9 DEF Seats, PlayFrame, worldVars
  <2>2. /\ at[v] = "play" /\ UNCHANGED <<pc, on, ready>>
        /\ \A u \in Viewers : u # v => UNCHANGED <<at[u], frames[u], gap[u], key[u]>>
    BY <1>1, <1>9 DEF PlayFrame, socketVars, LoopTypeOK
  <2>3. at'[v] \in {"head", "play"} /\ (at'[v] = "play" => frames'[v] # 0)
    <3>1. frames[v] \in 0..FramesPerStep /\ FramesPerStep \in Nat
      BY <1>1, SessionAssumption DEF LoopTypeOK
    <3> QED  BY <1>1, <1>9, <3>1 DEF PlayFrame, LoopTypeOK
  <2>4. key'[v] = gap'[v]
    BY <1>1, <1>9 DEF PlayFrame, KeyAfter, LoopTypeOK
  <2> QED  BY <2>1, <2>2, <2>3, <2>4 DEF Seat
<1>10. ASSUME NEW v \in Viewers, Ends(v)
       PROVE  Sits(v)
  <2>1. \E last : Finally(v, last)
    BY <1>10, EndsAre
  <2> QED  BY <1>1, <2>1 DEF Finally, Seat, SocketTypeOK, LoopTypeOK
<1>11. CASE \A u \in Viewers : SameSeat(u)
  BY <1>2, <1>11 DEF Seats
<1> HIDE DEF Sits
<1>12. (\A u \in Viewers : SameSeat(u)) \/ \E v \in Viewers : Sits(v)
  <2>1. CASE UNCHANGED <<pc, on, at, ready, frames, gap, key>>
    BY <2>1
  <2>2. \/ UNCHANGED <<pc, on, at, ready, frames, gap, key>>
        \/ \E v \in Viewers :
             \/ OpenSocket(v) \/ StartStream(v) \/ StreamRefused(v) \/ SocketCloses(v)
             \/ LoopHead(v) \/ BeginEdit(v) \/ EditDone(v) \/ StepDone(v)
             \/ TakeFrames(v) \/ Turns(v) \/ PlayFrame(v) \/ Ends(v)
    BY DEF Next, vars, socketVars, loopVars, videoVars, OrphanDone, GenerateImage, CloseWorld,
           MakingStep, CreateWorld, ImageDone, WorldMade, CreateFails, SessionStep, ReceiverEnds,
           Drain, RequestEdit, Turns, Ends
  <2> QED
    BY <2>1, <2>2, <1>4, <1>5, <1>6, <1>7, <1>8, <1>9, <1>10
<1> QED  BY <1>3, <1>11, <1>12

-----------------------------------------------------------------------------
\* The runtime's world is the engine's, and a world in the making is new to both.
LEMMA StepKeepsMade ==
  ASSUME TypeOK, Seats, Calls, Made, [Next]_vars
  PROVE  Made'
<1>1. RuntimeTypeOK
  BY TypeParts
<1>2. \A w \in Worlds : state'[w] \in Making =>
        state[w] \in Making /\ version[w] = 0 /\ engine.world # w
  BY MadeStaysMade DEF Made
<1>3. CASE UNCHANGED <<version, engine>> /\ (world' = world \/ world' = None)
  BY <1>2, <1>3 DEF Made
<1>4. CASE OrphanDone
  BY <1>1, <1>2, <1>4 DEF OrphanDone, Made, RuntimeTypeOK, worldVars
<1>5. ASSUME NEW w \in Worlds, WorldMade(w)
      PROVE  Made'
  <2>1. state'[w] = "READY"
    BY <1>1, <1>5 DEF WorldMade, RuntimeTypeOK
  <2> QED  BY <1>2, <1>5, <2>1 DEF WorldMade, Made, Making
<1>6. ASSUME NEW v \in Viewers, Turns(v)
      PROVE  Made'
  <2>1. world' = world /\ engine'.world = engine.world
    BY <1>1, <1>6 DEF Turns, SpliceDone, EditFails, GoOn, RuntimeTypeOK
  <2>2. state[on[v]] \notin Making
    BY <1>6, ViewerRuns DEF Turns, SpliceDone, EditFails
  <2>3. \A w \in Worlds : w # on[v] => version'[w] = version[w]
    BY <1>1, <1>6 DEF Turns, SpliceDone, EditFails, RuntimeTypeOK
  <2> QED  BY <1>2, <2>1, <2>2, <2>3 DEF Made
<1>7. \/ UNCHANGED <<version, engine>> /\ (world' = world \/ world' = None)
      \/ OrphanDone
      \/ \E w \in Worlds : WorldMade(w)
      \/ \E v \in Viewers : Turns(v)
  <2>1. ASSUME NEW v \in Viewers, Ends(v)
        PROVE  UNCHANGED <<version, engine, world>>
    <3>1. \E last : Finally(v, last)
      BY <2>1, EndsAre
    <3> QED  BY <3>1 DEF Finally
  <2> QED
    BY <2>1, ZenonT(30)
    DEF Next, vars, worldVars, GenerateImage, CloseWorld, MakingStep, CreateWorld, ImageDone,
        CreateFails, SessionStep, OpenSocket, StartStream, StreamRefused, SocketCloses,
        ReceiverEnds, Drain, RequestEdit, StepDone, LoopHead, TakeFrames, BeginEdit, EditDone,
        EditedVersion, PlayFrame, Turns, Ends
<1> QED  BY <1>3, <1>4, <1>5, <1>6, <1>7

-----------------------------------------------------------------------------
\* A call stays fit when what it waits for does not change.
LEMMA KeepsWhenStill ==
  ASSUME Calls, NEW i \in 1..Len(gpu),
         gpu[i].owner = None /\ gpu[i].kind = "splice" =>
            version' = version /\ engine'.world = engine.world,
         \A w \in Worlds : gpu[i].owner = w => state'[w] = state[w],
         \A u \in Viewers : gpu[i].owner = u =>
            /\ UNCHANGED <<pc[u], ready[u], on[u], sent[u], edits, version>>
            /\ CallAt(at[u])' = CallAt(at[u]) /\ engine'.world = engine.world
  PROVE  Keeps(i)
<1> SUFFICES ASSUME NEW job \in Jobs, job = gpu[i]
             PROVE  Fits(i, job)'
  BY DEF Keeps
<1>1. Fits(i, job)
  BY DEF Calls
<1>2. job.owner = None => OfNobody(i, job)'
  BY <1>1 DEF Fits, OfNobody
<1>3. job.owner \in Worlds => OfWorld(job.owner, job)'
  BY <1>1 DEF Fits, OfWorld
<1>4. job.owner \in Viewers => OfViewer(job.owner, job)'
  BY <1>1 DEF Fits, OfViewer
<1> QED  BY <1>2, <1>3, <1>4 DEF Fits

\* The line itself does not change.
LEMMA LineStays ==
  ASSUME gpu \in Seq(Jobs), OneCallEach, gpu' = gpu, \A i \in 1..Len(gpu) : Keeps(i)
  PROVE  LineTypeOK' /\ OneCallEach' /\ Calls'
<1>1. ASSUME NEW i \in 1..Len(gpu)
      PROVE  Fits(i, gpu[i])'
  <2> PICK job \in Jobs : job = gpu[i]
    OBVIOUS
  <2> QED  BY DEF Keeps
<1> QED  BY <1>1 DEF LineTypeOK, OneCallEach, Calls

\* What is known of the owner of each call.
LEMMA Owners ==
  ASSUME TypeOK, OneCallEach, Calls, OneStream, NEW i \in 1..Len(gpu)
  PROVE  /\ gpu[i] \in Jobs
         /\ gpu[i].owner = None /\ gpu[i].kind = "splice" => i = 1
         /\ \A w \in Worlds : gpu[i].owner = w => state[w] \in {"image", "reset"}
         /\ \A u \in Viewers : gpu[i].owner = u =>
              /\ pc[u] = "streaming" /\ ~ready[u]
              /\ \A v \in Viewers : pc[v] = "streaming" => v = u
         /\ i # 1 /\ gpu[1].owner # None => gpu[i].owner # gpu[1].owner
<1>1. Fits(i, gpu[i])
  BY DEF Calls
<1>2. gpu[i] \in Jobs
  BY DEF TypeOK
<1>3. i # 1 /\ gpu[1].owner # None => gpu[i].owner # gpu[1].owner
  BY DEF OneCallEach, TypeOK
<1> QED
  BY <1>1, <1>2, <1>3, SessionAssumption
  DEF Fits, OfNobody, OfWorld, OfViewer, OneStream, TypeOK

\* The makers of a world take their turn in the line, or leave it.
LEMMA MakingKeepsCalls ==
  ASSUME TypeOK, Seats, Made, OneCallEach, Calls, OneStream, NEW w \in Worlds,
         MakingStep(w) \/ \E first \in {"image", "reset"} : CreateWorld(w, first)
  PROVE  LineTypeOK' /\ OneCallEach' /\ Calls'
<1>1. /\ gpu \in Seq(Jobs) /\ RuntimeTypeOK /\ SocketTypeOK /\ None \notin Worlds \cup Viewers
      /\ Worlds \cap Viewers = {} /\ LineTypeOK
  BY TypeParts, SessionAssumption DEF LineTypeOK
<1>2. \A i \in 1..Len(gpu) : gpu[i].owner = w => state[w] \in {"image", "reset"}
  BY Owners
<1>3. Job(w, "reset", 0) \in Jobs /\ Job(w, "generate", 0) \in Jobs
  BY JobTypes, SessionAssumption DEF Kinds, Versions
<1>4. ASSUME NEW first \in {"image", "reset"}, CreateWorld(w, first)
      PROVE  LineTypeOK' /\ OneCallEach' /\ Calls'
  <2> DEFINE job == Job(w, IF first = "image" THEN "generate" ELSE "reset", 0)
  <2>1. /\ job \in Jobs /\ job.owner = w /\ gpu' = Append(gpu, job)
        /\ job.kind = IF first = "image" THEN "generate" ELSE "reset"
    BY <1>3, <1>4 DEF CreateWorld, Submit, Job
  <2>2. /\ state'[w] = first /\ \A o \in Worlds : o # w => UNCHANGED state[o]
        /\ UNCHANGED <<version, engine, edits, pc, ready, at, on, sent>>
    BY <1>1, <1>4 DEF CreateWorld, RuntimeTypeOK, runtimeVars, socketVars, loopVars
  <2> HIDE DEF job
  <2>3. \A i \in 1..Len(gpu) : gpu[i].owner # w
    BY <1>2, <1>4 DEF CreateWorld
  <2>4. ASSUME NEW i \in 1..Len(gpu) PROVE Keeps(i)
    BY <2>2, <2>3, KeepsWhenStill
  <2>5. \A i \in 1..Len(gpu') : Fits(i, job)'
    BY <1>1, <2>1, <2>2 DEF Fits, OfWorld
  <2>6. LineTypeOK'
    BY <1>1, <2>1, LineTypes DEF LineTypeOK
  <2> QED  BY <1>1, <2>1, <2>3, <2>4, <2>5, <2>6, LineGrows
<1>5. ASSUME MakingStep(w)
      PROVE  /\ gpu # <<>> /\ gpu[1].owner = w /\ state[w] \in {"image", "reset"}
             /\ \A i \in 2..Len(gpu) : gpu[i].owner # w
             /\ \A o \in Worlds : o # w => UNCHANGED state[o]
             /\ UNCHANGED <<version, edits, pc, ready, at, on, sent>>
  <2>1. gpu # <<>> /\ gpu[1].owner = w /\ state[w] \in {"image", "reset"}
    BY <1>5, WorldRuns DEF MakingStep, ImageDone, WorldMade, CreateFails
  <2>2. \A i \in 2..Len(gpu) : i \in 1..Len(gpu) /\ i # 1
    BY <1>1
  <2>3. \A i \in 2..Len(gpu) : gpu[i].owner # w
    BY <1>1, <2>1, <2>2, Owners
  <2> QED
    BY <1>1, <1>5, <2>1, <2>3
    DEF MakingStep, ImageDone, WorldMade, CreateFails, RuntimeTypeOK, runtimeVars, socketVars,
        loopVars
<1>6. ASSUME MakingStep(w), engine'.world = engine.world \/ WorldMade(w), NEW i \in 2..Len(gpu)
      PROVE  Keeps(i)
  <2>1. i \in 1..Len(gpu) /\ i # 1
    BY <1>1
  <2>2. CASE engine'.world = engine.world
    BY <1>5, <1>6, <2>1, <2>2, KeepsWhenStill
  <2>3. CASE WorldMade(w)
    <3> SUFFICES ASSUME NEW job \in Jobs, job = gpu[i]
                 PROVE  Fits(i, job)'
      BY DEF Keeps
    <3>1. Fits(i, job) /\ ~(job.owner = None /\ job.kind = "splice")
      BY <2>1, Owners DEF Calls
    <3>2. job.owner = None => OfNobody(i, job)'
      BY <3>1 DEF OfNobody
    <3>3. job.owner \in Worlds => OfWorld(job.owner, job)'
      BY <1>5, <1>6, <3>1 DEF Fits, OfWorld
    <3>4. ASSUME NEW u \in Viewers, job.owner = u
          PROVE  OfViewer(u, job)'
      <4>1. OfViewer(u, job) /\ pc[u] = "streaming"
        BY <3>1, <3>4 DEF Fits, OfViewer
      <4>2. on[u] # w
        BY <1>5, <1>6, <4>1 DEF Seats, Seat, Making
      <4>3. engine'.world = w
        BY <2>3 DEF WorldMade
      <4> QED  BY <1>5, <1>6, <4>1, <4>2, <4>3 DEF OfViewer
    <3> QED  BY <3>2, <3>3, <3>4 DEF Fits
  <2> QED  BY <1>6, <2>2, <2>3
<1>7. CASE ImageDone(w)
  <2> DEFINE job == Job(w, "reset", 0)
  <2>1. MakingStep(w) /\ engine'.world = engine.world /\ gpu' = Append(Tail(gpu), job)
    BY <1>7 DEF MakingStep, ImageDone, Replace
  <2>2. state'[w] = "reset"
    BY <1>1, <1>7 DEF ImageDone, RuntimeTypeOK
  <2>3. job \in Jobs /\ job.owner = w /\ job.kind = "reset"
    BY <1>3 DEF Job
  <2> HIDE DEF job
  <2>4. \A i \in 1..Len(gpu') : Fits(i, job)'
    BY <1>1, <2>2, <2>3 DEF Fits, OfWorld
  <2>5. \A i \in 2..Len(gpu) : Keeps(i)
    BY <1>6, <2>1
  <2>6. LineTypeOK'
    BY <1>1, <1>5, <2>1, <2>3, LineTypes DEF LineTypeOK
  <2> QED  BY <1>1, <1>5, <2>1, <2>3, <2>4, <2>5, <2>6, LineTurns
<1>8. CASE WorldMade(w) \/ CreateFails(w)
  <2>1. /\ MakingStep(w) /\ (engine'.world = engine.world \/ WorldMade(w))
        /\ gpu' = Tail(gpu)
    BY <1>8 DEF MakingStep, WorldMade, CreateFails
  <2>2. \A i \in 2..Len(gpu) : Keeps(i)
    BY <1>6, <2>1
  <2>3. LineTypeOK'
    BY <1>1, <1>5, <2>1, LineTypes DEF LineTypeOK
  <2> QED  BY <1>1, <1>5, <2>1, <2>2, <2>3, LineMovesUp
<1> QED  BY <1>4, <1>7, <1>8 DEF MakingStep

\* A step that leaves the line alone and the loop waiting for what it waited for.
LEMMA QuietKeepsCalls ==
  ASSUME TypeOK, Seats, OneCallEach, Calls, OneStream, NEW v \in Viewers,
         \/ OpenSocket(v) \/ StreamRefused(v) \/ SocketCloses(v) \/ ReceiverEnds(v) \/ Drain(v)
         \/ LoopHead(v) \/ PlayFrame(v)
  PROVE  LineTypeOK' /\ OneCallEach' /\ Calls'
<1>1. SocketTypeOK /\ LoopTypeOK /\ gpu \in Seq(Jobs)
  BY TypeParts DEF LineTypeOK
<1>2. /\ UNCHANGED <<gpu, ready, sent, edits, version, engine, state>>
      /\ \A u \in Viewers : u # v => UNCHANGED <<pc[u], on[u], at[u]>>
  BY <1>1
  DEF OpenSocket, StreamRefused, SocketCloses, ReceiverEnds, Drain, LoopHead, PlayFrame,
      worldVars, runtimeVars, socketVars, loopVars, SocketTypeOK, LoopTypeOK
<1>3. pc[v] = "streaming" => UNCHANGED <<pc[v], on[v]>> /\ CallAt(at[v])' = CallAt(at[v])
  BY <1>1
  DEF OpenSocket, StreamRefused, SocketCloses, ReceiverEnds, Drain, LoopHead, PlayFrame,
      worldVars, runtimeVars, socketVars, loopVars, CallAt, LoopTypeOK
<1>4. ASSUME NEW i \in 1..Len(gpu)
      PROVE  Keeps(i)
  BY <1>2, <1>3, Owners, KeepsWhenStill
<1> QED  BY <1>1, <1>2, <1>4, LineStays

\* An edit that is asked for is newer than the one that is on its way.
LEMMA RequestKeepsCalls ==
  ASSUME TypeOK, OneCallEach, Calls, OneStream, NEW v \in Viewers, NEW n \in Versions,
         RequestEdit(v, n)
  PROVE  LineTypeOK' /\ OneCallEach' /\ Calls'
<1>1. SocketTypeOK /\ RuntimeTypeOK /\ gpu \in Seq(Jobs)
  BY TypeParts DEF LineTypeOK
<1>2. /\ UNCHANGED <<gpu, worldVars, engine, pc, on, loopVars>> /\ sent[v] < n /\ sent'[v] = n
      /\ edits' = edits \/ edits' = Append(edits, n)
      /\ \A u \in Viewers : u # v => sent'[u] = sent[u]
      /\ pc[v] = "streaming"
  BY <1>1 DEF RequestEdit, SocketTypeOK
<1>3. ASSUME NEW job \in Jobs, job.version <= sent[v],
             \A k \in 1..Len(edits) : job.version <= edits[k]
      PROVE  job.version <= n /\ \A k \in 1..Len(edits') : job.version <= edits'[k]
  <2>1. job.version \in Nat /\ n \in Nat /\ sent[v] \in Nat
    BY <1>1, SessionAssumption DEF Jobs, Versions, SocketTypeOK
  <2>2. job.version <= n
    BY <1>2, <1>3, <2>1
  <2>3. CASE edits' = edits
    BY <1>3, <2>2, <2>3
  <2>4. CASE edits' = Append(edits, n)
    <3>1. edits \in Seq(Versions)
      BY <1>1 DEF RuntimeTypeOK
    <3>2. /\ Len(edits') = Len(edits) + 1 /\ Len(edits) \in Nat /\ edits'[Len(edits) + 1] = n
          /\ \A k \in 1..Len(edits) : edits'[k] = edits[k]
      BY <2>4, <3>1, AppendProperties
    <3> QED  BY <1>3, <2>2, <3>2
  <2> QED  BY <1>2, <2>2, <2>3, <2>4
<1>4. ASSUME NEW i \in 1..Len(gpu), NEW job \in Jobs, job = gpu[i]
      PROVE  Fits(i, job)'
  <2>1. Fits(i, job)
    BY <1>4 DEF Calls
  <2>2. job.owner = None => OfNobody(i, job)'
    BY <1>2, <2>1 DEF Fits, OfNobody, worldVars
  <2>3. job.owner \in Worlds => OfWorld(job.owner, job)'
    BY <1>2, <2>1 DEF Fits, OfWorld, worldVars
  <2>4. ASSUME NEW u \in Viewers, job.owner = u
        PROVE  OfViewer(u, job)'
    <3>1. OfViewer(u, job) /\ u = v
      BY <1>2, <1>4, <2>1, <2>4, Owners DEF Fits
    <3> QED  BY <1>2, <1>3, <3>1 DEF OfViewer, worldVars, loopVars
  <2> QED  BY <2>2, <2>3, <2>4 DEF Fits
<1>5. \A i \in 1..Len(gpu) : Keeps(i)
  BY <1>4 DEF Keeps
<1> QED  BY <1>1, <1>2, <1>5, LineStays

\* A session that has no call in the line asks for one.
LEMMA AskingKeepsCalls ==
  ASSUME TypeOK, Seats, OneCallEach, Calls, OneStream, AllAsked, NEW v \in Viewers,
         StartStream(v) \/ TakeFrames(v) \/ BeginEdit(v)
  PROVE  LineTypeOK' /\ OneCallEach' /\ Calls'
<1>1. /\ RuntimeTypeOK /\ SocketTypeOK /\ LoopTypeOK /\ gpu \in Seq(Jobs) /\ LineTypeOK
      /\ None \notin Worlds \cup Viewers /\ Worlds \cap Viewers = {}
  BY TypeParts, SessionAssumption DEF LineTypeOK
<1>2. /\ \A u \in Viewers : pc[u] = "streaming" => u = v
      /\ pc[v] = "streaming" => ready[v]
      /\ state[on[v]] \notin Making
  <2>1. Seat(v)
    BY DEF Seats
  <2> QED
    BY <2>1 DEF StartStream, MayStream, TakeFrames, BeginEdit, OneStream, Seat
<1>3. /\ UNCHANGED <<version, engine>>
      /\ \A w \in Worlds : w # on[v] => state'[w] = state[w]
  BY <1>1 DEF StartStream, TakeFrames, BeginEdit, worldVars, RuntimeTypeOK
<1>4. \A i \in 1..Len(gpu) : gpu[i].owner \notin Viewers
  BY <1>2, Owners
<1>5. ASSUME NEW i \in 1..Len(gpu)
      PROVE  Keeps(i)
  BY <1>2, <1>3, <1>4, Owners, KeepsWhenStill DEF Making
<1>6. ASSUME StartStream(v) \/ TakeFrames(v)
      PROVE  LineTypeOK' /\ OneCallEach' /\ Calls'
  <2> DEFINE job == Job(v, "step", 0)
  <2>1. job \in Jobs /\ job.owner = v /\ job.kind = "step"
    BY JobTypes, SessionAssumption DEF Job, Kinds, Versions
  <2>2. gpu' = Append(gpu, job)
    BY <1>6 DEF StartStream, TakeFrames, Submit
  <2> HIDE DEF job
  <2>3. pc'[v] = "streaming" /\ ~ready'[v] /\ at'[v] \in {"head", "play"}
    <3>1. CASE StartStream(v)
      <4>1. Seat(v) /\ pc[v] = "accepting"
        BY <3>1 DEF Seats, StartStream
      <4> QED  BY <1>1, <3>1, <4>1 DEF StartStream, Seat, SocketTypeOK, LoopTypeOK
    <3>2. CASE TakeFrames(v)
      <4>1. Seat(v)
        BY DEF Seats
      <4> QED
        BY <1>1, <3>2, <4>1 DEF TakeFrames, StartPlaying, Seat, LoopTypeOK, socketVars
    <3> QED  BY <1>6, <3>1, <3>2
  <2>4. \A i \in 1..Len(gpu') : Fits(i, job)'
    BY <1>1, <2>1, <2>3 DEF Fits, OfViewer, CallAt
  <2>5. LineTypeOK'
    BY <1>1, <2>1, <2>2, LineTypes DEF LineTypeOK
  <2> QED  BY <1>1, <1>4, <1>5, <2>1, <2>2, <2>4, <2>5, LineGrows
<1>7. ASSUME BeginEdit(v)
      PROVE  LineTypeOK' /\ OneCallEach' /\ Calls'
  <2>1. /\ edits \in Seq(Versions) /\ Len(edits) \in 1..Len(edits) /\ Last(edits) = edits[Len(edits)]
    BY <1>1, <1>7, EmptySeq DEF BeginEdit, RuntimeTypeOK, Last
  <2>2. Last(edits) \in Versions
    BY <2>1, ElementOfSeq
  <2> PICK job \in Jobs : job = Job(v, "edit", Last(edits))
    BY <2>2, JobTypes DEF Kinds
  <2>3. job.owner = v /\ job.kind = "edit" /\ job.version = Last(edits)
    BY DEF Job
  <2>4. gpu' = Append(gpu, job)
    BY <1>7 DEF BeginEdit, EditJobs
  <2>5. pc[v] = "streaming"
    BY <1>7 DEF BeginEdit, Seats, Seat
  <2>6. /\ pc'[v] = "streaming" /\ ~ready'[v] /\ at'[v] = "edit"
        /\ UNCHANGED <<on, sent, version, engine>> /\ edits' = <<>>
    BY <1>1, <1>7, <2>5 DEF BeginEdit, LoopTypeOK, socketVars
  <2>7. /\ Last(edits) <= sent[v]
        /\ engine.world = on[v] => version[on[v]] <= Last(edits)
    BY <2>1, <2>5 DEF AllAsked, Asked
  <2>8. \A i \in 1..Len(gpu') : Fits(i, job)'
    <3>1. Len(edits') = 0
      BY <2>6
    <3>2. OfViewer(v, job)'
      BY <2>3, <2>6, <2>7, <3>1 DEF OfViewer, CallAt
    <3> QED  BY <1>1, <2>3, <3>2 DEF Fits
  <2>9. LineTypeOK'
    BY <1>1, <2>3, <2>4, LineTypes DEF LineTypeOK
  <2>10. \A i \in 1..Len(gpu) : gpu[i].owner # job.owner
    BY <1>4, <2>3
  <2>11. OneCallEach' /\ Calls'
    BY <1>1, <1>5, <2>3, <2>4, <2>8, <2>10, LineGrows
  <2> QED  BY <2>9, <2>11
<1> QED  BY <1>6, <1>7

\* A session whose call ends asks for the next one, or has none.
LEMMA TurningKeepsCalls ==
  ASSUME TypeOK, Seats, OneCallEach, Calls, OneStream, NEW v \in Viewers,
         StepDone(v) \/ EditDone(v) \/ Turns(v)
  PROVE  LineTypeOK' /\ OneCallEach' /\ Calls'
<1>1. /\ RuntimeTypeOK /\ SocketTypeOK /\ LoopTypeOK /\ gpu \in Seq(Jobs) /\ LineTypeOK
      /\ None \notin Worlds \cup Viewers /\ Worlds \cap Viewers = {}
  BY TypeParts, SessionAssumption DEF LineTypeOK
<1>2. /\ gpu # <<>> /\ Head(gpu) = gpu[1] /\ gpu[1].owner = v /\ gpu[1].version \in Versions
      /\ pc[v] = "streaming" /\ ~ready[v] /\ state[on[v]] \notin Making
  BY ViewerRuns DEF StepDone, EditDone, Turns, SpliceDone, EditFails
<1>3. \A w \in Worlds : w # on[v] => state'[w] = state[w]
  BY <1>1 DEF StepDone, EditDone, Turns, SpliceDone, EditFails, GoOn, worldVars, RuntimeTypeOK
<1>4. ASSUME NEW i \in 2..Len(gpu)
      PROVE  Keeps(i)
  <2>1. i \in 1..Len(gpu) /\ i # 1
    BY <1>1
  <2>2. /\ gpu[i].owner # v
        /\ \A u \in Viewers : gpu[i].owner # u
        /\ ~(gpu[i].owner = None /\ gpu[i].kind = "splice")
        /\ \A w \in Worlds : gpu[i].owner = w => state'[w] = state[w]
    BY <1>1, <1>2, <1>3, <2>1, Owners DEF Making
  <2> QED  BY <2>1, <2>2, KeepsWhenStill
<1>5. CASE StepDone(v)
  <2>1. gpu' = Tail(gpu)
    BY <1>5 DEF StepDone
  <2>2. LineTypeOK'
    BY <1>1, <1>2, <2>1, LineTypes DEF LineTypeOK
  <2> QED  BY <1>1, <1>2, <1>4, <2>1, <2>2, LineMovesUp
<1>6. CASE EditDone(v)
  <2> PICK job \in Jobs : job = Job(v, "splice", gpu[1].version)
    BY <1>2, JobTypes DEF Kinds
  <2>1. job.owner = v /\ job.kind = "splice" /\ job.version = gpu[1].version
    BY DEF Job
  <2>2. gpu' = Append(Tail(gpu), job)
    BY <1>2, <1>6 DEF EditDone, Replace
  <2>3. OfViewer(v, gpu[1]) /\ gpu[1].kind # "step"
    BY <1>6, ViewerRuns, FirstRuns DEF EditDone, TypeOK
  <2>4. /\ at'[v] = "splice" /\ UNCHANGED <<pc, ready, sent, edits, version, on, engine>>
    BY <1>1, <1>6 DEF EditDone, EditedVersion, LoopTypeOK, runtimeVars, socketVars
  <2>5. OfViewer(v, job)'
    BY <1>2, <2>1, <2>3, <2>4 DEF OfViewer, CallAt
  <2>6. \A i \in 1..Len(gpu') : Fits(i, job)'
    BY <1>1, <2>1, <2>5 DEF Fits
  <2>7. LineTypeOK'
    BY <1>1, <1>2, <2>2, LineTypes DEF LineTypeOK
  <2> QED  BY <1>1, <1>2, <1>4, <2>1, <2>2, <2>6, <2>7, LineTurns
<1>7. CASE Turns(v)
  <2> PICK job \in Jobs : job = Job(v, "step", 0)
    BY JobTypes, SessionAssumption DEF Kinds, Versions
  <2>1. job.owner = v /\ job.kind = "step"
    BY DEF Job
  <2>2. gpu' = Append(Tail(gpu), job)
    BY <1>7 DEF Turns, SpliceDone, EditFails, GoOn, Replace
  <2>3. at'[v] = "play" /\ ~ready'[v] /\ pc' = pc
    BY <1>1, <1>7 DEF Turns, SpliceDone, EditFails, GoOn, StartPlaying, LoopTypeOK, socketVars
  <2>4. \A i \in 1..Len(gpu') : Fits(i, job)'
    BY <1>1, <1>2, <2>1, <2>3 DEF Fits, OfViewer, CallAt
  <2>5. LineTypeOK'
    BY <1>1, <1>2, <2>2, LineTypes DEF LineTypeOK
  <2> QED  BY <1>1, <1>2, <1>4, <2>1, <2>2, <2>4, <2>5, LineTurns
<1> QED  BY <1>5, <1>6, <1>7

\* A session that ends leaves no call of its own, and at most the call that
\* runs among those it leaves can still splice.
LEMMA EndingKeepsCalls ==
  ASSUME TypeOK, Seats, OneCallEach, Calls, OneStream, AllAsked, NEW v \in Viewers, Ends(v)
  PROVE  LineTypeOK' /\ OneCallEach' /\ Calls'
<1>1. /\ RuntimeTypeOK /\ SocketTypeOK /\ LoopTypeOK /\ gpu \in Seq(Jobs) /\ LineTypeOK
      /\ None \notin Worlds \cup Viewers /\ Worlds \cap Viewers = {}
  BY TypeParts, SessionAssumption DEF LineTypeOK
<1>2. /\ \A u \in Viewers : pc[u] = "streaming" => u = v
      /\ state[on[v]] \notin Making /\ on[v] \in Worlds
  <2>1. Seat(v)
    BY DEF Seats
  <2> QED
    BY <2>1 DEF Ends, StartFails, MayStream, StreamEnds, StreamFails, LastStepFails,
                StreamCancelled, OneStream, Seat
<1>3. /\ UNCHANGED <<version, engine>>
      /\ \A w \in Worlds : w # on[v] => state'[w] = state[w]
  <2>1. \E last : Finally(v, last)
    BY EndsAre
  <2> QED  BY <1>1, <2>1 DEF Finally, RuntimeTypeOK
<1>4. ASSUME NEW i \in 1..Len(gpu), gpu[i].owner # v
      PROVE  Keeps(i)
  <2>1. \A u \in Viewers : gpu[i].owner # u
    BY <1>2, <1>4, Owners
  <2> QED  BY <1>2, <1>3, <2>1, Owners, KeepsWhenStill DEF Making
<1>5. ASSUME gpu' = gpu, pc[v] = "streaming" => ready[v]
      PROVE  LineTypeOK' /\ OneCallEach' /\ Calls'
  <2>1. \A i \in 1..Len(gpu) : gpu[i].owner # v
    BY <1>5, Owners
  <2> QED  BY <1>1, <1>4, <1>5, <2>1, LineStays
<1>6. ASSUME gpu' = Tail(gpu), Running(v, "step")
      PROVE  LineTypeOK' /\ OneCallEach' /\ Calls'
  <2>1. gpu # <<>> /\ gpu[1].owner = v
    BY <1>6, ViewerRuns
  <2>2. ASSUME NEW i \in 2..Len(gpu) PROVE Keeps(i)
    <3>1. i \in 1..Len(gpu) /\ i # 1
      BY <1>1
    <3> QED  BY <1>1, <1>4, <2>1, <3>1, Owners
  <2>3. LineTypeOK'
    BY <1>1, <1>6, <2>1, LineTypes DEF LineTypeOK
  <2> QED  BY <1>1, <1>6, <2>1, <2>2, <2>3, LineMovesUp
<1>7. ASSUME gpu' = Disown(v), Awaited(v) => ~Waiting(v)
      PROVE  LineTypeOK' /\ OneCallEach' /\ Calls'
  <2>1. ASSUME NEW i \in 1..Len(gpu), gpu[i].owner = v, gpu[i].kind = "splice"
        PROVE  i = 1 /\ \A w \in Worlds : engine'.world = w => version'[w] <= gpu[i].version
    <3>1. OfViewer(v, gpu[i]) /\ gpu[i].version \in Versions
      <4>1. Fits(i, gpu[i]) /\ gpu[i].owner \in Viewers
        BY <2>1 DEF Calls
      <4>2. gpu[i] \in Jobs
        BY <1>1, <2>1, ElementOfSeq
      <4>3. OfViewer(v, gpu[i])
        BY <2>1, <4>1 DEF Fits
      <4>4. gpu[i].version \in Versions
        BY <4>2 DEF Jobs
      <4> QED  BY <4>3, <4>4
    <3>2. at[v] = "splice" /\ pc[v] = "streaming"
      BY <2>1, <3>1 DEF OfViewer, CallAt
    <3>3. gpu # <<>> /\ gpu[1].owner = v
      BY <1>1, <1>7, <2>1, <3>2 DEF Awaited, Waiting
    <3>4. i = 1
      BY <1>1, <2>1, <3>3 DEF OneCallEach
    <3>5. ASSUME NEW w \in Worlds, engine.world = w
          PROVE  version[w] <= gpu[i].version
      <4>1. w = on[v] \/ version[w] = 0
        BY <3>2, <3>5 DEF AllAsked, Asked
      <4>2. w = on[v] => version[w] <= gpu[i].version
        BY <2>1, <3>1, <3>5 DEF OfViewer
      <4>3. gpu[i].version \in Nat
        BY <3>1, SessionAssumption DEF Versions
      <4> QED  BY <4>1, <4>2, <4>3
    <3> QED  BY <1>3, <3>4, <3>5
  <2>2. LineTypeOK'
    BY <1>1, <1>7, LineTypes DEF LineTypeOK
  <2> QED  BY <1>1, <1>4, <1>7, <2>1, <2>2, LineIsDisowned
<1>8. ASSUME gpu' = Without(v)
      PROVE  LineTypeOK' /\ OneCallEach' /\ Calls'
  BY <1>1, <1>4, <1>8, LineIsWithout DEF LineTypeOK
<1>9. CASE StreamEnds(v) \/ StartFails(v)
  BY <1>5, <1>9 DEF StreamEnds, StartFails
<1>10. CASE StreamFails(v) \/ LastStepFails(v)
  BY <1>6, <1>7, <1>10 DEF StreamFails, LastStepFails, Awaited
<1>11. CASE StreamCancelled(v)
  BY <1>7, <1>8, <1>11 DEF StreamCancelled
<1> QED  BY <1>9, <1>10, <1>11 DEF Ends

\* Every step keeps the line of the worker what it is.
LEMMA StepKeepsCalls ==
  ASSUME TypeOK, Seats, Made, OneCallEach, Calls, OneStream, AllAsked, [Next]_vars
  PROVE  LineTypeOK' /\ OneCallEach' /\ Calls'
<1>1. /\ RuntimeTypeOK /\ gpu \in Seq(Jobs) /\ LineTypeOK
      /\ None \notin Worlds \cup Viewers
  BY TypeParts, SessionAssumption DEF LineTypeOK
<1>2. CASE UNCHANGED vars
  <2>1. \A i \in 1..Len(gpu) : Keeps(i)
    BY <1>2, KeepsWhenStill
    DEF vars, worldVars, runtimeVars, socketVars, loopVars, CallAt
  <2> QED  BY <1>1, <1>2, <2>1, LineStays DEF vars
<1>3. CASE OrphanDone
  <2>1. gpu # <<>> /\ gpu' = Tail(gpu)
    BY <1>3 DEF OrphanDone, Running
  <2>2. /\ engine'.world = engine.world /\ UNCHANGED <<version, state, edits, pc, ready, at, on, sent>>
    BY <1>1, <1>3 DEF OrphanDone, RuntimeTypeOK, worldVars, runtimeVars, socketVars, loopVars
  <2>3. ASSUME NEW i \in 2..Len(gpu) PROVE Keeps(i)
    <3>1. i \in 1..Len(gpu)
      BY <1>1
    <3> QED  BY <2>2, <3>1, KeepsWhenStill DEF CallAt
  <2>4. LineTypeOK'
    BY <1>1, <2>1, LineTypes DEF LineTypeOK
  <2> QED  BY <1>1, <2>1, <2>3, <2>4, LineMovesUp
<1>4. CASE GenerateImage
  <2> PICK job \in Jobs : job = Job(None, "generate", 0)
    BY JobTypes, SessionAssumption DEF Kinds, Versions
  <2>1. gpu' = Append(gpu, job) /\ job.owner = None /\ job.kind = "generate"
    BY <1>4 DEF GenerateImage, Submit, Job
  <2>2. UNCHANGED <<engine, version, state, edits, pc, ready, at, on, sent>>
    BY <1>4 DEF GenerateImage, worldVars, runtimeVars, socketVars, loopVars
  <2>3. \A i \in 1..Len(gpu) : Keeps(i)
    BY <2>2, KeepsWhenStill DEF CallAt
  <2>4. \A i \in 1..Len(gpu') : Fits(i, job)'
    BY <1>1, <2>1 DEF Fits, OfNobody
  <2>5. LineTypeOK'
    BY <1>1, <2>1, LineTypes DEF LineTypeOK
  <2> QED  BY <1>1, <2>1, <2>3, <2>4, <2>5, LineGrows
<1>5. CASE CloseWorld
  <2>1. world \in Worlds /\ state[world] \notin Making
    BY <1>1, <1>5 DEF CloseWorld, Made, RuntimeTypeOK
  <2>2. /\ UNCHANGED <<gpu, engine, version, edits, pc, ready, at, on, sent>>
        /\ \A w \in Worlds : w # world => state'[w] = state[w]
    BY <1>1, <1>5 DEF CloseWorld, RuntimeTypeOK, socketVars, loopVars
  <2>3. ASSUME NEW i \in 1..Len(gpu) PROVE Keeps(i)
    BY <2>1, <2>2, Owners, KeepsWhenStill DEF Making, CallAt
  <2> QED  BY <1>1, <2>2, <2>3, LineStays
<1> QED
  BY <1>2, <1>3, <1>4, <1>5, MakingKeepsCalls, QuietKeepsCalls, RequestKeepsCalls,
     AskingKeepsCalls, TurningKeepsCalls, EndingKeepsCalls
  DEF Next, SessionStep, Turns, Ends

-----------------------------------------------------------------------------
\* When a session starts or ends, no other streams.
LEMMA AloneAtTheEnds ==
  ASSUME Seats, OneStream, NEW v \in Viewers, StartStream(v) \/ Ends(v)
  PROVE  \A u \in Viewers : pc[u] = "streaming" => u = v
<1>1. Seat(v)
  BY DEF Seats
<1> QED
  BY <1>1 DEF StartStream, Ends, StreamEnds, StreamFails, StartFails, LastStepFails,
              StreamCancelled, MayStream, OneStream, Seat

\* The edits that wait stay newer than the world that is shown.
LEMMA StepKeepsAsked ==
  ASSUME TypeOK, Seats, Made, Calls, OneStream, AllAsked, [Next]_vars
  PROVE  AllAsked'
<1>1. SocketTypeOK /\ RuntimeTypeOK
  BY TypeParts
<1> DEFINE Still == /\ UNCHANGED <<edits, version, sent>> /\ engine'.world = engine.world
                    /\ \A u \in Viewers : pc'[u] = "streaming" => UNCHANGED <<pc[u], on[u]>>
<1>2. CASE Still
  BY <1>2 DEF AllAsked, Asked
<1>3. ASSUME NEW v \in Viewers, OpenSocket(v) \/ StreamRefused(v) \/ SocketCloses(v)
      PROVE  Still
  BY <1>1, <1>3 DEF OpenSocket, StreamRefused, SocketCloses, worldVars, runtimeVars, SocketTypeOK
<1>4. ASSUME NEW w \in Worlds, WorldMade(w)
      PROVE  AllAsked'
  <2>1. /\ UNCHANGED <<edits, version, sent, pc, on>> /\ engine'.world = w
        /\ state[w] \in Making /\ version[w] = 0
    BY <1>4, WorldRuns DEF WorldMade, runtimeVars, socketVars, Made, Making
  <2>2. \A u \in Viewers : pc[u] = "streaming" => on[u] # w
    BY <2>1 DEF Seats, Seat
  <2> QED  BY <2>1, <2>2 DEF AllAsked, Asked
<1>5. ASSUME NEW v \in Viewers, StartStream(v)
      PROVE  AllAsked'
  <2>1. \A u \in Viewers : pc'[u] = "streaming" => u = v
    BY <1>1, <1>5, AloneAtTheEnds DEF StartStream, SocketTypeOK
  <2>2. engine.world = on[v]
    <3>1. on[v] \in Worlds /\ world = on[v]
      BY <1>5 DEF Seats, Seat, StartStream, MayStream
    <3> QED  BY <3>1, SessionAssumption DEF Made
  <2>3. Len(edits') = 0 /\ UNCHANGED <<version, engine, on, sent>>
    BY <1>5 DEF StartStream
  <2> QED  BY <2>1, <2>2, <2>3 DEF AllAsked, Asked
<1>6. ASSUME NEW v \in Viewers, NEW n \in Versions, RequestEdit(v, n)
      PROVE  AllAsked'
  <2>1. /\ UNCHANGED <<version, engine, on, pc>> /\ pc[v] = "streaming"
        /\ sent[v] < n /\ sent'[v] = n
        /\ edits' = edits \/ (edits' = Append(edits, n) /\ Newer(n))
        /\ \A u \in Viewers : pc[u] = "streaming" => u = v
    BY <1>1, <1>6 DEF RequestEdit, worldVars, SocketTypeOK, OneStream
  <2>2. edits \in Seq(Versions) /\ n \in Nat /\ sent[v] \in Nat /\ Versions \subseteq Nat
    BY <1>1, SessionAssumption DEF RuntimeTypeOK, SocketTypeOK, Versions
  <2>3. \A k \in 1..Len(edits) : edits[k] \in Nat
    BY <2>2, ElementOfSeq
  <2>4. Newer(n) /\ engine.world = on[v] => version[on[v]] <= n
    <3>1. on[v] \in Worlds /\ version[on[v]] \in Nat
      BY <1>1, <2>1, <2>2 DEF Seats, Seat, RuntimeTypeOK
    <3>2. Newer(n) => world = engine.world /\ n > version[world]
      BY DEF Newer, Made
    <3> QED  BY <2>2, <3>1, <3>2
  <2>5. /\ \A k \in 1..Len(edits) :
             edits[k] <= sent[v] /\ (engine.world = on[v] => version[on[v]] <= edits[k])
        /\ \A w \in Worlds : engine.world = w => w = on[v] \/ version[w] = 0
    BY <2>1 DEF AllAsked, Asked
  <2>6. ASSUME NEW k \in 1..Len(edits')
        PROVE  edits'[k] <= n /\ (engine.world = on[v] => version[on[v]] <= edits'[k])
    <3>1. CASE edits' = edits
      BY <2>1, <2>2, <2>3, <2>5, <3>1
    <3>2. CASE edits' = Append(edits, n) /\ Newer(n)
      <4>1. /\ Len(edits') = Len(edits) + 1 /\ Len(edits) \in Nat /\ edits'[Len(edits) + 1] = n
            /\ \A j \in 1..Len(edits) : edits'[j] = edits[j]
        BY <2>2, <3>2, AppendProperties
      <4>2. CASE k = Len(edits) + 1
        BY <2>2, <2>4, <3>2, <4>1, <4>2
      <4>3. CASE k \in 1..Len(edits)
        BY <2>1, <2>2, <2>3, <2>5, <4>1, <4>3
      <4> QED  BY <4>1, <4>2, <4>3
    <3> QED  BY <2>1, <3>1, <3>2
  <2> QED  BY <2>1, <2>5, <2>6 DEF AllAsked, Asked
<1>7. ASSUME NEW v \in Viewers, BeginEdit(v)
      PROVE  AllAsked'
  <2>1. Len(edits') = 0 /\ UNCHANGED <<version, engine, pc, on, sent>>
    BY <1>7 DEF BeginEdit, socketVars
  <2> QED  BY <2>1 DEF AllAsked, Asked
<1>8. ASSUME NEW v \in Viewers, SpliceDone(v)
      PROVE  AllAsked'
  <2>1. OfViewer(v, gpu[1]) /\ gpu[1].kind = "splice" /\ Head(gpu) = gpu[1] /\ on[v] \in Worlds
    BY <1>8, ViewerRuns, FirstRuns DEF SpliceDone, TypeOK
  <2>2. /\ UNCHANGED <<edits, sent, pc, on>> /\ engine'.world = engine.world
        /\ version'[on[v]] = gpu[1].version
        /\ \A w \in Worlds : w # on[v] => version'[w] = version[w]
    BY <1>1, <1>8, <2>1 DEF SpliceDone, GoOn, runtimeVars, socketVars, RuntimeTypeOK
  <2>3. pc[v] = "streaming" /\ \A u \in Viewers : pc[u] = "streaming" => u = v
    BY <2>1 DEF OfViewer, OneStream
  <2>4. \A k \in 1..Len(edits) : gpu[1].version <= edits[k]
    BY <2>1 DEF OfViewer
  <2>5. /\ \A k \in 1..Len(edits) : edits[k] <= sent[v]
        /\ \A w \in Worlds : engine.world = w => w = on[v] \/ version[w] = 0
    BY <2>3 DEF AllAsked, Asked
  <2> QED  BY <2>2, <2>3, <2>4, <2>5 DEF AllAsked, Asked
<1>9. ASSUME NEW v \in Viewers, Ends(v)
      PROVE  AllAsked'
  <2>1. \E last : Finally(v, last)
    BY <1>9, EndsAre
  <2>2. \A u \in Viewers : pc'[u] # "streaming"
    BY <1>1, <1>9, <2>1, AloneAtTheEnds DEF Finally, SocketTypeOK
  <2> QED  BY <2>2 DEF AllAsked, Asked
<1>10. \/ Still
       \/ \E w \in Worlds : WorldMade(w)
       \/ \E v \in Viewers :
            \/ OpenSocket(v) \/ StreamRefused(v) \/ SocketCloses(v)
            \/ StartStream(v) \/ BeginEdit(v) \/ SpliceDone(v) \/ Ends(v)
            \/ \E n \in Versions : RequestEdit(v, n)
  <2>1. CASE OrphanDone
    BY <1>1, <2>1 DEF OrphanDone, worldVars, runtimeVars, socketVars, RuntimeTypeOK
  <2>2. \/ Still
        \/ OrphanDone
        \/ \E w \in Worlds : WorldMade(w)
        \/ \E v \in Viewers :
             \/ OpenSocket(v) \/ StreamRefused(v) \/ SocketCloses(v)
             \/ StartStream(v) \/ BeginEdit(v) \/ SpliceDone(v) \/ Ends(v)
             \/ \E n \in Versions : RequestEdit(v, n)
    BY ZenonT(30) DEF Next, vars, worldVars, runtimeVars, socketVars, loopVars, videoVars, GenerateImage,
           CloseWorld, MakingStep, CreateWorld, ImageDone, CreateFails, SessionStep, ReceiverEnds,
           Drain, StepDone, LoopHead, TakeFrames, EditDone, EditedVersion, EditFails, GoOn,
           PlayFrame, Ends
  <2> QED  BY <2>1, <2>2
<1> QED  BY <1>2, <1>3, <1>4, <1>5, <1>6, <1>7, <1>8, <1>9, <1>10

-----------------------------------------------------------------------------
\* A world is streaming or reconditioned only where a socket streams it.
LEMMA StepKeepsRest ==
  ASSUME TypeOK, Seats, Made, Calls, OneStream, WorldsAtRest, [Next]_vars
  PROVE  WorldsAtRest'
<1>1. SocketTypeOK /\ RuntimeTypeOK
  BY TypeParts
<1> DEFINE Busy == {"STREAMING", "RECONDITIONING"}
<1>2. CASE UNCHANGED <<state, pc, on>>
  BY <1>2 DEF WorldsAtRest
<1>3. ASSUME UNCHANGED <<pc, on>>, NEW o, NEW s, s \notin Busy, state' = [state EXCEPT ![o] = s]
      PROVE  WorldsAtRest'
  BY <1>1, <1>3 DEF WorldsAtRest, RuntimeTypeOK
<1>4. ASSUME NEW w \in Worlds, MakingStep(w) \/ \E first \in {"image", "reset"} : CreateWorld(w, first)
      PROVE  WorldsAtRest'
  <2>1. \E s \in {"image", "reset", "READY", "unmade"} : state' = [state EXCEPT ![w] = s]
    BY <1>4 DEF MakingStep, CreateWorld, ImageDone, WorldMade, CreateFails
  <2>2. UNCHANGED <<pc, on>>
    BY <1>4 DEF MakingStep, CreateWorld, ImageDone, WorldMade, CreateFails, socketVars
  <2> QED  BY <1>3, <2>1, <2>2
<1>5. CASE CloseWorld
  BY <1>3, <1>5 DEF CloseWorld, socketVars
<1>6. ASSUME NEW v \in Viewers, OpenSocket(v) \/ StreamRefused(v) \/ SocketCloses(v)
      PROVE  WorldsAtRest'
  <2>1. /\ UNCHANGED state /\ pc[v] # "streaming"
        /\ \A u \in Viewers : u # v => UNCHANGED <<pc[u], on[u]>>
    BY <1>1, <1>6 DEF OpenSocket, StreamRefused, SocketCloses, worldVars, SocketTypeOK
  <2> QED  BY <2>1 DEF WorldsAtRest
<1>7. ASSUME NEW v \in Viewers, StartStream(v) \/ BeginEdit(v) \/ Turns(v)
      PROVE  WorldsAtRest'
  <2>1. /\ pc'[v] = "streaming" /\ UNCHANGED on
        /\ \A u \in Viewers : pc[u] = "streaming" => pc'[u] = "streaming"
        /\ \A w \in Worlds : w # on[v] => state'[w] = state[w]
    <3>1. CASE StartStream(v)
      BY <1>1, <3>1 DEF StartStream, SocketTypeOK, RuntimeTypeOK
    <3>2. CASE BeginEdit(v)
      <4>1. pc[v] = "streaming"
        BY <3>2 DEF BeginEdit, Seats, Seat
      <4> QED  BY <1>1, <3>2, <4>1 DEF BeginEdit, socketVars, RuntimeTypeOK
    <3>3. CASE Turns(v)
      <4>1. pc[v] = "streaming"
        BY <3>3, ViewerRuns DEF Turns, SpliceDone, EditFails
      <4> QED
        BY <1>1, <3>3, <4>1 DEF Turns, SpliceDone, EditFails, GoOn, socketVars, RuntimeTypeOK
    <3> QED  BY <1>7, <3>1, <3>2, <3>3
  <2> QED  BY <2>1 DEF WorldsAtRest
<1>8. ASSUME NEW v \in Viewers, Ends(v)
      PROVE  WorldsAtRest'
  <2>1. PICK last \in States : Finally(v, last) /\ on[v] \in Worlds
    BY <1>8, EndsAre
  <2>2. /\ state'[on[v]] \notin Busy
        /\ \A w \in Worlds : w # on[v] => state'[w] = state[w]
    BY <1>1, <2>1 DEF Finally, Rest, RuntimeTypeOK
  <2>3. ASSUME NEW w \in Worlds, state[w] \in Busy
        PROVE  w = on[v]
    BY <1>8, <2>3, AloneAtTheEnds DEF WorldsAtRest
  <2> QED  BY <2>2, <2>3 DEF WorldsAtRest
<1>9. \/ UNCHANGED <<state, pc, on>>
      \/ CloseWorld
      \/ \E w \in Worlds : MakingStep(w) \/ \E first \in {"image", "reset"} : CreateWorld(w, first)
      \/ \E v \in Viewers :
           \/ OpenSocket(v) \/ StreamRefused(v) \/ SocketCloses(v)
           \/ StartStream(v) \/ BeginEdit(v) \/ Turns(v) \/ Ends(v)
  BY ZenonT(30) DEF Next, vars, worldVars, socketVars, OrphanDone, GenerateImage, SessionStep,
         ReceiverEnds, Drain, RequestEdit, StepDone, LoopHead, TakeFrames, EditDone, PlayFrame,
         Turns, Ends
<1> QED  BY <1>2, <1>4, <1>5, <1>6, <1>7, <1>8, <1>9

\* What a splice that ends shows: its own edit, for the world of its session.
LEMMA SpliceShows ==
  ASSUME TypeOK, Seats, Calls, NEW v \in Viewers, SpliceDone(v)
  PROVE  /\ pc[v] = "streaming" /\ on[v] \in Worlds /\ gpu[1].version \in Versions
         /\ engine.world = on[v] => version[on[v]] <= gpu[1].version
         /\ engine'.world = engine.world /\ engine'.version = gpu[1].version
         /\ version'[on[v]] = gpu[1].version
         /\ \A w \in Worlds : w # on[v] => version'[w] = version[w]
<1>1. RuntimeTypeOK
  BY TypeParts
<1>2. /\ OfViewer(v, gpu[1]) /\ gpu[1].kind = "splice" /\ Head(gpu) = gpu[1]
      /\ on[v] \in Worlds /\ gpu[1].version \in Versions
  BY ViewerRuns, FirstRuns DEF SpliceDone, TypeOK
<1>3. pc[v] = "streaming" /\ (engine.world = on[v] => version[on[v]] <= gpu[1].version)
  BY <1>2 DEF OfViewer
<1>4. /\ engine' = [engine EXCEPT !.version = gpu[1].version]
      /\ version' = [version EXCEPT ![on[v]] = gpu[1].version]
  BY <1>2 DEF SpliceDone
<1> QED  BY <1>1, <1>2, <1>3, <1>4 DEF RuntimeTypeOK

\* The prompt version of a world changes only when a splice ends.
LEMMA VersionSteps ==
  ASSUME TypeOK, Seats, [Next]_vars
  PROVE  \/ UNCHANGED version
         \/ \E v \in Viewers : SpliceDone(v)
<1>1. ASSUME NEW v \in Viewers, Ends(v)
      PROVE  UNCHANGED <<version, engine>>
  <2>1. \E last : Finally(v, last)
    BY <1>1, EndsAre
  <2> QED  BY <2>1 DEF Finally
<1> QED
  BY <1>1
  DEF Next, vars, worldVars, OrphanDone, GenerateImage, CloseWorld, MakingStep, CreateWorld,
      ImageDone, WorldMade, CreateFails, SessionStep, OpenSocket, StartStream, StreamRefused,
      SocketCloses, ReceiverEnds, Drain, RequestEdit, StepDone, LoopHead, TakeFrames, BeginEdit,
      EditDone, EditedVersion, EditFails, PlayFrame, Ends

\* The prompt version of a world is never ahead of the engine.
LEMMA StepKeepsShown ==
  ASSUME TypeOK, Seats, Made, Calls, AllAsked, VersionsAreShown, [Next]_vars
  PROVE  VersionsAreShown'
<1>1. RuntimeTypeOK /\ Versions \subseteq Nat
  BY TypeParts, SessionAssumption DEF Versions
<1>2. CASE UNCHANGED <<version, engine>>
  BY <1>2 DEF VersionsAreShown
<1>3. CASE OrphanDone
  <2>1. version' = version
    BY <1>3 DEF OrphanDone, worldVars
  <2>2. PICK kind \in Kinds : Running(None, kind)
    BY <1>3 DEF OrphanDone
  <2>3. gpu # <<>> /\ Head(gpu) = gpu[1] /\ 1 \in 1..Len(gpu) /\ gpu[1].owner = None
    BY <2>2, FirstRuns DEF TypeOK
  <2>4. OfNobody(1, gpu[1])
    BY <2>3 DEF Calls, Fits
  <2>5. CASE gpu[1].kind = "splice"
    <3>1. engine'.world = engine.world /\ engine'.version = gpu[1].version
      BY <1>1, <1>3, <2>3, <2>5 DEF OrphanDone, RuntimeTypeOK
    <3> QED  BY <2>1, <2>4, <2>5, <3>1 DEF OfNobody, VersionsAreShown
  <2>6. CASE gpu[1].kind # "splice"
    <3>1. engine' = engine
      BY <1>3, <2>3, <2>6 DEF OrphanDone
    <3> QED  BY <1>2, <2>1, <3>1
  <2> QED  BY <2>5, <2>6
<1>4. ASSUME NEW w \in Worlds, WorldMade(w)
      PROVE  VersionsAreShown'
  <2>1. state[w] \in Making
    BY <1>4, WorldRuns DEF WorldMade, Making
  <2>2. engine'.world = w /\ engine'.version = 0 /\ version'[w] = 0
    BY <1>4, <2>1 DEF WorldMade, Made
  <2> QED  BY <2>2 DEF VersionsAreShown
<1>5. ASSUME NEW v \in Viewers, SpliceDone(v)
      PROVE  VersionsAreShown'
  <2>1. /\ pc[v] = "streaming" /\ gpu[1].version \in Nat
        /\ engine'.world = engine.world /\ engine'.version = gpu[1].version
        /\ version'[on[v]] = gpu[1].version
        /\ \A w \in Worlds : w # on[v] => version'[w] = version[w]
    BY <1>1, <1>5, SpliceShows
  <2>2. \A w \in Worlds : engine.world = w => w = on[v] \/ version[w] = 0
    BY <2>1 DEF AllAsked, Asked
  <2> QED  BY <2>1, <2>2 DEF VersionsAreShown
<1>6. \/ UNCHANGED <<version, engine>>
      \/ OrphanDone
      \/ \E w \in Worlds : WorldMade(w)
      \/ \E v \in Viewers : SpliceDone(v)
  <2>1. ASSUME NEW v \in Viewers, Ends(v)
        PROVE  UNCHANGED <<version, engine>>
    <3>1. \E last : Finally(v, last)
      BY <2>1, EndsAre
    <3> QED  BY <3>1 DEF Finally
  <2> QED
    BY <2>1, ZenonT(30)
    DEF Next, vars, worldVars, GenerateImage, CloseWorld, MakingStep, CreateWorld,
        ImageDone, CreateFails, SessionStep, OpenSocket, StartStream, StreamRefused,
        SocketCloses, ReceiverEnds, Drain, RequestEdit, StepDone, LoopHead, TakeFrames, BeginEdit,
        EditDone, EditedVersion, EditFails, PlayFrame, Ends
<1> QED  BY <1>2, <1>3, <1>4, <1>5, <1>6

\* What is queued for a browser can be decoded.
LEMMA StepKeepsDecodable ==
  ASSUME TypeOK, Seats, Decodable, [Next]_vars
  PROVE  Decodable'
<1>1. LoopTypeOK
  BY TypeParts
<1> DEFINE Plays(q) == \A i \in 1..Len(q) : q[i] # "broken"
<1>2. ASSUME NEW v \in Viewers, NEW q, Plays(q), out' = [out EXCEPT ![v] = q]
      PROVE  Decodable'
  BY <1>1, <1>2 DEF Decodable, LoopTypeOK
<1>3. CASE out' = out
  BY <1>3 DEF Decodable
<1>4. ASSUME NEW v \in Viewers, StartStream(v)
      PROVE  Decodable'
  <2>1. Plays(<<"key">>)
    OBVIOUS
  <2> QED  BY <1>2, <1>4, <2>1 DEF StartStream
<1>5. ASSUME NEW v \in Viewers, PlayFrame(v)
      PROVE  Decodable'
  <2>1. out[v] \in Seq(Payloads) /\ Plays(out[v])
    BY <1>1 DEF LoopTypeOK, Decodable
  <2>2. Payload(v) \in Payloads /\ Payload(v) # "broken"
    BY DEF Payload, Payloads, Seats, Seat
  <2>3. Plays(Append(out[v], Payload(v)))
    <3> DEFINE q == Append(out[v], Payload(v))
    <3>1. /\ Len(out[v]) \in Nat /\ Len(q) = Len(out[v]) + 1 /\ q[Len(out[v]) + 1] = Payload(v)
          /\ \A i \in 1..Len(out[v]) : q[i] = out[v][i]
      BY <2>1, <2>2, AppendProperties
    <3> HIDE DEF q
    <3>2. Plays(q)
      BY <2>1, <2>2, <3>1
    <3> QED  BY <3>2 DEF q
  <2>4. out' = out \/ out' = [out EXCEPT ![v] = Append(out[v], Payload(v))]
    BY <1>5 DEF PlayFrame
  <2> QED  BY <1>2, <1>3, <2>3, <2>4
<1>6. ASSUME NEW v \in Viewers, Drain(v)
      PROVE  Decodable'
  <2>1. out[v] \in Seq(Payloads) /\ out[v] # <<>> /\ Plays(out[v])
    BY <1>1, <1>6 DEF LoopTypeOK, Decodable, Drain
  <2>2. Plays(Tail(out[v]))
    BY <2>1, HeadTailProperties
  <2> QED  BY <1>2, <1>6, <2>2 DEF Drain
<1>7. ASSUME NEW v \in Viewers, Ends(v)
      PROVE  Decodable'
  <2>1. \E last : Finally(v, last)
    BY <1>7, EndsAre
  <2>2. out' = [out EXCEPT ![v] = <<>>] /\ Plays(<<>>)
    BY <2>1 DEF Finally
  <2> QED  BY <1>2, <2>2
<1>8. \/ UNCHANGED out
      \/ \E v \in Viewers : StartStream(v) \/ PlayFrame(v) \/ Drain(v) \/ Ends(v)
  BY DEF Next, vars, videoVars, OrphanDone, GenerateImage, CloseWorld, MakingStep, CreateWorld,
         ImageDone, WorldMade, CreateFails, SessionStep, OpenSocket, StreamRefused, SocketCloses,
         ReceiverEnds, RequestEdit, StepDone, LoopHead, TakeFrames, BeginEdit, EditDone,
         SpliceDone, EditFails, GoOn, Ends
<1> QED  BY <1>3, <1>4, <1>5, <1>6, <1>7, <1>8

-----------------------------------------------------------------------------
\* A runtime that just started streams nothing, and its worlds are yet to be made.
LEMMA InitIsOk == Init => Inv
<1> SUFFICES ASSUME Init PROVE Inv
  OBVIOUS
<1> USE DEF Init
<1>1. Len(gpu) = 0 /\ <<>> \in Seq(Jobs) /\ <<>> \in Seq(Versions) /\ <<>> \in Seq(Payloads)
  OBVIOUS
<1>2. 0 \in Versions /\ 0 \in 0..FramesPerStep
  BY SessionAssumption DEF Versions
<1>3. TypeOK
  BY <1>1, <1>2 DEF TypeOK, Making
<1>4. Seats /\ OneStream
  BY DEF Seats, Seat, OneStream
<1>5. Made /\ AllAsked
  BY SessionAssumption DEF Made, AllAsked, Asked
<1>6. OneCallEach /\ Calls
  BY <1>1 DEF OneCallEach, Calls
<1>7. WorldsAtRest /\ VersionsAreShown
  BY SessionAssumption DEF WorldsAtRest, VersionsAreShown
<1>8. Decodable
  <2>1. \A v \in Viewers : Len(out[v]) = 0
    OBVIOUS
  <2> QED  BY <2>1 DEF Decodable
<1> QED  BY <1>3, <1>4, <1>5, <1>6, <1>7, <1>8 DEF Inv

\* Every step keeps the whole invariant.
LEMMA StepKeepsInv == Inv /\ [Next]_vars => Inv'
<1> SUFFICES ASSUME Inv, [Next]_vars PROVE Inv'
  OBVIOUS
<1> USE DEF Inv
<1>1. LineTypeOK' /\ OneCallEach' /\ Calls'
  BY StepKeepsCalls
<1>2. RuntimeTypeOK' /\ SocketTypeOK' /\ LoopTypeOK'
  BY StepKeepsRuntimeTypes, StepKeepsSocketTypes, StepKeepsLoopTypes
<1>3. TypeOK'
  BY <1>1, <1>2
  DEF TypeOK, LineTypeOK, RuntimeTypeOK, SocketTypeOK, LoopTypeOK
<1>4. Seats' /\ Made' /\ AllAsked' /\ OneStream'
  BY StepKeepsSeats, StepKeepsMade, StepKeepsAsked, StepKeepsOneStream
<1>5. WorldsAtRest' /\ VersionsAreShown' /\ Decodable'
  BY StepKeepsRest, StepKeepsShown, StepKeepsDecodable
<1> QED  BY <1>1, <1>3, <1>4, <1>5

LEMMA Invariant == Spec => []Inv
  BY InitIsOk, StepKeepsInv, PTL DEF Spec

\* The state of the runtime keeps its types.
THEOREM TypesAreKept == Spec => []TypeOK
<1>1. Inv => TypeOK
  BY DEF Inv
<1> QED  BY <1>1, Invariant, PTL

\* At most one session streams, and the busy mark of the runtime says so,
\* whatever passed the endpoint's check at the same time (Runtime.stream).
THEOREM OneSessionAtATime == Spec => []OneStream
<1>1. Inv => OneStream
  BY DEF Inv
<1> QED  BY <1>1, Invariant, PTL

\* However a session ends, no world is left as streaming or reconditioning that
\* no socket streams (the `finally` of stream).
THEOREM WorldsAreLeftAtRest == Spec => []WorldsAtRest
<1>1. Inv => WorldsAtRest
  BY DEF Inv
<1> QED  BY <1>1, Invariant, PTL

\* While an edit is made no generation step of its session is on its way, nor
\* one that finished and was not played (_loop and _apply_edit).
THEOREM EditsAreAlone == Spec => []EditsStandAlone
<1>1. ASSUME Inv, NEW v \in Viewers, at[v] \in {"edit", "splice"}
      PROVE  ~ready[v] /\ \A i \in 1..Len(gpu) : gpu[i].owner = v => gpu[i].kind # "step"
  <2>1. ~ready[v]
    BY <1>1 DEF Inv, Seats, Seat
  <2>2. ASSUME NEW i \in 1..Len(gpu), gpu[i].owner = v
        PROVE  gpu[i].kind # "step"
    <3>1. Fits(i, gpu[i]) /\ gpu[i].owner \in Viewers
      BY <1>1, <2>2 DEF Inv, Calls
    <3>2. OfViewer(v, gpu[i])
      BY <2>2, <3>1 DEF Fits
    <3> QED  BY <1>1, <3>2 DEF OfViewer, CallAt
  <2> QED  BY <2>1, <2>2
<1>2. Inv => EditsStandAlone
  BY <1>1 DEF EditsStandAlone
<1> QED  BY <1>2, Invariant, PTL

\* The prompt version that is reported for the engine's world is never ahead of
\* what the engine shows, whichever call of an edit fails (_apply_edit).
THEOREM VersionsStayShown == Spec => []VersionsAreShown
<1>1. Inv => VersionsAreShown
  BY DEF Inv
<1> QED  BY <1>1, Invariant, PTL

\* No frame is queued for the browser that depends on a dropped one (_emit).
THEOREM VideoIsDecodable == Spec => []Decodable
<1>1. Inv => Decodable
  BY DEF Inv
<1> QED  BY <1>1, Invariant, PTL

\* The prompt version of the runtime's world never goes back, over its sessions
\* too (request_edit and _apply_edit).
THEOREM VersionsNeverGoBack == Spec => VersionsGoForward
<1>1. ASSUME Inv, [Next]_vars
      PROVE  [\A w \in Worlds : world = w => version'[w] >= version[w]]_vars
  <2>1. ASSUME NEW w \in Worlds, world = w
        PROVE  version'[w] >= version[w]
    <3>1. version[w] \in Nat
      BY <1>1, SessionAssumption DEF Inv, TypeOK, Versions
    <3>2. engine.world = w
      BY <1>1, <2>1, SessionAssumption DEF Inv, Made
    <3>3. CASE UNCHANGED version
      BY <3>1, <3>3
    <3>4. ASSUME NEW v \in Viewers, SpliceDone(v)
          PROVE  version'[w] >= version[w]
      <4>1. /\ engine.world = on[v] => version[on[v]] <= gpu[1].version
            /\ gpu[1].version \in Nat /\ version'[on[v]] = gpu[1].version
            /\ w # on[v] => version'[w] = version[w]
        BY <1>1, <3>4, SpliceShows, SessionAssumption DEF Inv, Versions
      <4> QED  BY <3>1, <3>2, <4>1
    <3> QED  BY <1>1, <3>3, <3>4, VersionSteps DEF Inv
  <2> QED  BY <2>1
<1> QED  BY <1>1, Invariant, PTL DEF Spec, VersionsGoForward

=============================================================================
