---------------------------- MODULE WorldSession ----------------------------
(***************************************************************************)
(* The one world of a GPU: creating, streaming, editing and closing it     *)
(* (world-model-runtime/app/session.py, and the endpoints of app/main.py). *)
(*                                                                         *)
(* Everything runs on one asyncio loop but the GPU calls, which one worker *)
(* thread takes in order.  A coroutine runs alone between two awaits; an   *)
(* await that only sends an event is merged with the one that follows it,  *)
(* as no code runs between them.                                           *)
(***************************************************************************)
EXTENDS Naturals, Sequences, SequencesExt

CONSTANTS Worlds,         \* world ids: one per create_world
          Viewers,        \* websocket slots, reused
          FramesPerStep,  \* frames of one generation step
          QueueLength,    \* maxsize of the video queue
          MaxVersion,     \* bound of the prompt versions a client sends
          MaxJobs,        \* bound of the GPU calls waiting when one more actor comes
          None

ASSUME SessionAssumption ==
  /\ Worlds \cap Viewers = {} /\ None \notin Worlds \cup Viewers
  /\ FramesPerStep \in Nat \ {0} /\ QueueLength \in Nat \ {0}
  /\ MaxVersion \in Nat /\ MaxJobs \in Nat \ {0}

VARIABLES world,      \* self.world
          state,      \* World.state, or how far create_world has come
          version,    \* World.prompt_version
          streaming,  \* self.streaming
          stop,       \* self._stop: the event of the newest session
          edits,      \* self._edits
          engine,     \* the world the engine was reset to, the edit it shows
          gpu,        \* the worker's calls, the first of them running
          pc,         \* of a websocket: idle | accepting | streaming | closing
          on,         \* the world a websocket was opened for
          listening,  \* its receiver has not ended
          sent,       \* the last prompt version its client sent
          at,         \* where the session's loop is
          ready,      \* its generation step has finished
          frames,     \* frames of the last step still to play
          out,        \* the video queue of the session
          key,        \* encoder._force_key
          gap         \* the last frame encoded was dropped (history)

worldVars == <<world, state, version>>
runtimeVars == <<streaming, stop, edits>>
socketVars == <<pc, on, listening, sent>>
loopVars == <<at, ready, frames>>
videoVars == <<out, key, gap>>
vars == <<worldVars, runtimeVars, engine, gpu, socketVars, loopVars, videoVars>>

Versions == 0..MaxVersion
Making == {"unmade", "image", "reset"}
States == {"READY", "STREAMING", "RECONDITIONING", "FAILED", "CLOSED"}
Kinds == {"generate", "reset", "step", "edit", "splice"}
Jobs == [owner: Worlds \cup Viewers \cup {None}, kind: Kinds, version: Versions]
Payloads == {"key", "delta", "broken"}

TypeOK ==
  /\ world \in Worlds \cup {None}
  /\ state \in [Worlds -> Making \cup States]
  /\ version \in [Worlds -> Versions]
  /\ streaming \in BOOLEAN /\ stop \in BOOLEAN
  /\ edits \in Seq(Versions)
  /\ engine \in [world: Worlds \cup {None}, version: Versions]
  /\ gpu \in Seq(Jobs)
  /\ pc \in [Viewers -> {"idle", "accepting", "streaming", "closing"}]
  /\ on \in [Viewers -> Worlds \cup {None}]
  /\ listening \in [Viewers -> BOOLEAN]
  /\ sent \in [Viewers -> Versions]
  /\ at \in [Viewers -> {"off", "head", "step", "edit", "splice", "play", "last"}]
  /\ ready \in [Viewers -> BOOLEAN]
  /\ frames \in [Viewers -> 0..FramesPerStep]
  /\ out \in [Viewers -> Seq(Payloads)]
  /\ key \in [Viewers -> BOOLEAN] /\ gap \in [Viewers -> BOOLEAN]

Init ==
  /\ world = None
  /\ state = [w \in Worlds |-> "unmade"]
  /\ version = [w \in Worlds |-> 0]
  /\ streaming = FALSE /\ stop = FALSE /\ edits = <<>>
  /\ engine = [world |-> None, version |-> 0]
  /\ gpu = <<>>
  /\ pc = [v \in Viewers |-> "idle"]
  /\ on = [v \in Viewers |-> None]
  /\ listening = [v \in Viewers |-> FALSE]
  /\ sent = [v \in Viewers |-> 0]
  /\ at = [v \in Viewers |-> "off"]
  /\ ready = [v \in Viewers |-> FALSE]
  /\ frames = [v \in Viewers |-> 0]
  /\ out = [v \in Viewers |-> <<>>]
  /\ key = [v \in Viewers |-> FALSE] /\ gap = [v \in Viewers |-> FALSE]

-----------------------------------------------------------------------------
\* The single worker thread: calls wait in line, the first one is running.
Job(owner, kind, v) == [owner |-> owner, kind |-> kind, version |-> v]
Running(owner, kind) == /\ gpu # <<>>
                        /\ Head(gpu).owner = owner /\ Head(gpu).kind = kind
Submit(job) == gpu' = Append(gpu, job)
Replace(job) == gpu' = Append(Tail(gpu), job)

\* A call whose coroutine is gone runs to its end all the same.
OrphanDone ==
  /\ \E kind \in Kinds : Running(None, kind)
  /\ gpu' = Tail(gpu)
  /\ engine' = IF Head(gpu).kind = "splice"
               THEN [engine EXCEPT !.version = Head(gpu).version] ELSE engine
  /\ UNCHANGED <<worldVars, runtimeVars, socketVars, loopVars, videoVars>>

\* POST /internal/image: a picture of its own, for the API.
GenerateImage ==
  /\ ~streaming /\ Len(gpu) < MaxJobs
  /\ Submit(Job(None, "generate", 0))
  /\ UNCHANGED <<worldVars, runtimeVars, engine, socketVars, loopVars, videoVars>>

\* create_world, from a prompt or from an image, up to its first await.
CreateWorld(w, first) ==
  /\ ~streaming /\ Len(gpu) < MaxJobs
  /\ state[w] = "unmade"
  /\ state' = [state EXCEPT ![w] = first]
  /\ Submit(Job(w, IF first = "image" THEN "generate" ELSE "reset", 0))
  /\ UNCHANGED <<world, version, runtimeVars, engine, socketVars, loopVars, videoVars>>

ImageDone(w) ==
  /\ Running(w, "generate")
  /\ Replace(Job(w, "reset", 0))
  /\ state' = [state EXCEPT ![w] = "reset"]
  /\ UNCHANGED <<world, version, runtimeVars, engine, socketVars, loopVars, videoVars>>

\* Its end: the engine has forgotten the previous world, and so does the runtime.
WorldMade(w) ==
  /\ Running(w, "reset")
  /\ gpu' = Tail(gpu)
  /\ engine' = [world |-> w, version |-> 0]
  /\ world' = w
  /\ state' = [state EXCEPT ![w] = "READY"]
  /\ UNCHANGED <<version, runtimeVars, socketVars, loopVars, videoVars>>

CreateFails(w) ==
  /\ Running(w, "generate") \/ Running(w, "reset")
  /\ gpu' = Tail(gpu)
  /\ state' = [state EXCEPT ![w] = "unmade"]
  /\ UNCHANGED <<world, version, runtimeVars, engine, socketVars, loopVars, videoVars>>

CloseWorld ==
  /\ world # None
  /\ stop' = TRUE
  /\ state' = [state EXCEPT ![world] = "CLOSED"]
  /\ world' = None
  /\ UNCHANGED <<version, streaming, edits, engine, gpu, socketVars, loopVars, videoVars>>

-----------------------------------------------------------------------------
\* The websocket endpoint up to `await ws.accept()`.
OpenSocket(v) ==
  /\ pc[v] = "idle" /\ world # None /\ ~streaming /\ Len(gpu) < MaxJobs
  /\ pc' = [pc EXCEPT ![v] = "accepting"]
  /\ on' = [on EXCEPT ![v] = world]
  /\ UNCHANGED <<worldVars, runtimeVars, engine, gpu, listening, sent, loopVars, videoVars>>

\* Mutant of MayStream: the endpoint's own check is taken to be enough.
MayStreamUnchecked(v) == world = on[v]
\* The checks of Runtime.stream itself.
MayStream(v) == world = on[v] /\ ~streaming

\* stream up to its loop: a new stop event, a new queue of edits, the image of
\* the world as the first frame, and the first generation step.
StartStream(v) ==
  /\ pc[v] = "accepting" /\ MayStream(v)
  /\ pc' = [pc EXCEPT ![v] = "streaming"]
  /\ listening' = [listening EXCEPT ![v] = TRUE]
  /\ streaming' = TRUE /\ stop' = FALSE /\ edits' = <<>>
  /\ state' = [state EXCEPT ![on[v]] = "STREAMING"]
  /\ out' = [out EXCEPT ![v] = <<"key">>]
  /\ at' = [at EXCEPT ![v] = "head"]
  /\ Submit(Job(v, "step", 0))
  /\ UNCHANGED <<world, version, engine, on, sent, ready, frames, key, gap>>

\* NotFound or Busy: stream raises before its receiver has run at all.
StreamRefused(v) ==
  /\ pc[v] = "accepting" /\ ~MayStream(v)
  /\ pc' = [pc EXCEPT ![v] = "idle"]
  /\ on' = [on EXCEPT ![v] = None]
  /\ UNCHANGED <<worldVars, runtimeVars, engine, gpu, listening, sent, loopVars, videoVars>>

\* Mutant of Newer: any version is taken.
NewerOrNot(v) == world # None
\* request_edit compares with the world of the runtime.
Newer(v) == world # None /\ v > version[world]

\* The receiver takes an edit.  That a client numbers its edits upwards is an
\* assumption on it: request_edit compares with what was applied last, and would
\* queue an older edit behind a newer one that is still on its way.
RequestEdit(s, v) ==
  /\ pc[s] = "streaming" /\ listening[s] /\ v > sent[s]
  /\ sent' = [sent EXCEPT ![s] = v]
  /\ edits' = IF Newer(v) THEN Append(edits, v) ELSE edits
  /\ UNCHANGED <<worldVars, streaming, stop, engine, gpu, pc, on, listening, loopVars, videoVars>>

\* The receiver ends, by a stop message, a disconnect or a bad one.
ReceiverEnds(v) ==
  /\ pc[v] = "streaming" /\ listening[v]
  /\ listening' = [listening EXCEPT ![v] = FALSE]
  /\ stop' = TRUE
  /\ UNCHANGED <<worldVars, streaming, edits, engine, gpu, pc, on, sent, loopVars, videoVars>>

\* After the stream, the endpoint cancels the receiver, whose end stops whatever
\* session is there by then.
SocketCloses(v) ==
  /\ pc[v] = "closing"
  /\ pc' = [pc EXCEPT ![v] = "idle"]
  /\ listening' = [listening EXCEPT ![v] = FALSE]
  /\ stop' = (stop \/ listening[v])
  /\ UNCHANGED <<worldVars, streaming, edits, engine, gpu, on, sent, loopVars, videoVars>>

-----------------------------------------------------------------------------
\* _loop: the head of the loop, then the frames of the awaited step, which an
\* edit may hold back, then the next step is submitted and the frames played.
StepDone(v) ==
  /\ Running(v, "step")
  /\ gpu' = Tail(gpu)
  /\ ready' = [ready EXCEPT ![v] = TRUE]
  /\ UNCHANGED <<worldVars, runtimeVars, engine, socketVars, at, frames, videoVars>>

\* Mutant of LoopHead: the stop is not seen between two steps.
LoopHeadDeaf(v) ==
  /\ at[v] = "head"
  /\ at' = [at EXCEPT ![v] = "step"]
  /\ UNCHANGED <<worldVars, runtimeVars, engine, gpu, socketVars, ready, frames, videoVars>>
LoopHead(v) ==
  /\ at[v] = "head"
  /\ at' = [at EXCEPT ![v] = IF stop THEN "last" ELSE "step"]
  /\ UNCHANGED <<worldVars, runtimeVars, engine, gpu, socketVars, ready, frames, videoVars>>

StartPlaying(v) ==
  /\ at' = [at EXCEPT ![v] = "play"]
  /\ frames' = [frames EXCEPT ![v] = FramesPerStep]
  /\ ready' = [ready EXCEPT ![v] = FALSE]

TakeFrames(v) ==
  /\ at[v] = "step" /\ ready[v] /\ edits = <<>>
  /\ Submit(Job(v, "step", 0))
  /\ StartPlaying(v)
  /\ UNCHANGED <<worldVars, runtimeVars, engine, socketVars, videoVars>>

\* Mutant of EditJobs: the next step is already on its way.
EditJobsAfterStep(v) == gpu \o <<Job(v, "step", 0), Job(v, "edit", Last(edits))>>
EditJobs(v) == Append(gpu, Job(v, "edit", Last(edits)))

\* _apply_edit: the newest request on the newest frame, the others are dropped.
BeginEdit(v) ==
  /\ at[v] = "step" /\ ready[v] /\ edits # <<>>
  /\ at' = [at EXCEPT ![v] = "edit"]
  /\ ready' = [ready EXCEPT ![v] = FALSE]
  /\ edits' = <<>>
  /\ state' = [state EXCEPT ![on[v]] = "RECONDITIONING"]
  /\ gpu' = EditJobs(v)
  /\ UNCHANGED <<world, version, streaming, stop, engine, socketVars, frames, videoVars>>

\* Mutant of EditedVersion: the version counts from the edited image on.
VersionAtEdit(v) == [version EXCEPT ![on[v]] = Head(gpu).version]
EditedVersion(v) == version

EditDone(v) ==
  /\ Running(v, "edit")
  /\ at' = [at EXCEPT ![v] = "splice"]
  /\ Replace(Job(v, "splice", Head(gpu).version))
  /\ version' = EditedVersion(v)
  /\ UNCHANGED <<world, state, runtimeVars, engine, socketVars, ready, frames, videoVars>>

\* The edit is over, applied or failed: the world streams on.
GoOn(v) ==
  /\ state' = [state EXCEPT ![on[v]] = "STREAMING"]
  /\ Replace(Job(v, "step", 0))
  /\ StartPlaying(v)
  /\ UNCHANGED <<world, runtimeVars, socketVars, out, gap>>

SpliceDone(v) ==
  /\ Running(v, "splice")
  /\ engine' = [engine EXCEPT !.version = Head(gpu).version]
  /\ version' = [version EXCEPT ![on[v]] = Head(gpu).version]
  /\ key' = [key EXCEPT ![v] = TRUE]
  /\ GoOn(v)

EditFails(v) ==
  /\ Running(v, "edit") \/ Running(v, "splice")
  /\ GoOn(v)
  /\ UNCHANGED <<version, engine, key>>

\* Mutant of KeyAfter: a dropped frame does not restart the video.
KeyAfterNothing(dropped) == FALSE
KeyAfter(dropped) == dropped

\* _emit of the next frame: encoded, then queued or dropped.
Payload(v) == IF key[v] THEN "key" ELSE IF gap[v] THEN "broken" ELSE "delta"
PlayFrame(v) ==
  /\ at[v] = "play"
  /\ LET full == Len(out[v]) >= QueueLength IN
       /\ out' = IF full THEN out ELSE [out EXCEPT ![v] = Append(@, Payload(v))]
       /\ key' = [key EXCEPT ![v] = KeyAfter(full)]
       /\ gap' = [gap EXCEPT ![v] = full]
  /\ frames' = [frames EXCEPT ![v] = IF stop THEN 0 ELSE @ - 1]
  /\ at' = [at EXCEPT ![v] = IF stop \/ frames[v] = 1 THEN "head" ELSE "play"]
  /\ UNCHANGED <<worldVars, runtimeVars, engine, gpu, socketVars, ready>>

\* _drain: the browser takes a message, or is gone and the session stops.
Drain(v) ==
  /\ out[v] # <<>>
  /\ out' = [out EXCEPT ![v] = Tail(@)]
  /\ stop' \in {stop, TRUE}
  /\ UNCHANGED <<worldVars, streaming, edits, engine, gpu, socketVars, loopVars, key, gap>>

-----------------------------------------------------------------------------
\* The `finally` of stream, which never awaits; the edits left over are never
\* read again.
\* Mutant of Rest: only an orderly end puts the world to rest.
RestAfterStop(s) == IF stop /\ s \notin {"FAILED", "CLOSED"} THEN "READY" ELSE s
Rest(s) == IF s \in {"FAILED", "CLOSED"} THEN s ELSE "READY"

Finally(v, last) ==
  /\ stop' = TRUE /\ streaming' = FALSE /\ edits' = <<>>
  /\ state' = [state EXCEPT ![on[v]] = Rest(last)]
  /\ pc' = [pc EXCEPT ![v] = "closing"]
  /\ on' = [on EXCEPT ![v] = None]
  /\ sent' = [sent EXCEPT ![v] = 0]
  /\ at' = [at EXCEPT ![v] = "off"]
  /\ ready' = [ready EXCEPT ![v] = FALSE]
  /\ frames' = [frames EXCEPT ![v] = 0]
  /\ out' = [out EXCEPT ![v] = <<>>]
  /\ key' = [key EXCEPT ![v] = FALSE] /\ gap' = [gap EXCEPT ![v] = FALSE]
  /\ UNCHANGED <<world, version, engine>>

\* The calls of a session that is gone: one that runs, or that nobody awaited
\* yet, stays; one that is awaited and has not started is cancelled.
Disown(v) == [i \in 1..Len(gpu) |-> IF gpu[i].owner = v
                                    THEN [gpu[i] EXCEPT !.owner = None] ELSE gpu[i]]
Awaited(v) == at[v] \in {"step", "edit", "splice", "last"}
Waiting(v) == gpu # <<>> /\ Head(gpu).owner # v
Without(v) == RemoveFirstMatch(gpu, LAMBDA job : job.owner = v)

StreamEnds(v) ==
  /\ at[v] = "last" /\ ready[v]
  /\ Finally(v, state[on[v]])
  /\ UNCHANGED <<gpu, listening>>

\* A generation step raises where it is awaited, or the encoder does.
StreamFails(v) ==
  /\ \/ at[v] = "step" /\ Running(v, "step") /\ gpu' = Tail(gpu)
     \/ at[v] = "play" /\ gpu' = Disown(v)
  /\ Finally(v, "FAILED")
  /\ UNCHANGED listening

\* No encoder opens, or it fails on the first frame.
StartFails(v) ==
  /\ pc[v] = "accepting" /\ MayStream(v)
  /\ Finally(v, "FAILED")
  /\ listening' = [listening EXCEPT ![v] = TRUE]
  /\ UNCHANGED gpu

\* The last step is gathered with its exception.
LastStepFails(v) ==
  /\ at[v] = "last" /\ Running(v, "step")
  /\ gpu' = Tail(gpu)
  /\ Finally(v, state[on[v]])
  /\ UNCHANGED listening

\* The server cancels the endpoint at its await, when the browser went away.
StreamCancelled(v) ==
  /\ pc[v] = "streaming"
  /\ gpu' = IF Awaited(v) /\ Waiting(v) THEN Without(v) ELSE Disown(v)
  /\ Finally(v, state[on[v]])
  /\ UNCHANGED listening

SessionStep(v) ==
  \/ StepDone(v) \/ LoopHead(v) \/ TakeFrames(v) \/ BeginEdit(v) \/ EditDone(v)
  \/ SpliceDone(v) \/ EditFails(v) \/ PlayFrame(v) \/ StreamEnds(v)
  \/ StreamFails(v) \/ LastStepFails(v)

MakingStep(w) == ImageDone(w) \/ WorldMade(w) \/ CreateFails(w)

Next ==
  \/ OrphanDone \/ GenerateImage \/ CloseWorld
  \/ \E w \in Worlds : MakingStep(w) \/ \E first \in {"image", "reset"} : CreateWorld(w, first)
  \/ \E v \in Viewers :
       \/ OpenSocket(v) \/ StartStream(v) \/ StartFails(v) \/ StreamRefused(v) \/ SocketCloses(v)
       \/ ReceiverEnds(v) \/ Drain(v) \/ StreamCancelled(v) \/ SessionStep(v)
       \/ \E n \in Versions : RequestEdit(v, n)

Spec == Init /\ [][Next]_vars

\* The worker runs its calls and the loop its ready coroutines.
Fairness == /\ WF_vars(OrphanDone)
            /\ \A w \in Worlds : WF_vars(MakingStep(w))
            /\ \A v \in Viewers : WF_vars(SessionStep(v))
FairSpec == Spec /\ Fairness

-----------------------------------------------------------------------------
\* At most one session streams, and the busy mark says so: two sockets may pass
\* the endpoint's check before either of them starts (Runtime.stream).
OneStream ==
  /\ \A u, v \in Viewers : pc[u] = "streaming" /\ pc[v] = "streaming" => u = v
  /\ streaming <=> \E v \in Viewers : pc[v] = "streaming"

\* However a session ends, its world is left at rest: nothing that no socket
\* streams is reported as streaming or reconditioning (the `finally` of stream).
WorldsAtRest ==
  \A w \in Worlds : state[w] \in {"STREAMING", "RECONDITIONING"} =>
    \E v \in Viewers : pc[v] = "streaming" /\ on[v] = w

\* An edit is made on the newest frame, with no generation step of the session
\* on its way (_loop and _apply_edit).
EditsStandAlone ==
  \A v \in Viewers : at[v] \in {"edit", "splice"} =>
    ~ready[v] /\ \A i \in 1..Len(gpu) : gpu[i].owner = v => gpu[i].kind # "step"

\* The prompt version that is reported is never ahead of what the engine shows,
\* whichever call of an edit fails or is cancelled (_apply_edit).
VersionsAreShown == \A w \in Worlds : engine.world = w => version[w] <= engine.version

\* The prompt version of the runtime's world never goes back, over sessions too,
\* for clients that number their edits upwards (request_edit and _apply_edit).
VersionsGoForward ==
  [][\A w \in Worlds : world = w => version'[w] >= version[w]]_vars

\* What is queued for the browser can be decoded: a frame that depends on the
\* one before it is never queued after that one was dropped (_emit).
Decodable == \A v \in Viewers : \A i \in 1..Len(out[v]) : out[v][i] # "broken"

\* A session that is stopped lets go of the GPU, whatever it was waiting for.
StoppedStreamsEnd ==
  \A v \in Viewers : pc[v] = "streaming" /\ stop ~> pc[v] # "streaming"

=============================================================================
