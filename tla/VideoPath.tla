---- MODULE VideoPath ----
(***************************************************************************)
(* One viewer on the shared video track: the host's publisher              *)
(* (VideoPublisher), the MoQ network, the Portal's receiver                *)
(* (media/moq_receiver.rs), its delivery task (media/video_delivery.rs)    *)
(* with the bounded channel to the web view (media/frame_channel.rs), and  *)
(* the page that feeds the decoder (portal/stream-runtime.mjs,             *)
(* video-pipeline.mjs, decoder-recovery.mjs, video-format-transition.mjs). *)
(*                                                                         *)
(* The network hands over any group newer than those it handed over, and   *)
(* of a group any prefix of its objects; a read may time out at any time   *)
(* and fail at any time.  The viewer may reconnect: everything the Portal  *)
(* holds starts again under a new media generation, while acknowledgements *)
(* sent for the old one are still on their way.                            *)
(***************************************************************************)
EXTENDS VideoPublisher

CONSTANTS
  FrameCapacity \* CLIENT_FRAME_CHANNEL_CAPACITY

ASSUME PathBounds == FrameCapacity \in Nat \ {0}

VARIABLES
  generation, \* the Portal's media generation
  rx,         \* MoqMediaReceiver; [group |-> 0] when no group is current
  task,       \* run_video_delivery: running, or why it ended
  delivery,   \* [prev, waiting, inFlight]: its locals and the slot counter
  channel,    \* frames sent to the web view and not handled yet
  acks,       \* by generation: acknowledgements on their way to the Portal
  page,       \* the page's frame session and recovery state
  decoder     \* the WebCodecs decoder: [format, last], or NoDecoder

portalVars == <<generation, rx, task, delivery, channel, acks, page, decoder>>
vars == <<hostVars, portalVars>>

NewReceiver ==
  [ group |-> 0, pos |-> 0, gap |-> FALSE, replacement |-> FALSE,
    recovery |-> "none", lastGroup |-> 0, last |-> 0, waiting |-> TRUE ]
NewDelivery == [prev |-> 0, waiting |-> TRUE, inFlight |-> 0]
\* The session is inactive until the connect command returns its generation;
\* staged counts the acknowledgements kept until then.
NewPage ==
  [ active |-> FALSE, staged |-> 0, format |-> 0, last |-> 0,
    recovering |-> TRUE, issued |-> FALSE, failed |-> FALSE ]
NoDecoder == [format |-> 0, last |-> 0]

Init ==
  /\ HostInit
  /\ generation = 1 /\ rx = NewReceiver /\ task = "running"
  /\ delivery = NewDelivery /\ channel = <<>>
  /\ acks = [g \in 1..(MaxTroubles + 1) |-> 0]
  /\ page = NewPage /\ decoder = NoDecoder

----------------------------------------------------------------------------
\* The receiver.

\* The group is given up: the next frame is a discontinuity.
LeaveGroup(r) ==
  [r EXCEPT !.group = 0, !.pos = 0, !.gap = FALSE, !.replacement = FALSE,
            !.lastGroup = r.group, !.waiting = TRUE]

\* What the delivery task does with Dropped: the page needs a keyframe.
\* Under control v2 it has no channel to ask for one itself.
NoteDropped == delivery' = [delivery EXCEPT !.waiting = TRUE]

RxUnchanged == UNCHANGED <<hostVars, generation, channel, acks, page, decoder>>

\* next_group: the first group, or the one that replaces a group given up.
NextGroup(id) ==
  /\ task = "running" /\ rx.group = 0
  /\ rx' = [rx EXCEPT
       !.group = id, !.pos = 0, !.recovery = "none",
       !.replacement = rx.recovery # "none",
       !.gap = rx.lastGroup # 0 /\ rx.lastGroup + 1 # id,
       !.waiting = @ \/ (rx.lastGroup # 0 /\ rx.lastGroup + 1 # id)]
  /\ UNCHANGED <<task, delivery>> /\ RxUnchanged

\* CLIENT_MOQ_GROUP_RECOVERY_TIMEOUT: no group came after one that failed.
\* After an expected cancellation this ends the task, else it is a drop.
RecoveryTimeout ==
  /\ task = "running" /\ rx.group = 0 /\ rx.recovery # "none"
  /\ rx' = [rx EXCEPT !.recovery = "none"]
  /\ IF rx.recovery = "supersession"
     THEN task' = "timed out" /\ UNCHANGED delivery
     ELSE NoteDropped /\ UNCHANGED task
  /\ RxUnchanged

\* read_frame fails: the group was cancelled by its successor or by a
\* recovery request, or it was lost on the way.
ReadFails(recovery) ==
  /\ task = "running" /\ rx.group # 0
  /\ recovery = "supersession" => ~groups[rx.group].open
  /\ rx' = [LeaveGroup(rx) EXCEPT !.recovery = recovery]
  /\ UNCHANGED <<task, delivery>> /\ RxUnchanged

\* read_frame times out.
ReadTimeout ==
  /\ task = "running" /\ rx.group # 0
  /\ rx' = LeaveGroup(rx)
  /\ NoteDropped
  /\ UNCHANGED task /\ RxUnchanged

\* Mutant: a full channel drops the frame and goes on with the next.
DeliverAfterFull(frame) ==
  IF frame.seq <= delivery.prev
  THEN task' = "malformed" /\ UNCHANGED <<delivery, channel>>
  ELSE /\ UNCHANGED task
       /\ IF (delivery.waiting /\ frame.kind = "delta") \/ delivery.inFlight = FrameCapacity
          THEN /\ delivery' = [delivery EXCEPT !.prev = frame.seq]
               /\ UNCHANGED channel
          ELSE /\ delivery' = [ prev |-> frame.seq, waiting |-> FALSE,
                                inFlight |-> delivery.inFlight + 1 ]
               /\ channel' = Append(channel, frame)

\* run_video_delivery, from a frame of the receiver to the channel.  A frame
\* no newer than the last one ends the task; one the page cannot use yet, or
\* for which it has no slot, is dropped.
Deliver(frame) ==
  IF frame.seq <= delivery.prev
  THEN task' = "malformed" /\ UNCHANGED <<delivery, channel>>
  ELSE /\ UNCHANGED task
       /\ IF (delivery.waiting /\ frame.kind = "delta") \/ delivery.inFlight = FrameCapacity
          THEN /\ delivery' = [delivery EXCEPT !.prev = frame.seq, !.waiting = TRUE]
               /\ UNCHANGED channel
          ELSE /\ delivery' = [ prev |-> frame.seq, waiting |-> FALSE,
                                inFlight |-> delivery.inFlight + 1 ]
               /\ channel' = Append(channel, frame)

\* read_frame returns the next object of the group: it is checked against its
\* place, marked, and delivered.
ReadObject ==
  /\ task = "running" /\ rx.group # 0
  /\ rx.pos < Len(groups[rx.group].objects)
  /\ LET frame == groups[rx.group].objects[rx.pos + 1]
         first == rx.pos = 0
         contiguous == rx.last = 0 \/ rx.last + 1 = frame.seq
         refused == IF first THEN frame.kind # "idr" ELSE ~contiguous
         marked == [frame EXCEPT !.disc =
                      @ \/ rx.waiting \/ (first /\ (rx.gap \/ ~contiguous))]
     IN IF refused
        THEN IF first /\ ~rx.replacement
             THEN task' = "malformed" /\ UNCHANGED <<rx, delivery, channel>>
             ELSE rx' = LeaveGroup(rx) /\ NoteDropped /\ UNCHANGED <<task, channel>>
        ELSE /\ rx' = [rx EXCEPT !.pos = @ + 1, !.last = frame.seq, !.waiting = FALSE]
             /\ Deliver(marked)
  /\ UNCHANGED <<hostVars, generation, acks, page, decoder>>

ReceiverStep ==
  \/ \E id \in 1..Len(groups) : id > rx.lastGroup /\ NextGroup(id)
  \/ RecoveryTimeout
  \/ \E recovery \in {"supersession", "gap"} : ReadFails(recovery)
  \/ ReadTimeout \/ ReadObject

----------------------------------------------------------------------------
\* The page.  s = [page, decoder, asks] is its state in the middle of a frame.

\* DecoderRecoveryState::enter with the teardown of the decoder: one keyframe
\* request for each episode.
EnterRecovery(s, ask) ==
  LET issued == s.page.recovering /\ s.page.issued
  IN [ page |-> [s.page EXCEPT !.recovering = TRUE, !.issued = issued \/ ask],
       decoder |-> NoDecoder,
       asks |-> s.asks \/ (ask /\ ~issued) ]

\* initWebCodecsDecoder, enqueueVideoChunk and commitVideoFrame.
Decode(s, frame, reconfigure, fault) ==
  LET key == frame.kind = "idr"
      ready == IF key /\ reconfigure
               THEN [ page |-> s.page, asks |-> s.asks,
                      decoder |-> [format |-> frame.format, last |-> 0] ]
               ELSE s
      fails == fault = "enqueue" \/ (fault = "configure" /\ key /\ reconfigure)
  IN IF fails THEN EnterRecovery(ready, TRUE)
     ELSE IF ready.decoder = NoDecoder THEN ready
     ELSE [ page |-> [ready.page EXCEPT
              !.last = frame.seq, !.format = frame.format,
              !.recovering = s.page.recovering /\ ~key,
              !.issued = s.page.issued /\ ~(key /\ s.page.recovering)],
            asks |-> ready.asks,
            decoder |-> [format |-> ready.decoder.format, last |-> frame.seq] ]

\* processFramePayload: the backlog check, the plan of the format transition,
\* the recovery gate, and the decoder.
ProcessFrame(s0, frame, fault) ==
  LET key == frame.kind = "idr"
      s == IF fault = "backlog" /\ s0.decoder # NoDecoder
           THEN EnterRecovery(s0, TRUE) ELSE s0
      reconfigure == \/ s.page.format # frame.format
                     \/ frame.disc \/ s.decoder = NoDecoder
      planned == IF reconfigure THEN EnterRecovery(s, FALSE) ELSE s
  IN IF frame.seq <= s.page.last THEN s
     ELSE IF ~key /\ (reconfigure \/ s.page.recovering) THEN EnterRecovery(s, TRUE)
     ELSE Decode(planned, frame, reconfigure, fault)

\* requestKeyframe: nothing is sent before the session is active; then the
\* request crosses the Portal's control channel and the host's control task.
PageAsks(asks) ==
  IF asks /\ page.active THEN PutRequest("recovery") ELSE UNCHANGED request

PageUnchanged ==
  UNCHANGED <<encoder, gop, forcedIdr, pub, groups, generation, rx, task>>

\* handleBinaryFrame: the acknowledgement goes out, or is staged, before the
\* frame is processed.
HandleFrame(fault) ==
  /\ channel # <<>>
  /\ IF fault = "none" THEN UNCHANGED troubles ELSE Trouble
  /\ channel' = Tail(channel)
  /\ IF ~page.active /\ page.staged = FrameCapacity
     THEN /\ page' = [page EXCEPT !.failed = TRUE]
          /\ UNCHANGED <<decoder, acks, request>>
     ELSE LET end == ProcessFrame([page |-> page, decoder |-> decoder, asks |-> FALSE],
                                  Head(channel), fault)
          IN /\ page' = IF page.active THEN end.page
                        ELSE [end.page EXCEPT !.staged = page.staged + 1]
             /\ acks' = IF page.active THEN [acks EXCEPT ![generation] = @ + 1] ELSE acks
             /\ decoder' = end.decoder
             /\ PageAsks(end.asks)
  /\ UNCHANGED delivery /\ PageUnchanged

\* The decoder reports an error on a chunk it had accepted.
DecoderError ==
  /\ decoder # NoDecoder /\ Trouble
  /\ LET end == EnterRecovery([page |-> page, decoder |-> decoder, asks |-> FALSE], TRUE)
     IN page' = end.page /\ decoder' = end.decoder /\ PageAsks(end.asks)
  /\ UNCHANGED <<delivery, channel, acks>> /\ PageUnchanged

\* activateFrameSession: connect has returned, and the staged acknowledgements
\* are sent for its generation.
Activate ==
  /\ ~page.active
  /\ page' = [page EXCEPT !.active = TRUE, !.staged = 0]
  /\ acks' = [acks EXCEPT ![generation] = @ + page.staged]
  /\ UNCHANGED <<delivery, channel, decoder, request, troubles>> /\ PageUnchanged

\* Mutant: an acknowledgement releases a slot of whatever generation is current.
AckArrivesAnyway(g) ==
  /\ acks[g] > 0
  /\ acks' = [acks EXCEPT ![g] = @ - 1]
  /\ delivery' = IF delivery.inFlight > 0
                 THEN [delivery EXCEPT !.inFlight = @ - 1] ELSE delivery
  /\ UNCHANGED <<channel, page, decoder, request, troubles>> /\ PageUnchanged

\* acknowledge_frame_delivery: a slot is released for the current generation.
AckArrives(g) ==
  /\ acks[g] > 0
  /\ acks' = [acks EXCEPT ![g] = @ - 1]
  /\ delivery' = IF g = generation /\ delivery.inFlight > 0
                 THEN [delivery EXCEPT !.inFlight = @ - 1] ELSE delivery
  /\ UNCHANGED <<channel, page, decoder, request, troubles>> /\ PageUnchanged

\* The user disconnects, or the task ended, and the viewer connects again.
Reconnect ==
  /\ Trouble
  /\ generation' = generation + 1
  /\ rx' = NewReceiver /\ task' = "running" /\ delivery' = NewDelivery
  /\ channel' = <<>> /\ page' = NewPage /\ decoder' = NoDecoder
  /\ UNCHANGED <<encoder, gop, request, forcedIdr, pub, groups, acks>>

Next ==
  \/ HostNext /\ UNCHANGED portalVars
  \/ ReceiverStep
  \/ \E fault \in {"none", "backlog", "configure", "enqueue"} : HandleFrame(fault)
  \/ DecoderError \/ Activate \/ Reconnect
  \/ \E g \in DOMAIN acks : AckArrives(g)

Spec == Init /\ [][Next]_vars

----------------------------------------------------------------------------
\* What the path promises.

\* Whatever the network loses, delays or cancels, what an honest host
\* publishes is never taken for a malformed stream by the order of its objects.
\* Of the other ends of the Portal's delivery task the model has one, that no
\* successor of a cancelled group comes in time; byte bounds, empty groups and
\* errors of the transport are left out.
PortalAccepts == task # "malformed"

\* The slot counter of the frame channel counts exactly the frames that have
\* a slot: those in the channel and those whose acknowledgement is staged or
\* on its way for this generation.  No reconnect and no late acknowledgement
\* of an earlier generation leaks a slot or frees one that is in use, and the
\* page never has more to stage than it has room for.
SlotsExact ==
  /\ delivery.inFlight = Len(channel) + page.staged + acks[generation]
  /\ delivery.inFlight <= FrameCapacity /\ ~page.failed

\* A delta reaches the decoder only right behind the frame the same decoder
\* took before, at the format it was configured for: whatever is dropped by
\* the network, the receiver, the full channel or the page, and whenever the
\* decoder fails, it is never fed a delta whose reference it has not seen.
DecoderChain ==
  [][ decoder' # decoder /\ decoder'.last # 0 =>
        \E frame \in {Head(channel)} :
          /\ decoder' = [format |-> frame.format, last |-> frame.seq]
          /\ frame.kind # "idr" =>
               decoder.format = frame.format /\ decoder.last + 1 = frame.seq ]_vars
====
