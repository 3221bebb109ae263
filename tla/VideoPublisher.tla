---- MODULE VideoPublisher ----
(***************************************************************************)
(* The shared video publisher of one media generation                      *)
(* (server/moq.rs, run_generation_video_publisher): the encoder fills a    *)
(* watch with the current group of pictures (source/mod.rs), the publisher *)
(* task copies what is new of it to MoQ groups, and keyframe requests of   *)
(* the viewers make it resynchronise and, through the forced-IDR           *)
(* coordinator (server/session.rs), ask the encoder for an IDR.            *)
(*                                                                         *)
(* Two cursors follow the same frames: replay (server/mod.rs), which says  *)
(* what of the GOP has been dealt with, and cursor (server/media_v3.rs),   *)
(* which says where in its group the publisher is.  The tasks run one at a *)
(* time between awaits; the watches keep only the newest value.            *)
(*                                                                         *)
(* Abstracted: payloads, ages and sizes.  Any frame may turn out stale or  *)
(* too large for its group; a group is named by its place in groups and a  *)
(* frame by 1 + its sequence, so that 0 is None.                           *)
(***************************************************************************)
EXTENDS Naturals, Sequences, FiniteSets

CONSTANTS
  MaxFrames,    \* bound: access units the encoder produces
  MaxGop,       \* max_gop_frames of the source
  MaxTroubles,  \* bound: resolution changes, requests of other viewers,
                \* and whatever disturbs the viewer of VideoPath
  Kinds,        \* what a frame may be, of FrameKinds
  CutReasons    \* why a frame may be given up, of Reasons

ASSUME PublisherBounds ==
  MaxFrames \in Nat /\ MaxGop \in Nat \ {0} /\ MaxTroubles \in Nat

\* An IDR with its SPS and PPS, a delta, or an access unit with only one of
\* the two (keyframe # codec_config).
FrameKinds == {"idr", "delta", "odd"}

\* The publisher gives up on a frame that is stale, one with which the group
\* cursor finds the group too large, or one whose authenticated object does.
Reasons == {"stale", "group", "object"}

ASSUME PublisherChoices == Kinds \subseteq FrameKinds /\ CutReasons \subseteq Reasons

VARIABLES
  encoder,    \* [next, format, resizing]: AccessUnitPublisher and the pipeline
  gop,        \* [frames, changed]: the watch of Option<EncodedGop>
  request,    \* [reason, changed]: the watch of keyframe requests
  forcedIdr,  \* the pending forced IDR: its coordinator and the encoder's side
  pub,        \* what the publisher task keeps: [replay, cursor], the frames of
              \* its copy of the GOP still to publish, and its newest sequence
  groups,     \* the track: every MoQ group appended so far, with its objects
  troubles    \* how many of MaxTroubles have happened

hostVars == <<encoder, gop, request, forcedIdr, pub, groups, troubles>>

NewCursor == [last |-> 0, waiting |-> TRUE, disc |-> FALSE]

HostInit ==
  /\ encoder = [next |-> 1, format |-> 1, resizing |-> FALSE]
  /\ gop = [frames |-> <<>>, changed |-> FALSE]
  /\ request = [reason |-> "none", changed |-> FALSE]
  /\ forcedIdr \in {"unavailable", "idle"}
  /\ pub = [ replay |-> NewCursor, cursor |-> NewCursor, work |-> <<>>,
             through |-> 0, failed |-> FALSE ]
  /\ groups = <<>>
  /\ troubles = 0

----------------------------------------------------------------------------
\* The encoder.

Trouble == troubles < MaxTroubles /\ troubles' = troubles + 1

\* update_current_gop: a configured IDR starts a GOP, a frame without one is
\* dropped, and a GOP that grows too long is discarded to its next IDR.
UpdateCurrentGop(frame) ==
  IF frame.kind = "idr" THEN [frames |-> <<frame>>, changed |-> TRUE]
  ELSE IF gop.frames = <<>> THEN gop
  ELSE [ frames |-> IF Len(gop.frames) >= MaxGop THEN <<>>
                    ELSE Append(gop.frames, frame),
         changed |-> TRUE ]

\* An access unit leaves the encoder.  While a resolution is being applied
\* only the configured IDR at the new size passes, marked a discontinuity.
EmitFrame(kind) ==
  /\ encoder.next <= MaxFrames
  /\ encoder.resizing => kind = "idr"
  /\ gop' = UpdateCurrentGop([ seq |-> encoder.next, kind |-> kind,
                               format |-> encoder.format,
                               disc |-> encoder.resizing ])
  /\ encoder' = [encoder EXCEPT !.next = @ + 1, !.resizing = FALSE]
  /\ forcedIdr' = IF kind = "idr" /\ forcedIdr = "applied"
                  THEN "acknowledged" ELSE forcedIdr
  /\ UNCHANGED <<request, pub, groups, troubles>>

\* apply_encoder_control: a resolution discards the GOP.
ApplyResolution ==
  /\ Trouble
  /\ encoder' = [encoder EXCEPT !.format = @ + 1, !.resizing = TRUE]
  /\ gop' = [frames |-> <<>>, changed |-> TRUE]
  /\ UNCHANGED <<request, forcedIdr, pub, groups>>

\* apply_encoder_control: the forced keyframe reaches the encoder.
ApplyForcedKeyframe ==
  /\ forcedIdr = "requested"
  /\ forcedIdr' = "applied"
  /\ UNCHANGED <<encoder, gop, request, pub, groups, troubles>>

\* wait_for_recovery_keyframe_acknowledged runs into its timeout.
ForcedIdrTimesOut ==
  /\ forcedIdr \in {"requested", "applied"}
  /\ forcedIdr' = "failed"
  /\ UNCHANGED <<encoder, gop, request, pub, groups, troubles>>

----------------------------------------------------------------------------
\* The two cursors and the groups.

EnterResync(c) == [last |-> c.last, waiting |-> TRUE, disc |-> TRUE]

\* enter_resync_through: nothing up to "through" will be published any more.
EnterResyncThrough(c, through) ==
  [last |-> IF through > c.last THEN through ELSE c.last, waiting |-> TRUE, disc |-> TRUE]

Sent(frame) == [last |-> frame.seq, waiting |-> FALSE, disc |-> FALSE]

\* abort_current: only the newest group can be open.
Aborted(gs) ==
  IF gs = <<>> THEN gs
  ELSE [gs EXCEPT ![Len(gs)] = [objects |-> @.objects, open |-> FALSE]]
CurrentGroupOpen == groups # <<>> /\ groups[Len(groups)].open

\* The publisher gives up what is left of its copy of the GOP, and the group:
\* MoqGroupPublisher::request_keyframe or its EnterResync, then the replay
\* cursor resynchronises.  last is the sequence the group cursor keeps.
Abandon(last, gs) ==
  /\ pub' = [pub EXCEPT !.replay = EnterResyncThrough(pub.replay, pub.through),
                        !.cursor = [last |-> last, waiting |-> TRUE, disc |-> TRUE],
                        !.work = <<>>]
  /\ groups' = Aborted(gs)

\* MoqGroupPublisher::publish of a configured IDR: the previous group is
\* aborted and a new one opened with the IDR as its first object.
PublishIdr(f, disc, cut) ==
  LET object == [f EXCEPT !.disc =
        @ \/ disc \/ pub.cursor.disc
          \/ (pub.cursor.last # 0 /\ pub.cursor.last + 1 # f.seq)]
  IN \/ cut = "group" /\ Abandon(pub.cursor.last, groups)
     \/ /\ cut = "object"
        /\ Abandon(f.seq, Append(Aborted(groups), [objects |-> <<>>, open |-> TRUE]))
     \/ /\ cut = "none"
        /\ groups' = Append(Aborted(groups), [objects |-> <<object>>, open |-> TRUE])
        /\ pub' = [pub EXCEPT !.replay = Sent(f), !.cursor = Sent(f), !.work = Tail(pub.work)]

\* MoqGroupPublisher::publish of any other frame: it goes to the open group,
\* or the publisher gives the group up.  A delta the cursor accepts while no
\* group is open ends the publisher with an error.
PublishDependent(f, disc, cut) ==
  LET follows == f.kind = "delta" /\ pub.cursor.last + 1 = f.seq /\ cut # "group"
  IN \/ /\ pub.cursor.waiting
        /\ pub' = [pub EXCEPT !.replay = EnterResyncThrough(pub.replay, pub.through),
                               !.work = <<>>]
        /\ UNCHANGED groups
     \/ ~pub.cursor.waiting /\ ~follows /\ Abandon(pub.cursor.last, groups)
     \/ /\ ~pub.cursor.waiting /\ follows /\ ~CurrentGroupOpen
        /\ pub' = [pub EXCEPT !.failed = TRUE]
        /\ UNCHANGED groups
     \/ /\ ~pub.cursor.waiting /\ follows /\ CurrentGroupOpen
        /\ \/ cut = "object" /\ Abandon(f.seq, groups)
           \/ /\ cut = "none"
              /\ groups' = [groups EXCEPT ![Len(groups)] =
                   [objects |-> Append(@.objects, [f EXCEPT !.disc = @ \/ disc]), open |-> TRUE]]
              /\ pub' = [pub EXCEPT !.replay = Sent(f), !.work = Tail(pub.work),
                   !.cursor = [last |-> f.seq, waiting |-> FALSE, disc |-> pub.cursor.disc]]

\* Mutant: new_current_gop_frames with an off-by-one.
NewFramesFromLast(frames, last) ==
  LET skipped == {i \in DOMAIN frames : \A j \in 1..i : frames[j].seq < last}
  IN SubSeq(frames, Cardinality(skipped) + 1, Len(frames))

\* new_current_gop_frames: the longest prefix of frames not newer is skipped.
NewFrames(frames, last) ==
  LET skipped == {i \in DOMAIN frames : \A j \in 1..i : frames[j].seq <= last}
  IN SubSeq(frames, Cardinality(skipped) + 1, Len(frames))

----------------------------------------------------------------------------
\* The publisher task.  Its select is biased: a keyframe request is taken
\* before an acknowledgement, and an acknowledgement before the GOP.

AckReady == forcedIdr \in {"acknowledged", "failed"}
Idle == pub.work = <<>> /\ ~pub.failed

\* Mutant: apply_moq_keyframe_request that aborts the group and forgets its cursor.
ServeRequestKeepsCursor ==
  /\ Idle /\ request.changed
  /\ request' = [request EXCEPT !.changed = FALSE]
  /\ IF request.reason = "join" THEN UNCHANGED <<pub, groups, forcedIdr>>
     ELSE /\ pub' = [pub EXCEPT !.replay = EnterResync(@)]
          /\ groups' = Aborted(groups)
          /\ forcedIdr' = IF forcedIdr = "idle" THEN "requested" ELSE forcedIdr
  /\ UNCHANGED <<encoder, gop, troubles>>

\* apply_moq_keyframe_request, then ForcedIdrCoordinator::request.  A Join is
\* served by the group that is there; a recovery abandons everything up to the
\* newest frame of the GOP and asks for an IDR unless one is pending.
ServeRequest ==
  /\ Idle /\ request.changed
  /\ request' = [request EXCEPT !.changed = FALSE]
  /\ IF request.reason = "join" THEN UNCHANGED <<pub, groups, forcedIdr>>
     ELSE /\ pub' = [pub EXCEPT
               !.cursor = EnterResync(pub.cursor),
               !.replay = EnterResyncThrough(pub.replay,
                 IF gop.frames = <<>> THEN 0 ELSE gop.frames[Len(gop.frames)].seq)]
          /\ groups' = Aborted(groups)
          /\ forcedIdr' = IF forcedIdr = "idle" THEN "requested" ELSE forcedIdr
  /\ UNCHANGED <<encoder, gop, troubles>>

\* ForcedIdrCoordinator::complete: the pending revision is cleared.
CompleteForcedIdr ==
  /\ Idle /\ AckReady /\ ~request.changed
  /\ forcedIdr' = "idle"
  /\ UNCHANGED <<encoder, gop, request, pub, groups, troubles>>

\* The publisher takes a copy of the newest GOP of the watch; what of it is
\* new it publishes frame by frame, while the encoder goes on.
ServeGop ==
  /\ Idle /\ gop.changed /\ ~request.changed /\ ~AckReady
  /\ gop' = [gop EXCEPT !.changed = FALSE]
  /\ pub' = IF gop.frames = <<>> THEN pub
            ELSE [pub EXCEPT !.work = NewFrames(gop.frames, pub.replay.last),
                             !.through = gop.frames[Len(gop.frames)].seq]
  /\ UNCHANGED <<encoder, request, forcedIdr, groups, troubles>>

\* One turn of publish_generation_gop: MediaReplayCursor::classify, then
\* MoqGroupPublisher::publish.
PublishFrame(cut) ==
  /\ pub.work # <<>> /\ ~pub.failed
  /\ LET f == Head(pub.work)
         gap == pub.replay.last # 0 /\ pub.replay.last + 1 # f.seq
         disc == pub.replay.disc \/ gap
         skipped == (pub.replay.waiting \/ gap) /\ f.kind # "idr"
     IN \/ (cut = "stale" \/ skipped) /\ Abandon(pub.cursor.last, groups)
        \/ cut # "stale" /\ f.kind = "idr" /\ PublishIdr(f, disc, cut)
        \/ /\ cut # "stale" /\ f.kind # "idr" /\ ~skipped
           /\ PublishDependent(f, disc, cut)
  /\ UNCHANGED <<encoder, gop, request, forcedIdr, troubles>>

\* A control task puts a keyframe request in the watch, over one that is there.
PutRequest(reason) == request' = [reason |-> reason, changed |-> TRUE]

\* Another viewer asks for a keyframe.
OtherViewerAsks(reason) ==
  /\ Trouble /\ PutRequest(reason)
  /\ UNCHANGED <<encoder, gop, forcedIdr, pub, groups>>

HostNext ==
  \/ \E kind \in Kinds : EmitFrame(kind)
  \/ ApplyResolution \/ ApplyForcedKeyframe \/ ForcedIdrTimesOut
  \/ ServeRequest \/ CompleteForcedIdr
  \/ ServeGop
  \/ \E cut \in CutReasons \cup {"none"} : PublishFrame(cut)
  \/ \E reason \in {"join", "recovery"} : OtherViewerAsks(reason)

\* The group cursor, the replay cursor and the track agree: the publisher
\* accepts deltas exactly while the newest group is open for them, so that
\* the error "MoQ delta frame has no active configured-keyframe group" cannot
\* end the publisher of a generation, whatever requests, resolutions, stale
\* frames and oversized groups interleave.
CursorMatchesGroup ==
  /\ ~pub.failed
  /\ CurrentGroupOpen <=> ~pub.cursor.waiting
  /\ pub.replay.waiting <=> pub.cursor.waiting
====
