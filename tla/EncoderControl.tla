--------------------------- MODULE EncoderControl ---------------------------
(***************************************************************************)
(* The encoder's control handle (source/in_process.rs): callers write the  *)
(* latest desired state, the pipeline thread applies it and publishes its  *)
(* status.  Both directions are watch channels, so only the last value of  *)
(* each is kept.                                                           *)
(*                                                                         *)
(* A request is two steps: it takes a revision from an atomic counter, and *)
(* only then replaces the desired state.  Tasks of the generation (the     *)
(* adaptive actuator, the forced-IDR coordinator) make requests            *)
(* concurrently.  The GStreamer pipeline is external: its encoder obeys    *)
(* the caps of the scaler, late, and emits an access unit whenever it      *)
(* likes.                                                                  *)
(***************************************************************************)
EXTENDS Naturals

None == "none"

CONSTANTS
  Callers,       \* tasks that hold a clone of the handle
  Bitrates,      \* bitrates that are requested, told apart only
  Tiers,         \* resolutions that are requested
  NativeTier,    \* the resolution the pipeline starts with
  MaxRevisions   \* bound: revisions allocated

ASSUME EncoderAssumption ==
  /\ MaxRevisions \in Nat
  /\ NativeTier \in Tiers
  /\ None \notin Bitrates \cup Tiers

VARIABLES
  nextRevision,  \* the atomic counter
  drafts,        \* per caller: the request whose revision is allocated only
  desired,       \* EncoderControlDesired
  status,        \* EncoderControlStatus; revision 0 = None
  worker         \* the pipeline thread's locals

encoderVars == <<nextRevision, drafts, desired, status, worker>>

NoRequest == [kind |-> None, value |-> None]
Requests ==
  {NoRequest} \cup [kind : {"bitrate"}, value : Bitrates]
              \cup [kind : {"resolution"}, value : Tiers]
              \cup [kind : {"keyframe"}, value : {None}]
Revised(V) == [revision : 0..MaxRevisions, value : V \cup {None}]
Draft == [revision : 0..MaxRevisions, request : Requests]
Desired == [revision : 0..MaxRevisions, bitrate : Revised(Bitrates),
            resolution : Revised(Tiers), keyframe : 0..MaxRevisions]
Status == [bitrate : Revised(Bitrates), resolutionRequested : 0..MaxRevisions,
           resolution : Revised(Tiers), keyframeRequested : 0..MaxRevisions,
           keyframeAcknowledged : 0..MaxRevisions]
Worker == [alive : BOOLEAN, applied : 0..MaxRevisions,
           resolution : Revised(Tiers), keyframe : 0..MaxRevisions]

Unset == [revision |-> 0, value |-> None]
NoDraft == [revision |-> 0, request |-> NoRequest]

EncoderInit ==
  /\ nextRevision = 0
  /\ drafts = [c \in Callers |-> NoDraft]
  /\ desired = [revision |-> 0, bitrate |-> Unset, resolution |-> Unset,
                keyframe |-> 0]
  /\ status = [bitrate |-> Unset, resolutionRequested |-> 0,
               resolution |-> [revision |-> 0, value |-> NativeTier],
               keyframeRequested |-> 0, keyframeAcknowledged |-> 0]
  /\ worker = [alive |-> TRUE, applied |-> 0, resolution |-> Unset,
               keyframe |-> 0]

-----------------------------------------------------------------------------
\* request_bitrate_kbps, request_resolution and request_force_keyframe.

\* Mutant: the revision handed out is one above the counter's.
AllocateRevisionBeyond(c, request) ==
  /\ drafts[c] = NoDraft
  /\ nextRevision < MaxRevisions
  /\ nextRevision' = nextRevision + 1
  /\ drafts' = [drafts EXCEPT ![c] = [revision |-> nextRevision + 2,
                                      request |-> request]]
  /\ UNCHANGED <<desired, status, worker>>

AllocateRevision(c, request) ==
  /\ drafts[c] = NoDraft
  /\ nextRevision < MaxRevisions
  /\ nextRevision' = nextRevision + 1
  /\ drafts' = [drafts EXCEPT ![c] = [revision |-> nextRevision + 1,
                                      request |-> request]]
  /\ UNCHANGED <<desired, status, worker>>

Desire(draft) ==
  LET revised == [revision |-> draft.revision, value |-> draft.request.value]
      kind == draft.request.kind
  IN [revision |-> draft.revision,
      bitrate |-> IF kind = "bitrate" THEN revised ELSE desired.bitrate,
      resolution |-> IF kind = "resolution" THEN revised ELSE desired.resolution,
      keyframe |-> IF kind = "keyframe" THEN draft.revision ELSE desired.keyframe]

PublishDesired(c) ==
  /\ drafts[c] # NoDraft
  /\ desired' = Desire(drafts[c])
  /\ drafts' = [drafts EXCEPT ![c] = NoDraft]
  /\ UNCHANGED <<nextRevision, status, worker>>

-----------------------------------------------------------------------------
\* The pipeline thread.

NewBitrate == desired.bitrate.revision > status.bitrate.revision
NewResolution == desired.resolution.revision > status.resolutionRequested
NewKeyframe == desired.keyframe > status.keyframeRequested

\* The loop looks at the desired state only when its revision has risen; each
\* part is applied when its own revision is newer than the one in the status.
HasNewDesired == desired.revision > worker.applied

ApplyEncoderControl ==
  /\ worker.alive /\ HasNewDesired
  /\ status' = [status EXCEPT
       !.bitrate = IF NewBitrate THEN desired.bitrate ELSE @,
       !.resolutionRequested = IF NewResolution THEN desired.resolution.revision ELSE @,
       !.keyframeRequested = IF NewKeyframe THEN desired.keyframe ELSE @]
  /\ worker' = [worker EXCEPT
       !.applied = desired.revision,
       !.resolution = IF NewResolution THEN desired.resolution ELSE @,
       !.keyframe = IF NewKeyframe THEN desired.keyframe ELSE @]
  /\ UNCHANGED <<nextRevision, drafts, desired>>

\* An access unit that is published.  While a resolution is pending only a
\* configured IDR of the target size is; everything else is dropped (and the
\* thread gives up on a size nobody asked for, which this pipeline never emits).
PublishSample(configuredIdr) ==
  /\ worker.alive
  /\ worker.resolution # Unset => configuredIdr
  /\ status' = [status EXCEPT
       !.resolution = IF worker.resolution # Unset THEN worker.resolution ELSE @,
       !.keyframeAcknowledged =
          IF configuredIdr /\ worker.keyframe # 0 THEN worker.keyframe ELSE @]
  /\ worker' = [worker EXCEPT !.resolution = Unset,
                              !.keyframe = IF configuredIdr THEN 0 ELSE @]
  /\ UNCHANGED <<nextRevision, drafts, desired>>

\* The deadline of a resolution, an error on the bus, the end of the stream.
PipelineFails ==
  /\ worker.alive
  /\ worker' = [worker EXCEPT !.alive = FALSE]
  /\ UNCHANGED <<nextRevision, drafts, desired, status>>

WorkerStep ==
  \/ ApplyEncoderControl
  \/ \E idr \in BOOLEAN : PublishSample(idr)
  \/ PipelineFails

CallerStep ==
  \E c \in Callers :
     \/ \E request \in Requests \ {NoRequest} : AllocateRevision(c, request)
     \/ PublishDesired(c)

EncoderNext == CallerStep \/ WorkerStep
EncoderSpec == EncoderInit /\ [][EncoderNext]_encoderVars

-----------------------------------------------------------------------------
\* The waits.  Each is a verdict on one snapshot of the status; they repeat on
\* every change of it, and end in a timeout or when the status closes.

Verdict(done, superseded) ==
  IF done THEN "ok" ELSE IF superseded THEN "error" ELSE "wait"

BitrateVerdict(revision) ==
  Verdict(status.bitrate.revision = revision, status.bitrate.revision > revision)

KeyframeVerdict(revision) ==
  Verdict(status.keyframeAcknowledged = revision,
          status.keyframeAcknowledged > revision \/ status.keyframeRequested > revision)

RecoveryVerdict(revision) ==
  Verdict(status.keyframeAcknowledged >= revision, FALSE)

ResolutionVerdict(revision) ==
  Verdict(status.resolution.revision = revision,
          status.resolution.revision > revision \/ status.resolutionRequested > revision)

-----------------------------------------------------------------------------
EncoderTypeOK ==
  /\ nextRevision \in 0..MaxRevisions
  /\ drafts \in [Callers -> Draft]
  /\ desired \in Desired
  /\ status \in Status
  /\ worker \in Worker
=============================================================================
