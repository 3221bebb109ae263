---------------------------- MODULE VideoProofs ----------------------------
(***************************************************************************)
(* Proofs about the video path, whatever the length of the run, the size   *)
(* of a GOP, the capacity of the frame channel and the number of troubles: *)
(* the publisher's cursor follows its track, the frame channel counts its  *)
(* slots exactly, the Portal accepts what an honest host publishes, and    *)
(* the decoder is fed in order.                                            *)
(*                                                                         *)
(* The first two need no types of frames and objects: only which group is  *)
(* open, and how many frames and acknowledgements there are.  The other    *)
(* two follow the sequence numbers from the encoder to the decoder.        *)
(***************************************************************************)
EXTENDS VideoPath, FiniteSetTheorems, TLAPS

-----------------------------------------------------------------------------
(* The publisher and its track.                                            *)

(* A group has its fields; a track is a sequence of groups, of whatever   *)
(* objects.                                                                *)
IsGroup(g) == g = [objects |-> g.objects, open |-> g.open]
IsTrack(gs) == \E S : gs \in Seq(S) /\ \A g \in S : IsGroup(g)

OpenTail(gs) == gs # <<>> /\ gs[Len(gs)].open

(* The publisher's record has its fields, and its flags are Boolean. *)
PubOK ==
  /\ pub \in [ replay : {pub.replay}, cursor : {pub.cursor}, work : {pub.work},
               through : {pub.through}, failed : BOOLEAN ]
  /\ pub.replay.waiting \in BOOLEAN /\ pub.cursor.waiting \in BOOLEAN

(* The newest group replaced by one with other objects, or closed. *)
LEMMA TailTrack ==
  ASSUME NEW gs, IsTrack(gs), gs # <<>>, NEW g, IsGroup(g), NEW hs,
         hs = [gs EXCEPT ![Len(gs)] = g]
  PROVE  IsTrack(hs) /\ hs # <<>> /\ hs[Len(hs)] = g
<1>1. PICK S : gs \in Seq(S) /\ \A x \in S : IsGroup(x)
  BY DEF IsTrack
<1>2. hs \in Seq(S \cup {g}) /\ Len(hs) = Len(gs) /\ hs # <<>> /\ hs[Len(gs)] = g
  BY <1>1
<1>3. IsTrack(hs)
  BY <1>1, <1>2 DEF IsTrack
<1> QED BY <1>2, <1>3

(* After abort_current no group is open. *)
LEMMA AbortedTrack ==
  ASSUME NEW gs, IsTrack(gs)
  PROVE  IsTrack(Aborted(gs)) /\ ~OpenTail(Aborted(gs))
<1>1. CASE gs = <<>>
  BY <1>1 DEF Aborted, OpenTail
<1>2. CASE gs # <<>>
  <2> DEFINE g == [objects |-> gs[Len(gs)].objects, open |-> FALSE]
             hs == Aborted(gs)
  <2>1. Len(gs) \in DOMAIN gs
    BY <1>2 DEF IsTrack
  <2>2. hs = [gs EXCEPT ![Len(gs)] = g] /\ IsGroup(g) /\ ~g.open
    BY <1>2, <2>1 DEF Aborted, IsGroup
  <2> HIDE DEF g, hs
  <2>3. IsTrack(hs) /\ hs # <<>> /\ hs[Len(hs)] = g
    BY <1>2, <2>2, TailTrack
  <2> QED BY <2>2, <2>3 DEF OpenTail, hs
<1> QED BY <1>1, <1>2

(* A group opened is the newest. *)
LEMMA AppendTrack ==
  ASSUME NEW gs, IsTrack(gs), NEW os
  PROVE  /\ IsTrack(Append(gs, [objects |-> os, open |-> TRUE]))
         /\ OpenTail(Append(gs, [objects |-> os, open |-> TRUE]))
<1> DEFINE g == [objects |-> os, open |-> TRUE]
           hs == Append(gs, g)
<1>1. PICK S : gs \in Seq(S) /\ \A x \in S : IsGroup(x)
  BY DEF IsTrack
<1>2. IsGroup(g) /\ g.open
  BY DEF IsGroup
<1> HIDE DEF g
<1>3. hs \in Seq(S \cup {g}) /\ Len(hs) = Len(gs) + 1 /\ hs # <<>> /\ hs[Len(hs)] = g
  BY <1>1
<1>4. IsTrack(hs) /\ OpenTail(hs)
  BY <1>1, <1>2, <1>3 DEF IsTrack, OpenTail
<1> QED BY <1>4 DEF g

(* A record of the publisher with three fields replaced. *)
LEMMA PubUpdate ==
  ASSUME PubOK, NEW r, NEW c, NEW w,
         pub' = [pub EXCEPT !.replay = r, !.cursor = c, !.work = w]
  PROVE  pub' = [replay |-> r, cursor |-> c, work |-> w,
                 through |-> pub.through, failed |-> pub.failed]
<1> DEFINE p == [pub EXCEPT !.replay = r]
           q == [p EXCEPT !.cursor = c]
<1>1. p = [replay |-> r, cursor |-> pub.cursor, work |-> pub.work,
           through |-> pub.through, failed |-> pub.failed]
  BY DEF PubOK
<1> HIDE DEF p
<1>2. q = [replay |-> r, cursor |-> c, work |-> pub.work,
           through |-> pub.through, failed |-> pub.failed]
  BY <1>1
<1> HIDE DEF q
<1>3. [q EXCEPT !.work = w] = [replay |-> r, cursor |-> c, work |-> w,
                               through |-> pub.through, failed |-> pub.failed]
  BY <1>2
<1> QED BY <1>3 DEF p, q

(* The inductive invariant: CursorMatchesGroup is inductive but for the    *)
(* shapes of the records and of the track.                                 *)
CursorInv == PubOK /\ IsTrack(groups) /\ CursorMatchesGroup

(* Giving up a frame: no group is open and both cursors wait. *)
LEMMA AbandonInv ==
  ASSUME CursorInv, NEW l, NEW gs, IsTrack(gs), Abandon(l, gs)
  PROVE  CursorInv'
<1>1. groups' = Aborted(gs) BY DEF Abandon
<1>2. IsTrack(groups') /\ ~OpenTail(groups')
  BY <1>1, AbortedTrack
<1>3. PubOK' /\ pub'.cursor.waiting /\ pub'.replay.waiting /\ ~pub'.failed
  <2>1. pub' = [ replay |-> EnterResyncThrough(pub.replay, pub.through),
                 cursor |-> [last |-> l, waiting |-> TRUE, disc |-> TRUE],
                 work |-> <<>>, through |-> pub.through, failed |-> pub.failed ]
    BY PubUpdate DEF CursorInv, Abandon
  <2> QED BY <2>1 DEF CursorInv, PubOK, EnterResyncThrough, CursorMatchesGroup
<1> QED BY <1>2, <1>3 DEF CursorInv, CursorMatchesGroup, CurrentGroupOpen, OpenTail

(* A configured IDR opens a group or is given up. *)
LEMMA IdrInv ==
  ASSUME CursorInv, NEW f, NEW disc, NEW cut, PublishIdr(f, disc, cut)
  PROVE  CursorInv'
<1>1. CASE cut = "group" /\ Abandon(pub.cursor.last, groups)
  BY <1>1, AbandonInv DEF CursorInv
<1>2. CASE Abandon(f.seq, Append(Aborted(groups), [objects |-> <<>>, open |-> TRUE]))
  BY <1>2, AbandonInv, AbortedTrack, AppendTrack DEF CursorInv
<1>3. ASSUME NEW object,
             groups' = Append(Aborted(groups), [objects |-> <<object>>, open |-> TRUE]),
             pub' = [pub EXCEPT !.replay = Sent(f), !.cursor = Sent(f), !.work = Tail(pub.work)]
      PROVE  CursorInv'
  <2>1. IsTrack(groups') /\ OpenTail(groups')
    BY <1>3, AbortedTrack, AppendTrack DEF CursorInv
  <2>2. pub' = [ replay |-> Sent(f), cursor |-> Sent(f), work |-> Tail(pub.work),
                 through |-> pub.through, failed |-> pub.failed ]
    BY <1>3, PubUpdate DEF CursorInv
  <2>3. PubOK' /\ ~pub'.cursor.waiting /\ ~pub'.replay.waiting /\ ~pub'.failed
    BY <2>2 DEF CursorInv, PubOK, Sent, CursorMatchesGroup
  <2> QED BY <2>1, <2>3 DEF CursorInv, CursorMatchesGroup, CurrentGroupOpen, OpenTail
<1> QED BY <1>1, <1>2, <1>3 DEF PublishIdr

(* Any other frame continues the open group or is given up. *)
LEMMA DependentInv ==
  ASSUME CursorInv, NEW f, NEW disc, NEW cut, PublishDependent(f, disc, cut)
  PROVE  CursorInv'
<1>1. CASE Abandon(pub.cursor.last, groups) \/ Abandon(f.seq, groups)
  BY <1>1, AbandonInv DEF CursorInv
<1>2. CASE /\ pub.cursor.waiting
           /\ pub' = [pub EXCEPT !.replay = EnterResyncThrough(pub.replay, pub.through),
                                 !.work = <<>>]
           /\ UNCHANGED groups
  <2>1. pub' = [ replay |-> EnterResyncThrough(pub.replay, pub.through),
                 cursor |-> pub.cursor, work |-> <<>>,
                 through |-> pub.through, failed |-> pub.failed ]
    BY <1>2 DEF CursorInv, PubOK
  <2>2. pub'.cursor = pub.cursor /\ pub'.replay.waiting = TRUE /\ pub'.failed = pub.failed
    BY <2>1 DEF EnterResyncThrough
  <2>3. PubOK' /\ pub'.cursor.waiting /\ pub'.replay.waiting /\ ~pub'.failed
    BY <1>2, <2>1, <2>2 DEF CursorInv, PubOK, CursorMatchesGroup
  <2> QED BY <1>2, <2>3 DEF CursorInv, CursorMatchesGroup, CurrentGroupOpen
<1>3. ASSUME NEW os, ~pub.cursor.waiting, CurrentGroupOpen,
             groups' = [groups EXCEPT ![Len(groups)] =
                          [objects |-> Append(@.objects, os), open |-> TRUE]],
             pub' = [pub EXCEPT !.replay = Sent(f), !.work = Tail(pub.work),
                       !.cursor = [last |-> f.seq, waiting |-> FALSE,
                                   disc |-> pub.cursor.disc]]
      PROVE  CursorInv'
  <2>1. IsTrack(groups') /\ OpenTail(groups')
    <3> DEFINE g == [objects |-> Append(groups[Len(groups)].objects, os), open |-> TRUE]
    <3>1. groups # <<>> /\ Len(groups) \in DOMAIN groups
      BY <1>3 DEF CursorInv, CurrentGroupOpen, IsTrack
    <3>2. groups' = [groups EXCEPT ![Len(groups)] = g] /\ IsGroup(g) /\ g.open
      BY <1>3, <3>1 DEF IsGroup
    <3> HIDE DEF g
    <3>3. IsTrack(groups') /\ groups' # <<>> /\ groups'[Len(groups')] = g
      BY <3>1, <3>2, TailTrack DEF CursorInv
    <3> QED BY <3>2, <3>3 DEF OpenTail
  <2>2. pub' = [ replay |-> Sent(f),
                 cursor |-> [last |-> f.seq, waiting |-> FALSE, disc |-> pub.cursor.disc],
                 work |-> Tail(pub.work), through |-> pub.through, failed |-> pub.failed ]
    BY <1>3 DEF CursorInv, PubOK
  <2>3. PubOK' /\ ~pub'.cursor.waiting /\ ~pub'.replay.waiting /\ ~pub'.failed
    BY <2>2 DEF CursorInv, PubOK, Sent, CursorMatchesGroup
  <2> QED BY <2>1, <2>3 DEF CursorInv, CursorMatchesGroup, CurrentGroupOpen, OpenTail
<1> QED BY <1>1, <1>2, <1>3 DEF PublishDependent, CursorInv, CursorMatchesGroup

(* One turn of publish_generation_gop. *)
LEMMA FrameInv ==
  ASSUME CursorInv, NEW cut, PublishFrame(cut)
  PROVE  CursorInv'
<1> DEFINE f == Head(pub.work)
           gap == pub.replay.last # 0 /\ pub.replay.last + 1 # f.seq
           disc == pub.replay.disc \/ gap
<1>1. \/ Abandon(pub.cursor.last, groups)
      \/ PublishIdr(f, disc, cut)
      \/ PublishDependent(f, disc, cut)
  BY DEF PublishFrame
<1> HIDE DEF f, disc
<1> QED BY <1>1, AbandonInv, IdrInv, DependentInv DEF CursorInv

(* A recovery request aborts the group, a Join leaves it. *)
LEMMA RequestInv ==
  ASSUME CursorInv, ServeRequest
  PROVE  CursorInv'
<1>1. CASE UNCHANGED <<pub, groups>>
  BY <1>1 DEF CursorInv, PubOK, CursorMatchesGroup, CurrentGroupOpen
<1>2. CASE request.reason # "join"
  <2> DEFINE through == IF gop.frames = <<>> THEN 0 ELSE gop.frames[Len(gop.frames)].seq
  <2>1. /\ pub' = [pub EXCEPT !.cursor = EnterResync(pub.cursor),
                              !.replay = EnterResyncThrough(pub.replay, through)]
        /\ groups' = Aborted(groups)
    BY <1>2 DEF ServeRequest
  <2> HIDE DEF through
  <2>2. pub' = [ replay |-> EnterResyncThrough(pub.replay, through),
                 cursor |-> EnterResync(pub.cursor), work |-> pub.work,
                 through |-> pub.through, failed |-> pub.failed ]
    BY <2>1 DEF CursorInv, PubOK
  <2>3. PubOK' /\ pub'.cursor.waiting /\ pub'.replay.waiting /\ ~pub'.failed
    BY <2>2 DEF CursorInv, PubOK, EnterResync, EnterResyncThrough, CursorMatchesGroup
  <2>4. IsTrack(groups') /\ ~OpenTail(groups')
    BY <2>1, AbortedTrack DEF CursorInv
  <2> QED BY <2>3, <2>4 DEF CursorInv, CursorMatchesGroup, CurrentGroupOpen, OpenTail
<1> QED BY <1>1, <1>2 DEF ServeRequest

(* A copy of the GOP is taken: neither cursor moves. *)
LEMMA GopInv ==
  ASSUME CursorInv, ServeGop
  PROVE  CursorInv'
<1>1. CASE UNCHANGED <<pub, groups>>
  BY <1>1 DEF CursorInv, PubOK, CursorMatchesGroup, CurrentGroupOpen
<1>2. ASSUME NEW w, NEW t, pub' = [pub EXCEPT !.work = w, !.through = t],
             UNCHANGED groups
      PROVE  CursorInv'
  <2>1. pub' = [ replay |-> pub.replay, cursor |-> pub.cursor, work |-> w,
                 through |-> t, failed |-> pub.failed ]
    BY <1>2 DEF CursorInv, PubOK
  <2>2. PubOK' /\ pub'.cursor = pub.cursor /\ pub'.replay = pub.replay /\ pub'.failed = pub.failed
    BY <2>1 DEF CursorInv, PubOK
  <2> QED BY <1>2, <2>2 DEF CursorInv, CursorMatchesGroup, CurrentGroupOpen
<1> QED BY <1>1, <1>2 DEF ServeGop

(* Every step keeps the cursor and the track together. *)
LEMMA CursorStep ==
  ASSUME CursorInv, [Next]_vars
  PROVE  CursorInv'
<1>1. CASE UNCHANGED <<pub, groups>>
  BY <1>1 DEF CursorInv, PubOK, CursorMatchesGroup, CurrentGroupOpen
<1>2. CASE HostNext
  <2>1. CASE UNCHANGED <<pub, groups>>
    BY <2>1, <1>1
  <2>2. ASSUME ~UNCHANGED <<pub, groups>>
        PROVE  \/ ServeRequest \/ ServeGop
               \/ \E cut \in CutReasons \cup {"none"} : PublishFrame(cut)
    BY <1>2, <2>2 DEF HostNext, EmitFrame, ApplyResolution, ApplyForcedKeyframe,
         ForcedIdrTimesOut, CompleteForcedIdr, OtherViewerAsks
  <2> QED BY <2>1, <2>2, RequestInv, GopInv, FrameInv
<1>3. ~HostNext => UNCHANGED <<pub, groups>>
  BY DEF Next, vars, hostVars, ReceiverStep, NextGroup, RecoveryTimeout, ReadFails,
         ReadTimeout, ReadObject, RxUnchanged, HandleFrame, DecoderError, Activate,
         AckArrives, Reconnect, PageUnchanged
<1> QED BY <1>1, <1>2, <1>3

(* The publisher accepts deltas exactly while its newest group is open for   *)
(* them, whatever the encoder, the viewers and the ages of frames do: it is  *)
(* never ended by a delta without a group, for any length of run, any GOP    *)
(* and any number of requests.                                               *)
THEOREM CursorFollowsTrack == Spec => []CursorMatchesGroup
<1>1. Init => CursorInv
  <2> SUFFICES ASSUME Init PROVE CursorInv
    OBVIOUS
  <2>1. /\ groups = <<>> /\ pub.replay = NewCursor /\ pub.cursor = NewCursor
        /\ pub.failed = FALSE /\ NewCursor.waiting = TRUE
    BY DEF Init, HostInit, NewCursor
  <2>2. PubOK
    BY <2>1 DEF Init, HostInit, PubOK
  <2>3. IsTrack(groups)
    <3>1. groups \in Seq({}) BY <2>1
    <3> QED BY <3>1 DEF IsTrack
  <2> QED BY <2>1, <2>2, <2>3 DEF CursorInv, CursorMatchesGroup, CurrentGroupOpen
<1>2. CursorInv /\ [Next]_vars => CursorInv'
  BY CursorStep
<1>3. CursorInv => CursorMatchesGroup
  BY DEF CursorInv
<1> QED BY <1>1, <1>2, <1>3, PTL DEF Spec

-----------------------------------------------------------------------------
(* The slots of the frame channel.                                         *)

(* The page's record has its fields. *)
IsPage(p) ==
  p \in [ active : BOOLEAN, staged : Nat, format : {p.format}, last : {p.last},
          recovering : {p.recovering}, issued : {p.issued}, failed : BOOLEAN ]

(* q is a page with the same session state as p. *)
SameSession(p, q) ==
  IsPage(q) /\ q.active = p.active /\ q.staged = p.staged /\ q.failed = p.failed

SlotTypes ==
  /\ troubles \in 0..MaxTroubles /\ generation \in 1..(troubles + 1)
  /\ acks \in [1..(MaxTroubles + 1) -> Nat]
  /\ delivery \in [ prev : {delivery.prev}, waiting : {delivery.waiting}, inFlight : Nat ]
  /\ \E S : channel \in Seq(S)
  /\ IsPage(page)

(* An active session stages nothing, and no acknowledgement is on its way for *)
(* a generation that has not begun.                                          *)
SlotInv ==
  /\ SlotTypes
  /\ page.active => page.staged = 0
  /\ \A g \in 1..(MaxTroubles + 1) : g > generation => acks[g] = 0
  /\ SlotsExact

(* The page's recovery fields do not touch its session. *)
LEMMA PageUpdate ==
  ASSUME NEW p, IsPage(p), NEW a, NEW b, NEW c, NEW d
  PROVE  /\ SameSession(p, [p EXCEPT !.recovering = c, !.issued = d])
         /\ SameSession(p, [p EXCEPT !.last = a, !.format = b, !.recovering = c, !.issued = d])
<1> DEFINE rec(x, y, z, w) == [ active |-> p.active, staged |-> p.staged, format |-> x, last |-> y,
                               recovering |-> z, issued |-> w, failed |-> p.failed ]
           q1 == [p EXCEPT !.last = a]
           q2 == [q1 EXCEPT !.format = b]
           q3 == [q2 EXCEPT !.recovering = c]
           q4 == [q3 EXCEPT !.issued = d]
           r1 == [p EXCEPT !.recovering = c]
           r2 == [r1 EXCEPT !.issued = d]
<1>1. q1 = rec(p.format, a, p.recovering, p.issued) /\ r1 = rec(p.format, p.last, c, p.issued)
  BY DEF IsPage
<1> HIDE DEF q1, r1
<1>2. q2 = rec(b, a, p.recovering, p.issued) /\ r2 = rec(p.format, p.last, c, d)
  BY <1>1
<1> HIDE DEF q2, r2
<1>3. q3 = rec(b, a, c, p.issued)
  BY <1>2
<1> HIDE DEF q3
<1>4. q4 = rec(b, a, c, d)
  BY <1>3
<1> HIDE DEF q4
<1>5. SameSession(p, r2) /\ SameSession(p, q4)
  BY <1>2, <1>4 DEF SameSession, IsPage
<1> QED BY <1>5 DEF r1, r2, q1, q2, q3, q4

(* Nor do two such changes. *)
LEMMA SameSessionChains ==
  ASSUME NEW p, NEW q, NEW r, SameSession(p, q), SameSession(q, r)
  PROVE  SameSession(p, r)
BY DEF SameSession

(* Entering recovery leaves the session as it is. *)
LEMMA EnterRecoveryKeeps ==
  ASSUME NEW s, IsPage(s.page), NEW ask
  PROVE  SameSession(s.page, EnterRecovery(s, ask).page)
BY PageUpdate DEF EnterRecovery

(* So does the decoder, whatever it makes of a frame. *)
LEMMA DecodeKeeps ==
  ASSUME NEW s, IsPage(s.page), NEW frame, NEW reconfigure, NEW fault
  PROVE  SameSession(s.page, Decode(s, frame, reconfigure, fault).page)
<1> DEFINE key == frame.kind = "idr"
           ready == IF key /\ reconfigure
                    THEN [ page |-> s.page, asks |-> s.asks,
                           decoder |-> [format |-> frame.format, last |-> 0] ]
                    ELSE s
           fails == fault = "enqueue" \/ (fault = "configure" /\ key /\ reconfigure)
           next == [ready.page EXCEPT
                !.last = frame.seq, !.format = frame.format,
                !.recovering = s.page.recovering /\ ~key,
                !.issued = s.page.issued /\ ~(key /\ s.page.recovering)]
<1>1. ready.page = s.page
  OBVIOUS
<1>2. SameSession(s.page, s.page)
  BY DEF SameSession
<1>3. SameSession(s.page, next)
  BY <1>1, PageUpdate
<1>4. SameSession(s.page, EnterRecovery(ready, TRUE).page)
  BY <1>1, EnterRecoveryKeeps
<1>5. \/ Decode(s, frame, reconfigure, fault).page = EnterRecovery(ready, TRUE).page
      \/ Decode(s, frame, reconfigure, fault).page = ready.page
      \/ Decode(s, frame, reconfigure, fault).page = next
  BY DEF Decode
<1> QED BY <1>1, <1>2, <1>3, <1>4, <1>5

(* And the processing of a frame, which is made of the two. *)
LEMMA ProcessKeeps ==
  ASSUME NEW s0, IsPage(s0.page), NEW frame, NEW fault
  PROVE  SameSession(s0.page, ProcessFrame(s0, frame, fault).page)
<1> DEFINE key == frame.kind = "idr"
           s == IF fault = "backlog" /\ s0.decoder # NoDecoder
                THEN EnterRecovery(s0, TRUE) ELSE s0
           reconfigure == \/ s.page.format # frame.format
                          \/ frame.disc \/ s.decoder = NoDecoder
           planned == IF reconfigure THEN EnterRecovery(s, FALSE) ELSE s
           end == ProcessFrame(s0, frame, fault)
<1>1. end = IF frame.seq <= s.page.last THEN s
            ELSE IF ~key /\ (reconfigure \/ s.page.recovering) THEN EnterRecovery(s, TRUE)
            ELSE Decode(planned, frame, reconfigure, fault)
  BY DEF ProcessFrame
<1>2. s = s0 \/ s = EnterRecovery(s0, TRUE)
  OBVIOUS
<1>3. planned = s \/ planned = EnterRecovery(s, FALSE)
  OBVIOUS
<1> HIDE DEF s, end, planned, reconfigure, key
<1>4. \/ end = s \/ end = EnterRecovery(s, TRUE)
      \/ end = Decode(planned, frame, reconfigure, fault)
  BY <1>1
<1>5. SameSession(s0.page, s.page) /\ IsPage(s.page)
  <2>1. SameSession(s0.page, s0.page)
    BY DEF SameSession
  <2>2. SameSession(s0.page, EnterRecovery(s0, TRUE).page)
    BY EnterRecoveryKeeps
  <2> QED BY <1>2, <2>1, <2>2 DEF SameSession
<1>6. SameSession(s0.page, EnterRecovery(s, TRUE).page)
  <2>1. SameSession(s.page, EnterRecovery(s, TRUE).page)
    BY <1>5, EnterRecoveryKeeps
  <2> QED BY <1>5, <2>1, SameSessionChains
<1>7. SameSession(s0.page, planned.page) /\ IsPage(planned.page)
  <2>1. SameSession(s.page, EnterRecovery(s, FALSE).page)
    BY <1>5, EnterRecoveryKeeps
  <2>2. SameSession(s0.page, EnterRecovery(s, FALSE).page)
    BY <1>5, <2>1, SameSessionChains
  <2> QED BY <1>3, <1>5, <2>2 DEF SameSession
<1>8. SameSession(s0.page, Decode(planned, frame, reconfigure, fault).page)
  <2>1. SameSession(planned.page, Decode(planned, frame, reconfigure, fault).page)
    BY <1>7, DecodeKeeps
  <2> QED BY <1>7, <2>1, SameSessionChains
<1> QED BY <1>4, <1>5, <1>6, <1>8 DEF end

(* What the counts are. *)
LEMMA SlotFacts ==
  ASSUME SlotInv
  PROVE  /\ generation \in 1..(MaxTroubles + 1) /\ acks[generation] \in Nat
         /\ delivery.inFlight \in Nat /\ page.staged \in Nat /\ Len(channel) \in Nat
         /\ page.active \in BOOLEAN /\ page.failed \in BOOLEAN
         /\ channel # <<>> => Len(channel) # 0
<1>1. generation \in 1..(MaxTroubles + 1) /\ acks[generation] \in Nat
  BY PublisherBounds DEF SlotInv, SlotTypes
<1>2. delivery.inFlight \in Nat /\ page.staged \in Nat
      /\ page.active \in BOOLEAN /\ page.failed \in BOOLEAN
  BY DEF SlotInv, SlotTypes, IsPage
<1>3. Len(channel) \in Nat /\ (channel # <<>> => Len(channel) # 0)
  BY DEF SlotInv, SlotTypes
<1> QED BY <1>1, <1>2, <1>3

(* The page takes a frame: its slot moves to an acknowledgement. *)
LEMMA HandleInv ==
  ASSUME SlotInv, NEW fault, HandleFrame(fault)
  PROVE  SlotInv'
<1> DEFINE s == [page |-> page, decoder |-> decoder, asks |-> FALSE]
           end == ProcessFrame(s, Head(channel), fault)
<1> USE SlotFacts
<1>1. SameSession(page, end.page)
  BY ProcessKeeps DEF SlotInv, SlotTypes
<1>2. /\ \E S : channel' \in Seq(S)
      /\ Len(channel') = Len(channel) - 1 /\ Len(channel') \in Nat
  BY DEF HandleFrame, SlotInv, SlotTypes
<1>3. /\ troubles' \in 0..MaxTroubles /\ generation \in 1..(troubles' + 1)
      /\ generation' = generation /\ delivery' = delivery
  BY PublisherBounds DEF HandleFrame, Trouble, PageUnchanged, SlotInv, SlotTypes
<1>4. Len(channel) > 0 /\ ~(~page.active /\ page.staged = FrameCapacity)
  BY PathBounds DEF SlotInv, SlotsExact, HandleFrame
<1>5. /\ page' = IF page.active THEN end.page
                  ELSE [end.page EXCEPT !.staged = page.staged + 1]
      /\ acks' = IF page.active THEN [acks EXCEPT ![generation] = @ + 1] ELSE acks
  BY <1>4 DEF HandleFrame
<1> HIDE DEF end
<1>6. CASE page.active
  <2>1. IsPage(page') /\ page'.active /\ page'.staged = page.staged /\ page'.failed = page.failed
    BY <1>1, <1>5, <1>6 DEF SameSession
  <2>2. /\ acks' \in [1..(MaxTroubles + 1) -> Nat]
        /\ acks'[generation] = acks[generation] + 1
        /\ \A g \in 1..(MaxTroubles + 1) : g # generation => acks'[g] = acks[g]
    BY <1>5, <1>6 DEF SlotInv, SlotTypes
  <2>3. SlotTypes'
    BY <1>2, <1>3, <2>1, <2>2 DEF SlotInv, SlotTypes
  <2>4. SlotsExact'
    BY <1>2, <1>3, <2>1, <2>2 DEF SlotInv, SlotsExact
  <2> QED BY <1>3, <1>6, <2>1, <2>2, <2>3, <2>4 DEF SlotInv
<1>7. CASE ~page.active
  <2>1. page' = [ active |-> end.page.active, staged |-> page.staged + 1,
                  format |-> end.page.format, last |-> end.page.last,
                  recovering |-> end.page.recovering, issued |-> end.page.issued,
                  failed |-> end.page.failed ]
    BY <1>1, <1>5, <1>7 DEF SameSession, IsPage
  <2>2. /\ page'.active = end.page.active /\ page'.staged = page.staged + 1
        /\ page'.failed = end.page.failed
    BY <2>1
  <2>3. IsPage(page')
    BY <1>1, <2>1, <2>2 DEF SameSession, IsPage
  <2>4. acks' = acks
    BY <1>5, <1>7
  <2>5. page'.active = page.active /\ page'.failed = page.failed
    BY <1>1, <2>2 DEF SameSession
  <2>6. SlotTypes'
    BY <1>2, <1>3, <2>3, <2>4 DEF SlotInv, SlotTypes
  <2>7. SlotsExact'
    <3>1. SlotsExact BY DEF SlotInv
    <3> QED BY <1>2, <1>3, <2>2, <2>4, <2>5, <3>1 DEF SlotsExact
  <2> QED BY <1>3, <1>7, <2>4, <2>5, <2>6, <2>7 DEF SlotInv
<1> QED BY <1>6, <1>7

(* The record of the delivery task has its fields. *)
DeliveryTyped ==
  delivery \in [ prev : {delivery.prev}, waiting : {delivery.waiting}, inFlight : Nat ]

(* A delivered frame takes a slot, a dropped one does not. *)
LEMMA DeliverCounts ==
  ASSUME SlotInv, NEW frame, Deliver(frame)
  PROVE  /\ DeliveryTyped' /\ \E S : channel' \in Seq(S)
         /\ \/ delivery'.inFlight = delivery.inFlight /\ channel' = channel
            \/ /\ delivery'.inFlight = delivery.inFlight + 1
               /\ delivery'.inFlight <= FrameCapacity
               /\ Len(channel') = Len(channel) + 1
<1>1. CASE UNCHANGED <<delivery, channel>>
  BY <1>1 DEF SlotInv, SlotTypes, DeliveryTyped
<1>2. CASE /\ delivery' = [delivery EXCEPT !.prev = frame.seq, !.waiting = TRUE]
           /\ UNCHANGED channel
  <2>1. delivery' = [prev |-> frame.seq, waiting |-> TRUE, inFlight |-> delivery.inFlight]
    BY <1>2 DEF SlotInv, SlotTypes
  <2> QED BY <1>2, <2>1, SlotFacts DEF SlotInv, SlotTypes, DeliveryTyped
<1>3. CASE /\ delivery' = [ prev |-> frame.seq, waiting |-> FALSE,
                            inFlight |-> delivery.inFlight + 1 ]
           /\ channel' = Append(channel, frame) /\ delivery.inFlight # FrameCapacity
  <2>1. delivery'.inFlight = delivery.inFlight + 1 /\ DeliveryTyped'
    BY <1>3, SlotFacts DEF DeliveryTyped
  <2>2. PICK S : channel \in Seq(S)
    BY DEF SlotInv, SlotTypes
  <2>3. channel' \in Seq(S \cup {frame}) /\ Len(channel') = Len(channel) + 1
    BY <1>3, <2>2
  <2>4. delivery'.inFlight <= FrameCapacity
    BY <1>3, <2>1, SlotFacts, PathBounds DEF SlotInv, SlotsExact
  <2> QED BY <2>1, <2>3, <2>4
<1> QED BY <1>1, <1>2, <1>3 DEF Deliver

(* A frame of the receiver. *)
LEMMA ObjectInv ==
  ASSUME SlotInv, ReadObject
  PROVE  SlotInv'
<1> USE SlotFacts
<1>1. /\ UNCHANGED <<troubles, generation, acks, page>>
      /\ \/ UNCHANGED <<delivery, channel>>
         \/ NoteDropped /\ UNCHANGED channel
         \/ \E frame : Deliver(frame)
  BY DEF ReadObject, hostVars
<1>2. /\ DeliveryTyped' /\ \E S : channel' \in Seq(S)
      /\ \/ delivery'.inFlight = delivery.inFlight /\ channel' = channel
         \/ /\ delivery'.inFlight = delivery.inFlight + 1
            /\ delivery'.inFlight <= FrameCapacity
            /\ Len(channel') = Len(channel) + 1
  <2>1. CASE UNCHANGED <<delivery, channel>>
    BY <2>1 DEF SlotInv, SlotTypes, DeliveryTyped
  <2>2. CASE NoteDropped /\ UNCHANGED channel
    BY <2>2 DEF SlotInv, SlotTypes, NoteDropped, DeliveryTyped
  <2> QED BY <1>1, <2>1, <2>2, DeliverCounts
<1>3. SlotTypes'
  BY <1>1, <1>2 DEF SlotInv, SlotTypes, DeliveryTyped
<1>4. SlotsExact'
  <2>1. SlotsExact BY DEF SlotInv
  <2> QED BY <1>1, <1>2, <2>1 DEF SlotsExact
<1> QED BY <1>1, <1>3, <1>4 DEF SlotInv

(* Steps that leave the counters alone. *)
LEMMA QuietInv ==
  ASSUME SlotInv, UNCHANGED <<generation, acks, channel>>,
         troubles' = troubles \/ Trouble,
         UNCHANGED delivery \/ NoteDropped,
         SameSession(page, page')
  PROVE  SlotInv'
<1> USE SlotFacts
<1>1. troubles' \in 0..MaxTroubles /\ generation' \in 1..(troubles' + 1)
  BY PublisherBounds DEF Trouble, SlotInv, SlotTypes
<1>2. DeliveryTyped' /\ delivery'.inFlight = delivery.inFlight
  BY DEF NoteDropped, SlotInv, SlotTypes, DeliveryTyped
<1>3. SlotTypes'
  BY <1>1, <1>2 DEF SlotInv, SlotTypes, DeliveryTyped, SameSession
<1>4. SlotsExact'
  <2>1. SlotsExact BY DEF SlotInv
  <2> QED BY <1>2, <2>1 DEF SlotsExact, SameSession
<1> QED BY <1>3, <1>4 DEF SlotInv, SameSession

(* The host's steps. *)
LEMMA HostQuiet ==
  ASSUME SlotInv, HostNext, UNCHANGED portalVars
  PROVE  SlotInv'
<1>1. troubles' = troubles \/ Trouble
  BY DEF HostNext, EmitFrame, ApplyResolution, ApplyForcedKeyframe, ForcedIdrTimesOut,
         ServeRequest, CompleteForcedIdr, ServeGop, PublishFrame, OtherViewerAsks
<1> QED BY <1>1, QuietInv DEF portalVars, SlotInv, SlotTypes, SameSession

(* The receiver's steps. *)
LEMMA ReceiverInv ==
  ASSUME SlotInv, ReceiverStep
  PROVE  SlotInv'
<1>1. CASE ReadObject
  BY <1>1, ObjectInv
<1>2. CASE ~ReadObject
  <2>1. /\ UNCHANGED <<generation, acks, channel, troubles, page>>
        /\ UNCHANGED delivery \/ NoteDropped
    BY <1>2 DEF ReceiverStep, NextGroup, RecoveryTimeout, ReadFails, ReadTimeout,
                RxUnchanged, hostVars
  <2> QED BY <2>1, QuietInv DEF SlotInv, SlotTypes, SameSession
<1> QED BY <1>1, <1>2

(* The decoder fails on its own. *)
LEMMA DecoderErrorInv ==
  ASSUME SlotInv, DecoderError
  PROVE  SlotInv'
<1> DEFINE s == [page |-> page, decoder |-> decoder, asks |-> FALSE]
<1>1. SameSession(page, EnterRecovery(s, TRUE).page)
  BY EnterRecoveryKeeps DEF SlotInv, SlotTypes
<1>2. page' = EnterRecovery(s, TRUE).page
  BY DEF DecoderError
<1> QED BY <1>1, <1>2, QuietInv DEF DecoderError, PageUnchanged

(* The staged acknowledgements go out. *)
LEMMA ActivateInv ==
  ASSUME SlotInv, Activate
  PROVE  SlotInv'
<1> USE SlotFacts
<1>1. /\ UNCHANGED <<delivery, channel, troubles, generation>>
      /\ ~page.active
      /\ acks' = [acks EXCEPT ![generation] = acks[generation] + page.staged]
  BY DEF Activate, PageUnchanged
<1>2. page' = [ active |-> TRUE, staged |-> 0, format |-> page.format, last |-> page.last,
                recovering |-> page.recovering, issued |-> page.issued,
                failed |-> page.failed ]
  BY DEF Activate, SlotInv, SlotTypes, IsPage
<1>3. IsPage(page') /\ page'.active /\ page'.staged = 0 /\ page'.failed = page.failed
  BY <1>2 DEF IsPage
<1>4. /\ acks' \in [1..(MaxTroubles + 1) -> Nat]
      /\ acks'[generation] = acks[generation] + page.staged
      /\ \A g \in 1..(MaxTroubles + 1) : g # generation => acks'[g] = acks[g]
  BY <1>1 DEF SlotInv, SlotTypes
<1>5. SlotTypes'
  BY <1>1, <1>3, <1>4 DEF SlotInv, SlotTypes
<1>6. SlotsExact'
  <2>1. SlotsExact BY DEF SlotInv
  <2> QED BY <1>1, <1>3, <1>4, <2>1 DEF SlotsExact
<1> QED BY <1>1, <1>3, <1>4, <1>5, <1>6 DEF SlotInv

(* An acknowledgement arrives, of this generation or an earlier one. *)
LEMMA AckInv ==
  ASSUME SlotInv, NEW g \in DOMAIN acks, AckArrives(g)
  PROVE  SlotInv'
<1> USE SlotFacts
<1>1. UNCHANGED <<channel, page, troubles, generation>>
  BY DEF AckArrives, PageUnchanged
<1>2. /\ acks' \in [1..(MaxTroubles + 1) -> Nat]
      /\ acks'[g] = acks[g] - 1 /\ acks[g] \in Nat /\ acks[g] > 0
      /\ \A h \in 1..(MaxTroubles + 1) : h # g => acks'[h] = acks[h]
  BY DEF AckArrives, SlotInv, SlotTypes
<1>3. SlotsExact
  BY DEF SlotInv
<1>4. \A h \in 1..(MaxTroubles + 1) : h > generation => acks[h] = 0
  BY DEF SlotInv
<1>5. CASE g = generation
  <2>1. delivery.inFlight > 0
    BY <1>2, <1>3, <1>5 DEF SlotsExact
  <2>2. delivery' = [delivery EXCEPT !.inFlight = delivery.inFlight - 1]
    BY <2>1, <1>5 DEF AckArrives
  <2>3. delivery' = [ prev |-> delivery.prev, waiting |-> delivery.waiting,
                      inFlight |-> delivery.inFlight - 1 ]
    BY <2>2 DEF SlotInv, SlotTypes
  <2>4. DeliveryTyped' /\ delivery'.inFlight = delivery.inFlight - 1
    BY <2>1, <2>3 DEF DeliveryTyped
  <2>5. SlotTypes'
    BY <1>1, <1>2, <2>4 DEF SlotInv, SlotTypes, DeliveryTyped
  <2>6. acks'[generation'] = acks[generation] - 1
    BY <1>1, <1>2, <1>5
  <2>7. SlotsExact'
    <3>1. page'.staged = page.staged /\ page'.failed = page.failed /\ channel' = channel
      BY <1>1
    <3> QED BY <1>3, <2>4, <2>6, <3>1, PathBounds DEF SlotsExact
  <2> QED BY <1>1, <1>2, <1>4, <1>5, <2>5, <2>7 DEF SlotInv
<1>6. CASE g # generation
  <2>1. delivery' = delivery /\ acks'[generation] = acks[generation]
    BY <1>2, <1>6 DEF AckArrives
  <2>2. SlotTypes'
    BY <1>1, <1>2, <2>1 DEF SlotInv, SlotTypes
  <2>3. SlotsExact'
    BY <1>1, <1>3, <2>1 DEF SlotsExact
  <2> QED BY <1>1, <1>2, <1>4, <2>2, <2>3 DEF SlotInv
<1> QED BY <1>5, <1>6

(* A new generation begins: nothing is on its way for it yet. *)
LEMMA ReconnectInv ==
  ASSUME SlotInv, Reconnect
  PROVE  SlotInv'
<1> USE SlotFacts, PublisherBounds, PathBounds
<1>1. /\ troubles' \in 0..MaxTroubles /\ generation' = generation + 1
      /\ generation' \in 1..(troubles' + 1) /\ generation' \in 1..(MaxTroubles + 1)
      /\ acks' = acks /\ channel' = <<>> /\ delivery' = NewDelivery /\ page' = NewPage
  BY DEF Reconnect, Trouble, SlotInv, SlotTypes
<1>2. /\ IsPage(page') /\ ~page'.active /\ page'.staged = 0 /\ ~page'.failed
      /\ DeliveryTyped' /\ delivery'.inFlight = 0
  BY <1>1 DEF NewPage, NewDelivery, IsPage, DeliveryTyped
<1>3. channel' \in Seq({}) /\ Len(channel') = 0
  BY <1>1
<1>4. acks'[generation'] = 0
  BY <1>1 DEF SlotInv
<1>5. SlotTypes'
  BY <1>1, <1>2, <1>3 DEF SlotInv, SlotTypes, DeliveryTyped
<1>6. SlotsExact'
  BY <1>2, <1>3, <1>4 DEF SlotsExact
<1> QED BY <1>1, <1>2, <1>5, <1>6 DEF SlotInv

(* The slot invariant holds in every reachable state. *)
THEOREM SlotInvariant == Spec => []SlotInv
<1>1. Init => SlotInv
  <2> SUFFICES ASSUME Init PROVE SlotInv
    OBVIOUS
  <2>1. /\ troubles = 0 /\ generation = 1 /\ delivery = NewDelivery /\ channel = <<>>
        /\ acks = [g \in 1..(MaxTroubles + 1) |-> 0] /\ page = NewPage
    BY DEF Init, HostInit
  <2>2. IsPage(page) /\ ~page.active /\ page.staged = 0 /\ ~page.failed
        /\ DeliveryTyped /\ delivery.inFlight = 0
    BY <2>1 DEF NewPage, NewDelivery, IsPage, DeliveryTyped
  <2>3. channel \in Seq({}) /\ Len(channel) = 0
    BY <2>1
  <2>4. SlotTypes
    BY <2>1, <2>2, <2>3, PublisherBounds DEF SlotTypes, DeliveryTyped
  <2>5. SlotsExact
    BY <2>1, <2>2, <2>3, PublisherBounds, PathBounds DEF SlotsExact
  <2> QED BY <2>1, <2>2, <2>4, <2>5 DEF SlotInv
<1>2. SlotInv /\ [Next]_vars => SlotInv'
  <2> SUFFICES ASSUME SlotInv, [Next]_vars PROVE SlotInv'
    OBVIOUS
  <2>1. CASE UNCHANGED vars
    BY <2>1, QuietInv DEF vars, hostVars, portalVars, SlotInv, SlotTypes, SameSession
  <2> QED BY <2>1, HostQuiet, ReceiverInv, HandleInv, DecoderErrorInv, ActivateInv,
             ReconnectInv, AckInv DEF Next
<1> QED BY <1>1, <1>2, PTL DEF Spec

(* The slot counter is exact: no reconnect, no late or staged acknowledgement *)
(* and no dropped frame leaks a slot of the frame channel or frees one twice, *)
(* for any capacity and any number of reconnects.                            *)
THEOREM SlotsAreExact == Spec => []SlotsExact
<1>1. SlotInv => SlotsExact
  BY DEF SlotInv
<1> QED BY <1>1, SlotInvariant, PTL

-----------------------------------------------------------------------------
(* The order of frames, from the encoder to the Portal.                    *)

Frames == [seq : Nat \ {0}, kind : FrameKinds, format : Nat, disc : BOOLEAN]
Cursors == [last : Nat, waiting : BOOLEAN, disc : BOOLEAN]
Groups == [objects : Seq(Frames), open : BOOLEAN]
Receivers ==
  [ group : Nat, pos : Nat, gap : BOOLEAN, replacement : BOOLEAN,
    recovery : {"none", "supersession", "gap"}, lastGroup : Nat, last : Nat,
    waiting : BOOLEAN ]

(* Newer frames come later. *)
Ascending(s) == \A i, j \in DOMAIN s : i < j => s[i].seq < s[j].seq

HostTypes ==
  /\ encoder \in [next : Nat \ {0}, format : Nat, resizing : BOOLEAN]
  /\ gop \in [frames : Seq(Frames), changed : BOOLEAN]
  /\ pub \in [ replay : Cursors, cursor : Cursors, work : Seq(Frames),
               through : Nat, failed : BOOLEAN ]

(* The watch holds frames in order, older than the next one of the encoder; *)
(* the publisher's copy holds frames that its replay cursor has not passed. *)
SourceInv ==
  /\ Ascending(gop.frames)
  /\ \A i \in DOMAIN gop.frames : gop.frames[i].seq < encoder.next
  /\ Ascending(pub.work)
  /\ \A i \in DOMAIN pub.work : pub.work[i].seq > pub.replay.last

(* A track whose objects the replay cursor has passed: a group begins with an *)
(* IDR, and what a later group holds is newer.                               *)
Track(gs, last) ==
  /\ gs \in Seq(Groups)
  /\ \A g \in DOMAIN gs : \A i \in DOMAIN gs[g].objects : gs[g].objects[i].seq <= last
  /\ \A g \in DOMAIN gs : gs[g].objects # <<>> => gs[g].objects[1].kind = "idr"
  /\ \A g, h \in DOMAIN gs : g < h =>
       \A i \in DOMAIN gs[g].objects, j \in DOMAIN gs[h].objects :
         gs[g].objects[i].seq < gs[h].objects[j].seq

(* An open group has its IDR. *)
TrackInv ==
  /\ Track(groups, pub.replay.last)
  /\ CurrentGroupOpen => groups[Len(groups)].objects # <<>>

(* The newest group of which the receiver has read an object, or which it has *)
(* given up.                                                                 *)
Reached(r) == IF r.group # 0 /\ r.pos > 0 THEN r.group ELSE r.lastGroup

(* The receiver and the delivery task have seen the same newest frame; it is *)
(* none that the publisher may still publish, and every group not reached    *)
(* yet holds newer ones.                                                     *)
PortalOrder ==
  /\ rx \in Receivers
  /\ delivery = [ prev |-> rx.last, waiting |-> delivery.waiting,
                  inFlight |-> delivery.inFlight ]
  /\ rx.group <= Len(groups) /\ (rx.group # 0 => rx.lastGroup < rx.group)
  /\ rx.last <= pub.replay.last
  /\ \A g \in DOMAIN groups : g > Reached(rx) =>
       \A i \in DOMAIN groups[g].objects : groups[g].objects[i].seq > rx.last
  /\ task # "malformed"

AcceptInv == HostTypes /\ SourceInv /\ TrackInv /\ PortalOrder

(* What is left of the GOP after the frames already dealt with: they ascend  *)
(* and are all newer.                                                        *)
LEMMA NewFramesAreNew ==
  ASSUME NEW s \in Seq(Frames), Ascending(s), NEW last \in Nat
  PROVE  /\ NewFrames(s, last) \in Seq(Frames)
         /\ Ascending(NewFrames(s, last))
         /\ \A i \in DOMAIN NewFrames(s, last) : NewFrames(s, last)[i].seq > last
<1> DEFINE n == Len(s)
           skipped == {i \in DOMAIN s : \A j \in 1..i : s[j].seq <= last}
           k == Cardinality(skipped)
<1>1. n \in Nat /\ DOMAIN s = 1..n /\ \A i \in 1..n : s[i] \in Frames /\ s[i].seq \in Nat
  <2>1. \A f \in Frames : f.seq \in Nat
    BY DEF Frames
  <2> QED BY <2>1
<1> HIDE DEF n
<1>2. IsFiniteSet(1..n) /\ Cardinality(1..n) = n
  BY <1>1, FS_Interval
<1>3. skipped \subseteq 1..n
  BY <1>1
<1>4. IsFiniteSet(skipped) /\ k \in Nat
  BY <1>2, <1>3, FS_Subset, FS_CardinalityType
<1> HIDE DEF k
<1>5. \A i \in skipped : i <= k
  <2> TAKE i \in skipped
  <2>1. i \in 1..n /\ 1..i \subseteq skipped
    BY <1>1
  <2>2. IsFiniteSet(1..i) /\ Cardinality(1..i) = i
    BY <2>1, <1>1, FS_Interval
  <2>3. Cardinality(1..i) <= k
    BY <1>4, <2>1, FS_Subset DEF k
  <2> QED BY <2>2, <2>3
<1>6. \A i \in (1..n) \ skipped : k < i
  <2> TAKE i \in (1..n) \ skipped
  <2>1. i \in Nat /\ i >= 1 /\ i - 1 \in Nat
    BY <1>1
  <2>2. skipped \subseteq 1..(i - 1)
    <3> SUFFICES ASSUME NEW j \in skipped PROVE j \in 1..(i - 1)
      OBVIOUS
    <3>1. j \in 1..n
      BY <1>3
    <3>2. ~(i <= j)
      <4> SUFFICES ASSUME i <= j PROVE i \in skipped
        OBVIOUS
      <4>1. 1..i \subseteq 1..j
        BY <1>1, <3>1
      <4> QED BY <1>1, <4>1
    <3> QED BY <1>1, <2>1, <3>1, <3>2
  <2>3. IsFiniteSet(1..(i - 1)) /\ Cardinality(1..(i - 1)) = i - 1
    <3>1. PICK m \in Nat : m = i - 1
      BY <2>1
    <3>2. 1 \in Int /\ m \in Int
      OBVIOUS
    <3>3. IsFiniteSet(1..m) /\ Cardinality(1..m) = IF 1 > m THEN 0 ELSE m - 1 + 1
      BY <3>2, FS_Interval
    <3> QED BY <3>1, <3>3
  <2>4. k <= i - 1
    BY <2>2, <2>3, FS_Subset DEF k
  <2> QED BY <1>4, <2>1, <2>4
<1>7. k <= n
  <2> HIDE DEF skipped
  <2>1. Cardinality(skipped) <= Cardinality(1..n)
    BY <1>2, <1>3, FS_Subset
  <2> QED BY <1>2, <2>1 DEF k
<1>8. \A i \in 1..n : i > k => s[i].seq > last
  <2> SUFFICES ASSUME NEW i \in 1..n, i > k PROVE s[i].seq > last
    OBVIOUS
  <2>1. k + 1 \in (1..n) \ skipped
    <3>1. k + 1 \in 1..n
      BY <1>1, <1>4
    <3>2. k + 1 \notin skipped
      BY <1>4, <1>5
    <3> QED BY <3>1, <3>2
  <2>2. PICK j \in 1..(k + 1) : ~(s[j].seq <= last)
    BY <1>1, <2>1
  <2>3. j \in 1..n /\ j <= i
    BY <1>1, <1>4, <2>1, <2>2
  <2>4. s[j].seq <= s[i].seq
    BY <1>1, <2>3 DEF Ascending
  <2> QED BY <1>1, <2>2, <2>3, <2>4
<1> DEFINE r == SubSeq(s, k + 1, n)
<1>9. NewFrames(s, last) = r
  BY DEF NewFrames, k, n
<1> HIDE DEF skipped
<1>10. /\ r \in Seq(Frames) /\ DOMAIN r = 1..(n - k)
       /\ \A i \in 1..(n - k) : r[i] = s[k + i] /\ k + i \in 1..n /\ k + i > k
  BY <1>1, <1>4, <1>7
<1> HIDE DEF r
<1>11. Ascending(r)
  <2> SUFFICES ASSUME NEW i \in 1..(n - k), NEW j \in 1..(n - k), i < j
               PROVE  r[i].seq < r[j].seq
    BY <1>10 DEF Ascending
  <2>1. k + i \in DOMAIN s /\ k + j \in DOMAIN s /\ k + i < k + j
    BY <1>1, <1>4, <1>10
  <2> QED BY <1>10, <2>1 DEF Ascending
<1>12. \A i \in 1..(n - k) : r[i].seq > last
  BY <1>8, <1>10
<1> QED BY <1>9, <1>10, <1>11, <1>12

(* A sequence of frames, element by element. *)
LEMMA FrameFields ==
  \A f \in Frames : f.seq \in Nat /\ f.seq >= 1
  BY DEF Frames

LEMMA ObjectsAreFrames ==
  ASSUME NEW gs \in Seq(Groups), NEW g \in DOMAIN gs
  PROVE  /\ gs[g] \in Groups /\ gs[g].objects \in Seq(Frames)
         /\ \A i \in DOMAIN gs[g].objects :
              gs[g].objects[i] \in Frames /\ gs[g].objects[i].seq \in Nat
<1>1. gs[g] \in Groups
  OBVIOUS
<1>2. gs[g].objects \in Seq(Frames)
  BY <1>1 DEF Groups
<1>3. \A i \in DOMAIN gs[g].objects : gs[g].objects[i] \in Frames
  BY <1>2
<1> QED BY <1>1, <1>2, <1>3, FrameFields

LEMMA ReplacedGroup ==
  ASSUME NEW gs \in Seq(Groups), NEW n \in DOMAIN gs, NEW new \in Groups
  PROVE  LET hs == [gs EXCEPT ![n] = new]
         IN /\ hs \in Seq(Groups) /\ Len(hs) = Len(gs) /\ DOMAIN hs = DOMAIN gs
            /\ hs[n] = new /\ \A g \in DOMAIN gs : g # n => hs[g] = gs[g]
  OBVIOUS

(* abort_current changes no object. *)
LEMMA AbortedOrder ==
  ASSUME NEW gs, NEW last \in Nat, Track(gs, last)
  PROVE  /\ Track(Aborted(gs), last) /\ DOMAIN Aborted(gs) = DOMAIN gs
         /\ Len(Aborted(gs)) = Len(gs)
         /\ \A g \in DOMAIN gs : Aborted(gs)[g].objects = gs[g].objects
         /\ Aborted(gs) # <<>> => ~Aborted(gs)[Len(Aborted(gs))].open
<1>1. gs \in Seq(Groups)
  BY DEF Track
<1>2. CASE gs = <<>>
  BY <1>2 DEF Aborted
<1>3. CASE gs # <<>>
  <2>1. PICK n \in DOMAIN gs : n = Len(gs)
    BY <1>1, <1>3
  <2> DEFINE new == [objects |-> gs[n].objects, open |-> FALSE]
  <2>2. Aborted(gs) = [gs EXCEPT ![n] = new]
    BY <1>3, <2>1 DEF Aborted
  <2>3. gs[n] \in Groups
    BY <1>1, <2>1
  <2>4. new \in Groups /\ new.objects = gs[n].objects /\ new.open = FALSE
    BY <2>3 DEF Groups
  <2> HIDE DEF new
  <2>5. /\ Aborted(gs) \in Seq(Groups) /\ Len(Aborted(gs)) = Len(gs)
        /\ DOMAIN Aborted(gs) = DOMAIN gs /\ Aborted(gs)[n] = new
        /\ \A g \in DOMAIN gs : g # n => Aborted(gs)[g] = gs[g]
    BY <1>1, <2>1, <2>2, <2>4
  <2>6. \A g \in DOMAIN gs : Aborted(gs)[g].objects = gs[g].objects
    BY <2>4, <2>5
  <2>7. Track(Aborted(gs), last)
    BY <2>5, <2>6 DEF Track
  <2> QED BY <2>1, <2>4, <2>5, <2>6, <2>7
<1> QED BY <1>2, <1>3

(* The replay cursor moves on: the track is behind it all the more. *)
LEMMA TrackLater ==
  ASSUME NEW gs, NEW last \in Nat, NEW next \in Nat, last <= next, Track(gs, last)
  PROVE  Track(gs, next)
<1>1. \A g \in DOMAIN gs : \A i \in DOMAIN gs[g].objects : gs[g].objects[i].seq \in Nat
  BY ObjectsAreFrames DEF Track
<1> QED BY <1>1 DEF Track

(* A track with a group more, and with a frame more in its last group. *)
Opened(gs, os) == Append(gs, [objects |-> os, open |-> TRUE])
Extended(gs, f) ==
  [gs EXCEPT ![Len(gs)] = [objects |-> Append(gs[Len(gs)].objects, f), open |-> TRUE]]

(* A group is opened, empty or with a newer IDR. *)
MayOpen(gs, os, last, next) ==
  /\ Track(gs, last) /\ last \in Nat /\ next \in Nat /\ last <= next
  /\ os \in Seq(Frames)
  /\ \/ os = <<>>
     \/ \E f \in Frames : os = <<f>> /\ f.kind = "idr" /\ last < f.seq /\ f.seq <= next

LEMMA OpenedOrder ==
  ASSUME NEW gs, NEW os, NEW last, NEW next, MayOpen(gs, os, last, next),
         NEW hs, hs = Opened(gs, os)
  PROVE  /\ Track(hs, next) /\ Len(hs) = Len(gs) + 1
         /\ hs[Len(hs)] = [objects |-> os, open |-> TRUE]
         /\ \A g \in DOMAIN gs : g \in DOMAIN hs /\ hs[g] = gs[g]
         /\ \A g \in DOMAIN hs : g \in DOMAIN gs \/ g = Len(gs) + 1
<1> USE DEF MayOpen
<1> DEFINE new == [objects |-> os, open |-> TRUE]
<1>1. gs \in Seq(Groups) /\ Len(gs) \in Nat /\ DOMAIN gs = 1..Len(gs)
  BY DEF Track
<1>2. new \in Groups /\ new.objects = os
  BY DEF Groups
<1>3. \A i \in DOMAIN os : i = 1 /\ os[i].kind = "idr" /\ last < os[i].seq /\ os[i].seq <= next
  <2>1. CASE os = <<>>
    BY <2>1
  <2>2. CASE \E f \in Frames : os = <<f>> /\ f.kind = "idr" /\ last < f.seq /\ f.seq <= next
    BY <2>2
  <2> QED BY <2>1, <2>2
<1>12. hs = Append(gs, new)
  BY DEF Opened
<1> HIDE DEF new
<1>4. /\ hs \in Seq(Groups) /\ Len(hs) = Len(gs) + 1 /\ DOMAIN hs = 1..(Len(gs) + 1)
      /\ hs[Len(gs) + 1] = new /\ \A g \in 1..Len(gs) : hs[g] = gs[g]
  BY <1>12, <1>1, <1>2
<1>5. \A g \in DOMAIN hs : g \in DOMAIN gs \/ g = Len(gs) + 1
  BY <1>1, <1>4
<1>6. Track(gs, next)
  BY TrackLater
<1>7. \A g \in DOMAIN gs : \A i \in DOMAIN gs[g].objects :
        gs[g].objects[i].seq \in Nat /\ gs[g].objects[i].seq <= last
  BY ObjectsAreFrames DEF Track
<1>8. \A i \in DOMAIN os : os[i].seq \in Nat
  BY FrameFields
<1>9. os # <<>> => 1 \in DOMAIN os
  OBVIOUS
<1>10. Track(hs, next)
  <2>1. \A g \in DOMAIN hs : \A i \in DOMAIN hs[g].objects : hs[g].objects[i].seq <= next
    BY <1>1, <1>2, <1>3, <1>4, <1>5, <1>6 DEF Track
  <2>2. \A g \in DOMAIN hs : hs[g].objects # <<>> => hs[g].objects[1].kind = "idr"
    BY <1>1, <1>2, <1>3, <1>4, <1>5, <1>6, <1>9 DEF Track
  <2>3. ASSUME NEW g \in DOMAIN hs, NEW h \in DOMAIN hs, g < h,
               NEW i \in DOMAIN hs[g].objects, NEW j \in DOMAIN hs[h].objects
        PROVE  hs[g].objects[i].seq < hs[h].objects[j].seq
    <3>1. g \in DOMAIN gs /\ hs[g] = gs[g]
      BY <1>1, <1>4, <2>3
    <3>2. CASE h \in DOMAIN gs
      BY <1>1, <1>4, <1>6, <2>3, <3>1, <3>2 DEF Track
    <3>3. CASE h = Len(gs) + 1
      <4>1. hs[h].objects = os
        BY <1>2, <1>4, <3>3
      <4> QED BY <1>3, <1>7, <1>8, <2>3, <3>1, <4>1
    <3> QED BY <1>5, <3>2, <3>3
  <2> QED BY <1>4, <2>1, <2>2, <2>3 DEF Track
<1>11. new = [objects |-> os, open |-> TRUE]
  BY DEF new
<1> QED BY <1>1, <1>4, <1>5, <1>10, <1>11

(* The open group goes on with a newer frame. *)
LEMMA ExtendedOrder ==
  ASSUME NEW gs, NEW last \in Nat, Track(gs, last),
         gs # <<>>, gs[Len(gs)].objects # <<>>, NEW f \in Frames, last < f.seq,
         NEW hs, hs = Extended(gs, f)
  PROVE  /\ Track(hs, f.seq) /\ DOMAIN hs = DOMAIN gs /\ Len(hs) = Len(gs)
         /\ hs[Len(hs)].objects # <<>>
         /\ \A g \in DOMAIN gs : \A i \in DOMAIN hs[g].objects :
              \/ i \in DOMAIN gs[g].objects /\ hs[g].objects[i] = gs[g].objects[i]
              \/ hs[g].objects[i] = f
         /\ \A g \in DOMAIN gs : \A i \in DOMAIN gs[g].objects : i \in DOMAIN hs[g].objects
<1>1. gs \in Seq(Groups)
  BY DEF Track
<1>2. PICK n \in DOMAIN gs : n = Len(gs)
  BY <1>1
<1> DEFINE old == gs[n].objects
           objects == Append(old, f)
           new == [objects |-> objects, open |-> TRUE]
<1>3. old \in Seq(Frames) /\ old # <<>>
  BY <1>1, <1>2, ObjectsAreFrames
<1> HIDE DEF old
<1>4. /\ objects \in Seq(Frames) /\ objects # <<>> /\ objects[1] = old[1]
      /\ \A i \in DOMAIN objects : \/ i \in DOMAIN old /\ objects[i] = old[i]
                                   \/ i = Len(old) + 1 /\ objects[i] = f
      /\ \A i \in DOMAIN old : i \in DOMAIN objects
  BY <1>3
<1> HIDE DEF objects
<1>5. new \in Groups /\ new.objects = objects
  BY <1>4 DEF Groups
<1>6. hs = [gs EXCEPT ![n] = new]
  BY <1>2 DEF new, objects, old, Extended
<1> HIDE DEF new
<1>7. /\ hs \in Seq(Groups) /\ Len(hs) = Len(gs) /\ DOMAIN hs = DOMAIN gs
      /\ hs[n] = new /\ \A g \in DOMAIN gs : g # n => hs[g] = gs[g]
  <2>1. new \in Groups
    BY <1>5
  <2>2. LET ks == [gs EXCEPT ![n] = new]
        IN /\ ks \in Seq(Groups) /\ Len(ks) = Len(gs) /\ DOMAIN ks = DOMAIN gs
           /\ ks[n] = new /\ \A g \in DOMAIN gs : g # n => ks[g] = gs[g]
    BY <1>1, <2>1, ReplacedGroup, Zenon
  <2> QED BY <1>6, <2>2, Zenon
<1>8. \A g \in DOMAIN gs : \A i \in DOMAIN hs[g].objects :
        \/ i \in DOMAIN gs[g].objects /\ hs[g].objects[i] = gs[g].objects[i]
        \/ g = n /\ hs[g].objects[i] = f
  BY <1>4, <1>5, <1>7 DEF old
<1>9. \A g \in DOMAIN gs : \A i \in DOMAIN gs[g].objects : i \in DOMAIN hs[g].objects
  BY <1>4, <1>5, <1>7 DEF old
<1>10. \A g \in DOMAIN gs : \A i \in DOMAIN gs[g].objects :
         gs[g].objects[i].seq \in Nat /\ gs[g].objects[i].seq <= last
  BY ObjectsAreFrames DEF Track
<1>11. f.seq \in Nat
  BY FrameFields
<1>12. Track(hs, f.seq)
  <2>1. \A g \in DOMAIN hs : \A i \in DOMAIN hs[g].objects : hs[g].objects[i].seq <= f.seq
    BY <1>7, <1>8, <1>10, <1>11
  <2>2. \A g \in DOMAIN hs : hs[g].objects # <<>> => hs[g].objects[1].kind = "idr"
    BY <1>2, <1>3, <1>4, <1>5, <1>7 DEF Track, old
  <2>3. ASSUME NEW g \in DOMAIN hs, NEW h \in DOMAIN hs, g < h,
               NEW i \in DOMAIN hs[g].objects, NEW j \in DOMAIN hs[h].objects
        PROVE  hs[g].objects[i].seq < hs[h].objects[j].seq
    <3>1. g # n /\ g \in DOMAIN gs /\ h \in DOMAIN gs
      BY <1>1, <1>2, <1>7, <2>3
    <3>2. i \in DOMAIN gs[g].objects /\ hs[g].objects[i] = gs[g].objects[i]
      BY <1>8, <2>3, <3>1
    <3>3. CASE j \in DOMAIN gs[h].objects /\ hs[h].objects[j] = gs[h].objects[j]
      BY <2>3, <3>1, <3>2, <3>3 DEF Track
    <3>4. CASE hs[h].objects[j] = f
      BY <1>10, <1>11, <3>1, <3>2, <3>4
    <3> QED BY <1>8, <2>3, <3>1, <3>3, <3>4
  <2> QED BY <1>7, <2>1, <2>2, <2>3 DEF Track
<1>13. hs[Len(hs)].objects # <<>>
  BY <1>2, <1>4, <1>5, <1>7
<1> QED BY <1>7, <1>8, <1>9, <1>12, <1>13

-----------------------------------------------------------------------------
(* The host keeps the order.                                               *)

HostOrder == HostTypes /\ SourceInv /\ TrackInv

(* What a step may do to the track: whatever comes to it is newer than all   *)
(* that the replay cursor had passed, and no half-configured access unit.    *)
Grown(gs) ==
  /\ Len(groups) <= Len(gs)
  /\ \A g \in DOMAIN gs : \A i \in DOMAIN gs[g].objects :
       \/ /\ g \in DOMAIN groups /\ i \in DOMAIN groups[g].objects
          /\ gs[g].objects[i] = groups[g].objects[i]
       \/ gs[g].objects[i].seq > pub.replay.last /\ gs[g].objects[i].kind # "odd"
Advances == Grown(groups') /\ pub'.replay.last >= pub.replay.last

LEMMA PubFields ==
  ASSUME HostTypes
  PROVE  /\ PubOK /\ pub.replay \in Cursors /\ pub.cursor \in Cursors
         /\ pub.work \in Seq(Frames) /\ pub.through \in Nat /\ pub.failed \in BOOLEAN
         /\ pub.replay.last \in Nat /\ pub.cursor.last \in Nat
         /\ pub.replay.disc \in BOOLEAN /\ pub.cursor.disc \in BOOLEAN
         /\ pub.replay.waiting \in BOOLEAN /\ pub.cursor.waiting \in BOOLEAN
<1>1. /\ pub.replay \in Cursors /\ pub.cursor \in Cursors
      /\ pub.work \in Seq(Frames) /\ pub.through \in Nat /\ pub.failed \in BOOLEAN
  BY DEF HostTypes
<1>2. /\ pub.replay.last \in Nat /\ pub.cursor.last \in Nat
      /\ pub.replay.disc \in BOOLEAN /\ pub.cursor.disc \in BOOLEAN
      /\ pub.replay.waiting \in BOOLEAN /\ pub.cursor.waiting \in BOOLEAN
  BY <1>1 DEF Cursors
<1> QED BY <1>1, <1>2 DEF HostTypes, PubOK

LEMMA ResyncLater ==
  ASSUME NEW c \in Cursors, NEW through \in Nat
  PROVE  /\ EnterResyncThrough(c, through) \in Cursors
         /\ EnterResyncThrough(c, through).last >= c.last
         /\ EnterResync(c) \in Cursors
  BY DEF Cursors, EnterResyncThrough, EnterResync

(* Nothing is left to publish, the replay cursor is no earlier, and the group *)
(* is closed.                                                                *)
LEMMA AbandonOrder ==
  ASSUME HostOrder, NEW l \in Nat, NEW gs, Track(gs, pub.replay.last), Grown(gs),
         Abandon(l, gs), UNCHANGED <<encoder, gop>>
  PROVE  HostOrder' /\ Advances
<1> USE DEF HostOrder
<1>1. /\ pub.replay \in Cursors /\ pub.through \in Nat /\ pub.failed \in BOOLEAN /\ PubOK
      /\ pub.replay.last \in Nat
  BY PubFields
<1> DEFINE replay == EnterResyncThrough(pub.replay, pub.through)
           cursor == [last |-> l, waiting |-> TRUE, disc |-> TRUE]
<1>2. replay \in Cursors /\ replay.last \in Nat /\ replay.last >= pub.replay.last
  BY <1>1, ResyncLater DEF Cursors
<1>3. cursor \in Cursors
  BY DEF Cursors
<1>4. /\ pub' = [pub EXCEPT !.replay = replay, !.cursor = cursor, !.work = <<>>]
      /\ groups' = Aborted(gs)
  BY DEF Abandon
<1> HIDE DEF replay, cursor
<1>5. pub' = [ replay |-> replay, cursor |-> cursor, work |-> <<>>,
               through |-> pub.through, failed |-> pub.failed ]
  BY <1>1, <1>4, PubUpdate
<1>6. HostTypes' /\ pub'.replay = replay /\ pub'.work = <<>>
  BY <1>1, <1>2, <1>3, <1>5 DEF HostTypes
<1>7. SourceInv'
  BY <1>6 DEF SourceInv, Ascending
<1>8. TrackInv'
  <2>1. Track(groups', pub.replay.last)
        /\ (groups' # <<>> => ~groups'[Len(groups')].open)
    BY <1>1, <1>4, AbortedOrder
  <2>2. Track(groups', replay.last)
    BY <1>1, <1>2, <2>1, TrackLater
  <2> QED BY <1>6, <2>1, <2>2 DEF TrackInv, CurrentGroupOpen
<1>9. Grown(groups')
  <2>1. /\ DOMAIN groups' = DOMAIN gs /\ Len(groups') = Len(gs)
        /\ \A g \in DOMAIN gs : groups'[g].objects = gs[g].objects
    BY <1>1, <1>4, AbortedOrder
  <2> QED BY <2>1 DEF Grown
<1> QED BY <1>2, <1>6, <1>7, <1>8, <1>9 DEF Advances

LEMMA WorkHead ==
  ASSUME HostOrder, pub.work # <<>>
  PROVE  /\ Head(pub.work) \in Frames /\ Head(pub.work).seq \in Nat
         /\ Head(pub.work).seq > pub.replay.last
         /\ Tail(pub.work) \in Seq(Frames) /\ Ascending(Tail(pub.work))
         /\ \A i \in DOMAIN Tail(pub.work) : Tail(pub.work)[i].seq > Head(pub.work).seq
<1> DEFINE w == pub.work
<1>1. w \in Seq(Frames) /\ w # <<>>
  BY PubFields DEF HostOrder
<1>2. Ascending(w) /\ \A i \in DOMAIN w : w[i].seq > pub.replay.last
  BY DEF HostOrder, SourceInv
<1> HIDE DEF w
<1>3. /\ Head(w) = w[1] /\ 1 \in DOMAIN w /\ w[1] \in Frames /\ Tail(w) \in Seq(Frames)
      /\ \A i \in DOMAIN Tail(w) : Tail(w)[i] = w[i + 1] /\ i + 1 \in DOMAIN w /\ 1 < i + 1
      /\ \A i, j \in DOMAIN Tail(w) : i < j => i + 1 < j + 1
  BY <1>1
<1>4. Ascending(Tail(w))
  <2> SUFFICES ASSUME NEW i \in DOMAIN Tail(w), NEW j \in DOMAIN Tail(w), i < j
               PROVE  Tail(w)[i].seq < Tail(w)[j].seq
    BY DEF Ascending
  <2> QED BY <1>2, <1>3 DEF Ascending
<1>5. \A i \in DOMAIN Tail(w) : Tail(w)[i].seq > Head(w).seq
  <2> TAKE i \in DOMAIN Tail(w)
  <2>1. w[1].seq < w[i + 1].seq
    BY <1>2, <1>3 DEF Ascending
  <2>2. w[1].seq \in Nat /\ w[i + 1].seq \in Nat
    BY <1>1, <1>3, FrameFields
  <2> QED BY <1>3, <2>1, <2>2
<1> QED BY <1>2, <1>3, <1>4, <1>5, FrameFields DEF w

LEMMA SameTrackGrows ==
  ASSUME HostOrder
  PROVE  Grown(groups)
<1>1. groups \in Seq(Groups)
  BY DEF HostOrder, TrackInv, Track
<1> QED BY <1>1 DEF Grown

LEMMA SentIsCursor ==
  ASSUME NEW f \in Frames
  PROVE  Sent(f) \in Cursors /\ Sent(f).last = f.seq
  BY FrameFields DEF Sent, Cursors

(* A frame of the publisher's copy is published: the rest of the copy follows. *)
LEMMA PublishedOrder ==
  ASSUME HostOrder, pub.work # <<>>, NEW f, f = Head(pub.work), NEW c \in Cursors,
         pub' = [pub EXCEPT !.replay = Sent(f), !.cursor = c, !.work = Tail(pub.work)],
         UNCHANGED <<encoder, gop>>
  PROVE  HostTypes' /\ SourceInv' /\ pub'.replay.last = f.seq
<1> USE DEF HostOrder
<1>1. /\ f \in Frames /\ Tail(pub.work) \in Seq(Frames) /\ Ascending(Tail(pub.work))
      /\ \A i \in DOMAIN Tail(pub.work) : Tail(pub.work)[i].seq > f.seq
  BY WorkHead
<1>2. Sent(f) \in Cursors /\ Sent(f).last = f.seq
  BY <1>1, SentIsCursor
<1>3. PubOK /\ pub.through \in Nat /\ pub.failed \in BOOLEAN
  BY PubFields
<1>4. pub' = [ replay |-> Sent(f), cursor |-> c, work |-> Tail(pub.work),
               through |-> pub.through, failed |-> pub.failed ]
  BY <1>3, PubUpdate
<1>5. HostTypes' /\ pub'.replay = Sent(f) /\ pub'.work = Tail(pub.work)
  BY <1>1, <1>2, <1>3, <1>4 DEF HostTypes
<1>6. SourceInv'
  BY <1>1, <1>2, <1>5 DEF SourceInv
<1> QED BY <1>2, <1>5, <1>6

LEMMA IdrOrder ==
  ASSUME HostOrder, pub.work # <<>>, NEW f, f = Head(pub.work), f.kind = "idr",
         NEW disc, NEW cut, PublishIdr(f, disc, cut), UNCHANGED <<encoder, gop>>
  PROVE  HostOrder' /\ Advances
<1>1. /\ f \in Frames /\ f.seq \in Nat /\ f.seq > pub.replay.last
      /\ pub.replay.last \in Nat /\ pub.cursor.last \in Nat
  BY WorkHead, PubFields DEF HostOrder
<1>2. Track(groups, pub.replay.last) /\ Grown(groups) /\ groups \in Seq(Groups)
  BY SameTrackGrows DEF HostOrder, TrackInv, Track
<1>3. /\ Track(Aborted(groups), pub.replay.last)
      /\ DOMAIN Aborted(groups) = DOMAIN groups /\ Len(Aborted(groups)) = Len(groups)
      /\ \A g \in DOMAIN groups : Aborted(groups)[g].objects = groups[g].objects
  BY <1>1, <1>2, AbortedOrder
<1>4. CASE Abandon(pub.cursor.last, groups)
  BY <1>1, <1>2, <1>4, AbandonOrder
<1>5. CASE Abandon(f.seq, Append(Aborted(groups), [objects |-> <<>>, open |-> TRUE]))
  <2> DEFINE os == <<>>
             gs == Opened(Aborted(groups), os)
  <2>1. os \in Seq(Frames) /\ os = <<>>
    OBVIOUS
  <2> HIDE DEF os, gs
  <2>2. /\ Track(gs, pub.replay.last) /\ Len(gs) = Len(Aborted(groups)) + 1
        /\ gs[Len(gs)] = [objects |-> os, open |-> TRUE]
        /\ \A g \in DOMAIN Aborted(groups) : g \in DOMAIN gs /\ gs[g] = Aborted(groups)[g]
        /\ \A g \in DOMAIN gs : g \in DOMAIN Aborted(groups) \/ g = Len(Aborted(groups)) + 1
    <3>1. pub.replay.last <= pub.replay.last
      BY <1>1
    <3>2. MayOpen(Aborted(groups), os, pub.replay.last, pub.replay.last)
      BY <1>1, <1>3, <2>1, <3>1 DEF MayOpen
    <3>3. gs = Opened(Aborted(groups), os)
      BY DEF gs
    <3> HIDE DEF gs
    <3> QED BY <3>2, <3>3, OpenedOrder
  <2> HIDE DEF gs
  <2>3. Grown(gs)
    <3>1. Len(groups) <= Len(gs)
      BY <1>2, <1>3, <2>2
    <3>2. gs[Len(gs)].objects = <<>>
      BY <2>1, <2>2
    <3> QED BY <1>3, <2>2, <3>1, <3>2 DEF Grown
  <2>4. Abandon(f.seq, gs)
    BY <1>5 DEF gs, os, Opened
  <2> QED BY <1>1, <2>2, <2>3, <2>4, AbandonOrder
<1>6. ASSUME NEW mark,
             groups' = Append(Aborted(groups), [objects |-> <<[f EXCEPT !.disc = mark]>>,
                                                open |-> TRUE]),
             mark \in BOOLEAN,
             pub' = [pub EXCEPT !.replay = Sent(f), !.cursor = Sent(f), !.work = Tail(pub.work)]
      PROVE  HostOrder' /\ Advances
  <2> DEFINE object == [f EXCEPT !.disc = mark]
             os == <<object>>
             gs == Opened(Aborted(groups), os)
  <2>1. object \in Frames /\ object.seq = f.seq /\ object.kind = "idr"
    BY <1>1, <1>6 DEF Frames
  <2> HIDE DEF object
  <2>2. /\ os \in Seq(Frames) /\ os # <<>> /\ DOMAIN os = {1} /\ os[1] = object
        /\ \E o \in Frames : os = <<o>> /\ o.kind = "idr" /\ pub.replay.last < o.seq
                              /\ o.seq <= f.seq
    BY <1>1, <2>1
  <2> HIDE DEF os
  <2>3. /\ Track(gs, f.seq) /\ Len(gs) = Len(Aborted(groups)) + 1
        /\ gs[Len(gs)] = [objects |-> os, open |-> TRUE]
        /\ \A g \in DOMAIN Aborted(groups) : g \in DOMAIN gs /\ gs[g] = Aborted(groups)[g]
        /\ \A g \in DOMAIN gs : g \in DOMAIN Aborted(groups) \/ g = Len(Aborted(groups)) + 1
    <3>1. pub.replay.last <= f.seq
      BY <1>1
    <3>2. MayOpen(Aborted(groups), os, pub.replay.last, f.seq)
      BY <1>1, <1>3, <2>2, <3>1 DEF MayOpen
    <3>3. gs = Opened(Aborted(groups), os)
      BY DEF gs
    <3> HIDE DEF gs
    <3> QED BY <3>2, <3>3, OpenedOrder
  <2>4. groups' = gs
    BY <1>6 DEF gs, os, object, Opened
  <2> HIDE DEF gs
  <2>5. gs[Len(gs)].objects = os
    BY <2>3
  <2>6. Grown(gs)
    <3>1. Len(groups) <= Len(gs)
      BY <1>2, <1>3, <2>3
    <3> QED BY <1>1, <1>3, <2>1, <2>2, <2>3, <2>5, <3>1 DEF Grown
  <2>7. Sent(f) \in Cursors
    BY <1>1, SentIsCursor
  <2>8. HostTypes' /\ SourceInv' /\ pub'.replay.last = f.seq
    BY <1>6, <2>7, PublishedOrder
  <2>9. TrackInv'
    BY <2>2, <2>3, <2>4, <2>5, <2>8 DEF TrackInv
  <2> QED BY <1>1, <2>4, <2>6, <2>8, <2>9 DEF HostOrder, Advances
<1>7. ASSUME NEW mark,
             groups' = Append(Aborted(groups), [objects |-> <<[f EXCEPT !.disc = mark]>>,
                                                open |-> TRUE]),
             mark = (f.disc \/ disc \/ pub.cursor.disc
                      \/ (pub.cursor.last # 0 /\ pub.cursor.last + 1 # f.seq)),
             pub' = [pub EXCEPT !.replay = Sent(f), !.cursor = Sent(f), !.work = Tail(pub.work)]
      PROVE  HostOrder' /\ Advances
  BY <1>6, <1>7
<1> QED BY <1>4, <1>5, <1>7 DEF PublishIdr

LEMMA DependentOrder ==
  ASSUME HostOrder, pub.work # <<>>, NEW f, f = Head(pub.work),
         NEW disc, NEW cut, PublishDependent(f, disc, cut), UNCHANGED <<encoder, gop>>
  PROVE  HostOrder' /\ Advances
<1>1. /\ f \in Frames /\ f.seq \in Nat /\ f.seq > pub.replay.last
      /\ pub.replay \in Cursors /\ pub.cursor \in Cursors /\ pub.through \in Nat
      /\ pub.work \in Seq(Frames) /\ pub.failed \in BOOLEAN
      /\ pub.replay.last \in Nat /\ pub.cursor.last \in Nat /\ pub.cursor.disc \in BOOLEAN
  BY WorkHead, PubFields DEF HostOrder
<1>2. Track(groups, pub.replay.last) /\ Grown(groups) /\ groups \in Seq(Groups)
  BY SameTrackGrows DEF HostOrder, TrackInv, Track
<1>3. CASE Abandon(pub.cursor.last, groups) \/ Abandon(f.seq, groups)
  BY <1>1, <1>2, <1>3, AbandonOrder
<1>4. CASE /\ pub' = [pub EXCEPT !.replay = EnterResyncThrough(pub.replay, pub.through),
                                 !.work = <<>>]
           /\ UNCHANGED groups
  <2> DEFINE replay == EnterResyncThrough(pub.replay, pub.through)
  <2>1. replay \in Cursors /\ replay.last \in Nat /\ replay.last >= pub.replay.last
    BY <1>1, ResyncLater DEF Cursors
  <2> HIDE DEF replay
  <2>2. pub' = [ replay |-> replay, cursor |-> pub.cursor, work |-> <<>>,
                 through |-> pub.through, failed |-> pub.failed ]
    BY <1>4 DEF HostOrder, HostTypes, replay
  <2>3. HostTypes' /\ pub'.replay = replay /\ pub'.work = <<>>
    BY <1>1, <2>1, <2>2 DEF HostOrder, HostTypes
  <2>4. SourceInv'
    BY <2>3 DEF SourceInv, HostOrder, Ascending
  <2>5. Track(groups, replay.last)
    BY <1>1, <1>2, <2>1, TrackLater
  <2>6. TrackInv'
    BY <1>4, <2>3, <2>5 DEF TrackInv, HostOrder, CurrentGroupOpen
  <2> QED BY <1>2, <1>4, <2>1, <2>3, <2>4, <2>6 DEF HostOrder, Advances, Grown
<1>5. CASE pub' = [pub EXCEPT !.failed = TRUE] /\ UNCHANGED groups
  <2>1. pub' = [ replay |-> pub.replay, cursor |-> pub.cursor, work |-> pub.work,
                 through |-> pub.through, failed |-> TRUE ]
    BY <1>5 DEF HostOrder, HostTypes
  <2>2. HostTypes' /\ pub'.replay = pub.replay /\ pub'.work = pub.work
    BY <1>1, <2>1 DEF HostOrder, HostTypes
  <2>3. SourceInv' /\ TrackInv'
    BY <1>5, <2>2 DEF HostOrder, SourceInv, TrackInv, CurrentGroupOpen
  <2> QED BY <1>1, <1>2, <1>5, <2>2, <2>3 DEF HostOrder, Advances, Grown
<1>6. ASSUME NEW mark \in BOOLEAN, CurrentGroupOpen, f.kind = "delta",
             groups' = [groups EXCEPT ![Len(groups)] =
               [objects |-> Append(groups[Len(groups)].objects, [f EXCEPT !.disc = mark]),
                open |-> TRUE]],
             pub' = [pub EXCEPT !.replay = Sent(f), !.work = Tail(pub.work),
               !.cursor = [last |-> f.seq, waiting |-> FALSE, disc |-> pub.cursor.disc]]
      PROVE  HostOrder' /\ Advances
  <2>1. PICK object \in Frames : /\ object = [f EXCEPT !.disc = mark]
                                 /\ object.seq = f.seq /\ object.kind = f.kind
    <3>1. /\ [f EXCEPT !.disc = mark] \in Frames
          /\ [f EXCEPT !.disc = mark].seq = f.seq /\ [f EXCEPT !.disc = mark].kind = f.kind
      BY <1>1 DEF Frames
    <3> QED BY <3>1
  <2>2. groups # <<>> /\ groups[Len(groups)].objects # <<>>
    BY <1>6 DEF HostOrder, TrackInv, CurrentGroupOpen
  <2>3. groups' = Extended(groups, object)
    BY <1>6, <2>1 DEF Extended
  <2>4. pub.replay.last < object.seq
    BY <1>1, <2>1
  <2>5. /\ Track(groups', object.seq) /\ DOMAIN groups' = DOMAIN groups
        /\ Len(groups') = Len(groups) /\ groups'[Len(groups')].objects # <<>>
        /\ \A g \in DOMAIN groups : \A i \in DOMAIN groups'[g].objects :
              \/ i \in DOMAIN groups[g].objects /\ groups'[g].objects[i] = groups[g].objects[i]
              \/ groups'[g].objects[i] = object
    BY <1>1, <1>2, <2>2, <2>3, <2>4, ExtendedOrder
  <2>6. Grown(groups')
    <3>1. Len(groups) \in Nat
      BY <1>2
    <3>2. Len(groups) <= Len(groups')
      BY <2>5, <3>1
    <3>3. \A g \in DOMAIN groups' : \A i \in DOMAIN groups'[g].objects :
            \/ /\ g \in DOMAIN groups /\ i \in DOMAIN groups[g].objects
               /\ groups'[g].objects[i] = groups[g].objects[i]
            \/ groups'[g].objects[i].seq > pub.replay.last /\ groups'[g].objects[i].kind # "odd"
      <4>1. object.seq > pub.replay.last /\ object.kind # "odd"
        BY <1>1, <1>6, <2>1
      <4> QED BY <2>5, <4>1, Zenon
    <3> QED BY <3>2, <3>3, Zenon DEF Grown
  <2> DEFINE c == [last |-> f.seq, waiting |-> FALSE, disc |-> pub.cursor.disc]
  <2>7. c \in Cursors
    BY <1>1 DEF Cursors
  <2>8. pub' = [pub EXCEPT !.replay = Sent(f), !.cursor = c, !.work = Tail(pub.work)]
    BY <1>6 DEF HostOrder, HostTypes
  <2> HIDE DEF c
  <2>9. HostTypes' /\ SourceInv' /\ pub'.replay.last = f.seq
    BY <2>7, <2>8, PublishedOrder
  <2>10. TrackInv'
    BY <2>1, <2>5, <2>9 DEF TrackInv
  <2> QED BY <1>1, <2>6, <2>9, <2>10 DEF HostOrder, Advances
<1>7. ASSUME NEW mark, mark = (f.disc \/ disc), CurrentGroupOpen, f.kind = "delta",
             groups' = [groups EXCEPT ![Len(groups)] =
               [objects |-> Append(@.objects, [f EXCEPT !.disc = mark]), open |-> TRUE]],
             pub' = [pub EXCEPT !.replay = Sent(f), !.work = Tail(pub.work),
               !.cursor = [last |-> f.seq, waiting |-> FALSE, disc |-> pub.cursor.disc]]
      PROVE  HostOrder' /\ Advances
  <2>1. Len(groups) \in DOMAIN groups
    BY <1>2, <1>7 DEF CurrentGroupOpen
  <2>2. groups' = [groups EXCEPT ![Len(groups)] =
               [objects |-> Append(groups[Len(groups)].objects, [f EXCEPT !.disc = mark]),
                open |-> TRUE]]
    BY <1>7, <2>1
  <2>3. mark \in BOOLEAN
    BY <1>7
  <2> QED BY <1>6, <1>7, <2>2, <2>3
<1> QED BY <1>3, <1>4, <1>5, <1>7 DEF PublishDependent

(* A frame of the copy is dealt with, whatever becomes of it. *)
LEMMA FrameOrder ==
  ASSUME HostOrder, NEW cut, PublishFrame(cut)
  PROVE  HostOrder' /\ Advances
<1> DEFINE f == Head(pub.work)
           gap == pub.replay.last # 0 /\ pub.replay.last + 1 # f.seq
           disc == pub.replay.disc \/ gap
<1>1. pub.work # <<>> /\ UNCHANGED <<encoder, gop>>
  BY DEF PublishFrame
<1>2. \/ Abandon(pub.cursor.last, groups)
      \/ f.kind = "idr" /\ PublishIdr(f, disc, cut)
      \/ PublishDependent(f, disc, cut)
  BY DEF PublishFrame
<1> HIDE DEF f, disc
<1>3. f = Head(pub.work)
  BY DEF f
<1>4. CASE Abandon(pub.cursor.last, groups)
  <2>1. pub.cursor.last \in Nat
    BY PubFields DEF HostOrder
  <2>2. Track(groups, pub.replay.last) /\ Grown(groups)
    BY SameTrackGrows DEF HostOrder, TrackInv
  <2> QED BY <1>1, <1>4, <2>1, <2>2, AbandonOrder
<1>5. CASE f.kind = "idr" /\ PublishIdr(f, disc, cut)
  BY <1>1, <1>3, <1>5, IdrOrder
<1>6. CASE PublishDependent(f, disc, cut)
  BY <1>1, <1>3, <1>6, DependentOrder
<1> QED BY <1>2, <1>4, <1>5, <1>6

(* A request is served between two copies: what the replay cursor skips was  *)
(* never sent.                                                               *)
LEMMA RequestOrder ==
  ASSUME HostOrder, ServeRequest
  PROVE  HostOrder' /\ Advances
<1> USE DEF HostOrder
<1>1. /\ pub.replay \in Cursors /\ pub.cursor \in Cursors /\ pub.work = <<>>
      /\ pub.through \in Nat /\ pub.failed \in BOOLEAN /\ PubOK /\ pub.replay.last \in Nat
  BY PubFields DEF ServeRequest, Idle
<1>2. Track(groups, pub.replay.last) /\ Grown(groups) /\ groups \in Seq(Groups)
  BY SameTrackGrows DEF TrackInv, Track
<1>3. UNCHANGED <<encoder, gop>>
  BY DEF ServeRequest
<1>4. CASE UNCHANGED <<pub, groups>>
  BY <1>1, <1>2, <1>3, <1>4
     DEF HostTypes, SourceInv, TrackInv, CurrentGroupOpen, Advances, Grown
<1>5. CASE request.reason # "join"
  <2> DEFINE newest == IF gop.frames = <<>> THEN 0 ELSE gop.frames[Len(gop.frames)].seq
             replay == EnterResyncThrough(pub.replay, newest)
             cursor == EnterResync(pub.cursor)
  <2>1. newest \in Nat
    <3>1. gop.frames \in Seq(Frames)
      BY DEF HostTypes
    <3>2. gop.frames # <<>> => gop.frames[Len(gop.frames)] \in Frames
      BY <3>1
    <3> QED BY <3>2, FrameFields
  <2>2. /\ pub' = [pub EXCEPT !.replay = replay, !.cursor = cursor]
        /\ groups' = Aborted(groups)
    BY <1>1, <1>5 DEF ServeRequest, PubOK
  <2> HIDE DEF newest
  <2>3. replay \in Cursors /\ replay.last \in Nat /\ replay.last >= pub.replay.last
        /\ cursor \in Cursors
    BY <1>1, <2>1, ResyncLater DEF Cursors
  <2> HIDE DEF replay, cursor
  <2>4. pub' = [ replay |-> replay, cursor |-> cursor, work |-> <<>>,
                 through |-> pub.through, failed |-> pub.failed ]
    BY <1>1, <2>2 DEF HostTypes
  <2>5. HostTypes' /\ pub'.replay = replay /\ pub'.work = <<>>
    BY <1>1, <1>3, <2>3, <2>4 DEF HostTypes
  <2>6. SourceInv'
    BY <1>3, <2>5 DEF SourceInv, Ascending
  <2>7. /\ Track(groups', pub.replay.last) /\ DOMAIN groups' = DOMAIN groups
        /\ Len(groups') = Len(groups)
        /\ \A g \in DOMAIN groups : groups'[g].objects = groups[g].objects
        /\ groups' # <<>> => ~groups'[Len(groups')].open
    BY <1>1, <1>2, <2>2, AbortedOrder
  <2>8. Track(groups', replay.last)
    BY <1>1, <2>3, <2>7, TrackLater
  <2>9. TrackInv'
    BY <2>5, <2>7, <2>8 DEF TrackInv, CurrentGroupOpen
  <2>10. Grown(groups')
    BY <1>2, <2>7 DEF Grown
  <2> QED BY <2>3, <2>5, <2>6, <2>9, <2>10 DEF Advances
<1> QED BY <1>4, <1>5 DEF ServeRequest

(* The publisher takes its copy: only what its replay cursor has not passed. *)
LEMMA CopyOrder ==
  ASSUME HostOrder, ServeGop
  PROVE  HostOrder' /\ Advances
<1> USE DEF HostOrder
<1>1. /\ PubOK /\ pub.replay.last \in Nat /\ pub.replay \in Cursors /\ pub.cursor \in Cursors
      /\ pub.through \in Nat /\ pub.failed \in BOOLEAN /\ pub.work \in Seq(Frames)
      /\ gop.frames \in Seq(Frames) /\ gop.changed \in BOOLEAN /\ Ascending(gop.frames)
  BY PubFields DEF HostTypes, SourceInv
<1>2. UNCHANGED <<encoder, groups>> /\ gop' = [frames |-> gop.frames, changed |-> FALSE]
  BY DEF ServeGop, HostTypes
<1> DEFINE new == NewFrames(gop.frames, pub.replay.last)
<1>3. new \in Seq(Frames) /\ Ascending(new)
      /\ \A i \in DOMAIN new : new[i].seq > pub.replay.last
  BY <1>1, NewFramesAreNew
<1> HIDE DEF new
<1>4. PICK work, through :
        /\ pub' = [ replay |-> pub.replay, cursor |-> pub.cursor, work |-> work,
                    through |-> through, failed |-> pub.failed ]
        /\ work \in Seq(Frames) /\ through \in Nat /\ Ascending(work)
        /\ \A i \in DOMAIN work : work[i].seq > pub.replay.last
  <2>1. CASE gop.frames = <<>>
    <3>1. pub' = pub
      BY <2>1 DEF ServeGop
    <3>2. pub' = [ replay |-> pub.replay, cursor |-> pub.cursor, work |-> pub.work,
                   through |-> pub.through, failed |-> pub.failed ]
      BY <3>1 DEF HostTypes
    <3>3. Ascending(pub.work) /\ \A i \in DOMAIN pub.work : pub.work[i].seq > pub.replay.last
      BY DEF SourceInv
    <3> QED BY <1>1, <3>2, <3>3
  <2>2. CASE gop.frames # <<>>
    <3> DEFINE through == gop.frames[Len(gop.frames)].seq
    <3>1. through \in Nat
      <4>1. gop.frames[Len(gop.frames)] \in Frames
        BY <1>1, <2>2
      <4> QED BY <4>1, FrameFields
    <3>2. pub' = [pub EXCEPT !.work = new, !.through = through]
      BY <2>2 DEF ServeGop, new
    <3> HIDE DEF through
    <3>3. pub' = [ replay |-> pub.replay, cursor |-> pub.cursor, work |-> new,
                   through |-> through, failed |-> pub.failed ]
      BY <3>2 DEF HostTypes
    <3> QED BY <1>3, <3>1, <3>3
  <2> QED BY <2>1, <2>2
<1>5. HostTypes' /\ pub'.replay = pub.replay /\ pub'.work = work /\ gop'.frames = gop.frames
  BY <1>1, <1>2, <1>4 DEF HostTypes
<1>6. SourceInv'
  BY <1>2, <1>4, <1>5 DEF SourceInv
<1>7. TrackInv' /\ Advances
  BY <1>1, <1>2, <1>5, SameTrackGrows DEF TrackInv, CurrentGroupOpen, Advances, Grown
<1> QED BY <1>5, <1>6, <1>7

(* The encoder's newest frame is newer than what the watch holds. *)
LEMMA EmitOrder ==
  ASSUME HostOrder, NEW kind \in Kinds, EmitFrame(kind)
  PROVE  HostOrder' /\ Advances
<1> USE DEF HostOrder
<1>1. UNCHANGED <<pub, groups>>
  BY DEF EmitFrame
<1> DEFINE frame == [ seq |-> encoder.next, kind |-> kind,
                      format |-> encoder.format, disc |-> encoder.resizing ]
<1>2. /\ encoder.next \in Nat \ {0} /\ encoder.format \in Nat /\ encoder.resizing \in BOOLEAN
      /\ gop.frames \in Seq(Frames) /\ gop.changed \in BOOLEAN
  BY DEF HostTypes
<1>3. frame \in Frames /\ frame.seq = encoder.next
  BY <1>2, PublisherChoices DEF Frames
<1>4. gop' = UpdateCurrentGop(frame)
  BY DEF EmitFrame
<1> HIDE DEF frame
<1>5. encoder' = [next |-> encoder.next + 1, format |-> encoder.format, resizing |-> FALSE]
  BY DEF EmitFrame, HostTypes
<1>7. /\ gop' \in [frames : Seq(Frames), changed : BOOLEAN] /\ Ascending(gop'.frames)
      /\ \A i \in DOMAIN gop'.frames : gop'.frames[i].seq <= encoder.next
  <2>1. CASE gop' = [frames |-> <<>>, changed |-> TRUE]
    BY <2>1 DEF Ascending
  <2>2. CASE gop' = [frames |-> <<frame>>, changed |-> TRUE]
    BY <1>2, <1>3, <2>2 DEF Ascending
  <2>3. CASE gop' = gop
    BY <1>2, <2>3, FrameFields DEF HostTypes, SourceInv
  <2>4. CASE gop' = [frames |-> Append(gop.frames, frame), changed |-> TRUE]
    <3> DEFINE fs == gop.frames
    <3>1. /\ fs \in Seq(Frames) /\ Ascending(fs)
          /\ \A i \in DOMAIN fs : fs[i].seq < encoder.next
      BY <1>2 DEF SourceInv
    <3>2. gop' = [frames |-> Append(fs, frame), changed |-> TRUE]
      BY <2>4
    <3> HIDE DEF fs
    <3>3. /\ Append(fs, frame) \in Seq(Frames)
          /\ \A i \in DOMAIN Append(fs, frame) :
               \/ i \in DOMAIN fs /\ Append(fs, frame)[i] = fs[i]
               \/ i = Len(fs) + 1 /\ Append(fs, frame)[i] = frame
          /\ Len(fs) \in Nat /\ DOMAIN fs = 1..Len(fs)
      BY <1>3, <3>1
    <3>4. Ascending(Append(fs, frame))
      BY <1>2, <1>3, <3>1, <3>3 DEF Ascending
    <3>5. \A i \in DOMAIN Append(fs, frame) : Append(fs, frame)[i].seq <= encoder.next
      <4>1. \A i \in DOMAIN fs : fs[i].seq <= encoder.next
        <5>1. \A i \in DOMAIN fs : fs[i].seq \in Nat
          BY <3>1, FrameFields
        <5> QED BY <1>2, <3>1, <5>1
      <4> QED BY <1>2, <1>3, <3>3, <4>1
    <3> QED BY <3>2, <3>3, <3>4, <3>5
  <2> QED BY <1>4, <2>1, <2>2, <2>3, <2>4 DEF UpdateCurrentGop
<1>8. \A i \in DOMAIN gop'.frames : gop'.frames[i].seq < encoder'.next
  <2>1. gop'.frames \in Seq(Frames)
    BY <1>7
  <2>2. \A i \in DOMAIN gop'.frames : gop'.frames[i].seq \in Nat
    BY <2>1, FrameFields
  <2> QED BY <1>2, <1>5, <1>7, <2>2
<1>9. HostTypes'
  BY <1>1, <1>2, <1>5, <1>7 DEF HostTypes
<1>10. SourceInv'
  BY <1>1, <1>7, <1>8 DEF SourceInv
<1> QED BY <1>1, <1>9, <1>10, SameTrackGrows, PubFields
        DEF TrackInv, CurrentGroupOpen, Advances, Grown

(* Every step of the host, and every step of the Portal, which leaves these  *)
(* parts of the host alone.                                                  *)
LEMMA HostStep ==
  ASSUME HostOrder, HostNext
  PROVE  HostOrder' /\ Advances
<1>1. CASE UNCHANGED <<encoder, gop, pub, groups>>
  BY <1>1, SameTrackGrows, PubFields
     DEF HostOrder, HostTypes, SourceInv, TrackInv, CurrentGroupOpen, Advances, Grown
<1>2. CASE ApplyResolution
  <2>1. /\ encoder' = [next |-> encoder.next, format |-> encoder.format + 1, resizing |-> TRUE]
        /\ gop' = [frames |-> <<>>, changed |-> TRUE] /\ UNCHANGED <<pub, groups>>
        /\ encoder.next \in Nat \ {0} /\ encoder.format \in Nat
    BY <1>2 DEF ApplyResolution, HostOrder, HostTypes
  <2>2. HostTypes' /\ SourceInv'
    BY <2>1 DEF HostOrder, HostTypes, SourceInv, Ascending
  <2> QED BY <2>1, <2>2, SameTrackGrows, PubFields
          DEF HostOrder, TrackInv, CurrentGroupOpen, Advances, Grown
<1>3. CASE \E kind \in Kinds : EmitFrame(kind)
  BY <1>3, EmitOrder
<1>4. CASE ServeRequest
  BY <1>4, RequestOrder
<1>5. CASE ServeGop
  BY <1>5, CopyOrder
<1>6. CASE \E cut \in CutReasons \cup {"none"} : PublishFrame(cut)
  BY <1>6, FrameOrder
<1> QED BY <1>1, <1>2, <1>3, <1>4, <1>5, <1>6
        DEF HostNext, ApplyForcedKeyframe, ForcedIdrTimesOut, CompleteForcedIdr, OtherViewerAsks

-----------------------------------------------------------------------------
(* The Portal keeps the order.                                             *)

(* The frames of the groups, seen from the receiver. *)
LEMMA TrackFrames ==
  ASSUME HostOrder
  PROVE  /\ groups \in Seq(Groups) /\ Len(groups) \in Nat /\ DOMAIN groups = 1..Len(groups)
         /\ pub.replay.last \in Nat
         /\ \A g \in DOMAIN groups : \A i \in DOMAIN groups[g].objects :
              /\ groups[g].objects[i] \in Frames
              /\ groups[g].objects[i].seq \in Nat /\ groups[g].objects[i].seq >= 1
              /\ groups[g].objects[i].seq <= pub.replay.last
<1>1. Track(groups, pub.replay.last) /\ groups \in Seq(Groups)
  BY DEF HostOrder, TrackInv, Track
<1>2. \A g \in DOMAIN groups : \A i \in DOMAIN groups[g].objects :
        groups[g].objects[i] \in Frames
  BY <1>1, ObjectsAreFrames
<1>3. \A g \in DOMAIN groups : \A i \in DOMAIN groups[g].objects :
        groups[g].objects[i].seq \in Nat /\ groups[g].objects[i].seq >= 1
  BY <1>2, FrameFields
<1> QED BY <1>1, <1>2, <1>3, PubFields DEF HostOrder, Track

(* Whatever the host does, the receiver has seen nothing newer. *)
LEMMA HostKeepsPortal ==
  ASSUME HostOrder, HostOrder', Advances, PortalOrder, UNCHANGED <<rx, task, delivery>>
  PROVE  PortalOrder'
<1>1. /\ rx \in Receivers /\ rx.last \in Nat /\ rx.group \in Nat
      /\ rx.group <= Len(groups) /\ rx.last <= pub.replay.last
      /\ \A g \in DOMAIN groups : g > Reached(rx) =>
           \A i \in DOMAIN groups[g].objects : groups[g].objects[i].seq > rx.last
  BY DEF PortalOrder, Receivers
<1>2. /\ Len(groups) \in Nat /\ Len(groups') \in Nat
      /\ pub.replay.last \in Nat /\ pub'.replay.last \in Nat
  <2>1. groups' \in Seq(Groups)
    BY DEF HostOrder, TrackInv, Track
  <2>2. pub'.replay \in Cursors
    BY DEF HostOrder, HostTypes
  <2> QED BY <2>1, <2>2, TrackFrames DEF Cursors
<1>3. rx.group <= Len(groups') /\ rx.last <= pub'.replay.last
  BY <1>1, <1>2 DEF Advances, Grown
<1>4. \A g \in DOMAIN groups' : g > Reached(rx) =>
        \A i \in DOMAIN groups'[g].objects : groups'[g].objects[i].seq > rx.last
  <2> SUFFICES ASSUME NEW g \in DOMAIN groups', g > Reached(rx),
                      NEW i \in DOMAIN groups'[g].objects
               PROVE  groups'[g].objects[i].seq > rx.last
    OBVIOUS
  <2>1. groups'[g].objects[i].seq \in Nat
    <3>1. groups' \in Seq(Groups)
      BY DEF HostOrder, TrackInv, Track
    <3> QED BY <3>1, ObjectsAreFrames
  <2>2. \/ /\ g \in DOMAIN groups /\ i \in DOMAIN groups[g].objects
           /\ groups'[g].objects[i] = groups[g].objects[i]
        \/ groups'[g].objects[i].seq > pub.replay.last
    BY DEF Advances, Grown
  <2> QED BY <1>1, <1>2, <2>1, <2>2
<1> QED BY <1>3, <1>4 DEF PortalOrder, Reached

(* The receiver gives a group up. *)
LEMMA LeaveOrder ==
  ASSUME HostOrder, PortalOrder, rx.group # 0, UNCHANGED <<groups, pub, task>>,
         NEW recovery \in {"none", "supersession", "gap"},
         rx' = [LeaveGroup(rx) EXCEPT !.recovery = recovery],
         UNCHANGED delivery \/ NoteDropped
  PROVE  PortalOrder'
<1>1. /\ rx \in Receivers /\ rx.group \in Nat /\ rx.pos \in Nat /\ rx.lastGroup \in Nat
      /\ rx.last \in Nat /\ rx.lastGroup < rx.group
  BY DEF PortalOrder, Receivers
<1>2. rx' = [ group |-> 0, pos |-> 0, gap |-> FALSE, replacement |-> FALSE,
              recovery |-> recovery, lastGroup |-> rx.group, last |-> rx.last,
              waiting |-> TRUE ]
  BY <1>1 DEF LeaveGroup, Receivers
<1>3. rx' \in Receivers /\ rx'.group = 0 /\ rx'.last = rx.last /\ Reached(rx') = rx.group
  <2>1. rx' \in Receivers
    <3>1. ASSUME NEW group \in Nat, NEW last \in Nat
          PROVE  [ group |-> 0, pos |-> 0, gap |-> FALSE, replacement |-> FALSE,
                   recovery |-> recovery, lastGroup |-> group, last |-> last,
                   waiting |-> TRUE ] \in Receivers
      BY DEF Receivers
    <3> QED BY <1>1, <1>2, <3>1
  <2>2. rx'.group = 0 /\ rx'.pos = 0 /\ rx'.last = rx.last /\ rx'.lastGroup = rx.group
    BY <1>2
  <2> QED BY <2>1, <2>2 DEF Reached
<1>4. delivery' = [ prev |-> rx'.last, waiting |-> delivery'.waiting,
                    inFlight |-> delivery'.inFlight ]
  BY <1>3 DEF PortalOrder, NoteDropped
<1>5. \A g \in DOMAIN groups : g > rx.group => g > Reached(rx)
  BY <1>1, TrackFrames DEF Reached
<1>6. 0 <= Len(groups)
  BY TrackFrames
<1> QED BY <1>3, <1>4, <1>5, <1>6 DEF PortalOrder

(* The next group: nothing of it has been read. *)
LEMMA NextGroupOrder ==
  ASSUME HostOrder, PortalOrder, NEW id \in 1..Len(groups), id > rx.lastGroup, NextGroup(id)
  PROVE  PortalOrder'
<1>1. /\ rx \in Receivers /\ rx.lastGroup \in Nat /\ rx.last \in Nat /\ rx.group = 0
      /\ rx.waiting \in BOOLEAN
  BY DEF PortalOrder, Receivers, NextGroup
<1>2. id \in Nat /\ id # 0 /\ id <= Len(groups)
  BY TrackFrames
<1>3. PICK gap \in BOOLEAN, replacement \in BOOLEAN, waiting \in BOOLEAN :
        rx' = [ group |-> id, pos |-> 0, gap |-> gap, replacement |-> replacement,
                recovery |-> "none", lastGroup |-> rx.lastGroup, last |-> rx.last,
                waiting |-> waiting ]
  <2> DEFINE gap == rx.lastGroup # 0 /\ rx.lastGroup + 1 # id
             replacement == rx.recovery # "none"
             waiting == rx.waiting \/ gap
  <2>1. gap \in BOOLEAN /\ replacement \in BOOLEAN /\ waiting \in BOOLEAN
    BY <1>1
  <2>2. rx' = [rx EXCEPT !.group = id, !.pos = 0, !.recovery = "none",
                         !.replacement = replacement, !.gap = gap, !.waiting = waiting]
    BY <1>1 DEF NextGroup, Receivers
  <2> HIDE DEF gap, replacement, waiting
  <2>3. rx' = [ group |-> id, pos |-> 0, gap |-> gap, replacement |-> replacement,
                recovery |-> "none", lastGroup |-> rx.lastGroup, last |-> rx.last,
                waiting |-> waiting ]
    BY <1>1, <2>2 DEF Receivers
  <2> QED BY <2>1, <2>3
<1>4. rx' \in Receivers /\ rx'.last = rx.last /\ Reached(rx') = Reached(rx)
      /\ rx'.group = id /\ rx'.lastGroup = rx.lastGroup
  BY <1>1, <1>2, <1>3 DEF Receivers, Reached
<1>5. UNCHANGED <<groups, pub, task, delivery>>
  BY DEF NextGroup, RxUnchanged, hostVars
<1> QED BY <1>1, <1>2, <1>4, <1>5 DEF PortalOrder

(* The first object of a group is an IDR, and every object is newer than what *)
(* was read before it: the receiver finds nothing to refuse in a group it has *)
(* just begun, and the delivery task nothing that it has seen.               *)
LEMMA ObjectRead ==
  ASSUME HostOrder, PortalOrder, ReadObject
  PROVE  \/ rx' = LeaveGroup(rx) /\ NoteDropped /\ UNCHANGED <<task, channel>>
         \/ \E frame \in Frames, mark \in BOOLEAN :
              /\ rx.pos + 1 \in DOMAIN groups[rx.group].objects
              /\ frame = groups[rx.group].objects[rx.pos + 1]
              /\ frame.seq > rx.last
              /\ IF rx.pos = 0 THEN frame.kind = "idr"
                 ELSE rx.last = 0 \/ rx.last + 1 = frame.seq
              /\ rx' = [rx EXCEPT !.pos = rx.pos + 1, !.last = frame.seq, !.waiting = FALSE]
              /\ Deliver([frame EXCEPT !.disc = mark])
<1>1. /\ rx \in Receivers /\ rx.group \in Nat /\ rx.pos \in Nat /\ rx.lastGroup \in Nat
      /\ rx.last \in Nat /\ rx.group # 0 /\ rx.lastGroup < rx.group
      /\ rx.group <= Len(groups)
  BY DEF PortalOrder, Receivers, ReadObject
<1>2. rx.group \in DOMAIN groups
  BY <1>1, TrackFrames
<1> DEFINE objects == groups[rx.group].objects
           frame == objects[rx.pos + 1]
           first == rx.pos = 0
           contiguous == rx.last = 0 \/ rx.last + 1 = frame.seq
           refused == IF first THEN frame.kind # "idr" ELSE ~contiguous
           marked == [frame EXCEPT !.disc =
                        @ \/ rx.waiting \/ (first /\ (rx.gap \/ ~contiguous))]
<1>3. objects \in Seq(Frames) /\ rx.pos + 1 \in DOMAIN objects
  <2>1. objects \in Seq(Frames)
    BY <1>2, TrackFrames, ObjectsAreFrames
  <2>2. rx.pos < Len(objects)
    BY DEF ReadObject
  <2> QED BY <1>1, <2>1, <2>2
<1>4. frame \in Frames /\ frame.seq \in Nat /\ frame.seq >= 1 /\ frame.seq <= pub.replay.last
  BY <1>2, <1>3, TrackFrames
<1>6. IF refused
      THEN IF first /\ ~rx.replacement
           THEN task' = "malformed"
           ELSE rx' = LeaveGroup(rx) /\ NoteDropped /\ UNCHANGED <<task, channel>>
      ELSE /\ rx' = [rx EXCEPT !.pos = rx.pos + 1, !.last = frame.seq, !.waiting = FALSE]
           /\ Deliver(marked)
  BY <1>1 DEF ReadObject, Receivers
<1>7. first => ~refused
  BY <1>2, <1>3 DEF HostOrder, TrackInv, Track
<1>8. ~refused => frame.seq > rx.last
  <2>1. CASE first
    <3>1. rx.group > Reached(rx)
      BY <1>1, <2>1 DEF Reached
    <3> QED BY <1>2, <1>3, <2>1, <3>1 DEF PortalOrder
  <2>2. CASE ~first
    BY <1>1, <1>4, <2>2
  <2> QED BY <2>1, <2>2
<1>9. PICK mark \in BOOLEAN : marked = [frame EXCEPT !.disc = mark]
  <2> DEFINE mark == frame.disc \/ rx.waiting \/ (first /\ (rx.gap \/ ~contiguous))
  <2>1. mark \in BOOLEAN /\ marked = [frame EXCEPT !.disc = mark]
    BY <1>4 DEF Frames
  <2> QED BY <2>1
<1>10. CASE refused
  BY <1>6, <1>7, <1>10
<1>11. CASE ~refused
  <2>1. Deliver([frame EXCEPT !.disc = mark])
        /\ rx' = [rx EXCEPT !.pos = rx.pos + 1, !.last = frame.seq, !.waiting = FALSE]
    BY <1>6, <1>9, <1>11
  <2>2. IF rx.pos = 0 THEN frame.kind = "idr" ELSE rx.last = 0 \/ rx.last + 1 = frame.seq
    BY <1>11
  <2> HIDE DEF marked, refused, first, contiguous
  <2> QED BY <1>3, <1>4, <1>8, <1>11, <2>1, <2>2
<1> QED BY <1>10, <1>11

(* Whatever the receiver reads, the delivery task has seen it too. *)
LEMMA ObjectOrder ==
  ASSUME HostOrder, PortalOrder, ReadObject
  PROVE  PortalOrder'
<1>1. /\ rx \in Receivers /\ rx.group \in Nat /\ rx.pos \in Nat /\ rx.lastGroup \in Nat
      /\ rx.last \in Nat /\ rx.group # 0 /\ rx.lastGroup < rx.group
      /\ rx.group <= Len(groups)
  BY DEF PortalOrder, Receivers, ReadObject
<1>2. rx.group \in DOMAIN groups
  BY <1>1, TrackFrames
<1>3. UNCHANGED <<groups, pub>>
  BY DEF ReadObject, hostVars
<1>4. CASE rx' = LeaveGroup(rx) /\ NoteDropped /\ UNCHANGED task
  <2>1. rx' = [LeaveGroup(rx) EXCEPT !.recovery = rx.recovery]
        /\ rx.recovery \in {"none", "supersession", "gap"}
    BY <1>1, <1>4 DEF LeaveGroup, Receivers
  <2> QED BY <1>1, <1>3, <1>4, <2>1, LeaveOrder
<1>5. ASSUME NEW frame \in Frames, NEW mark \in BOOLEAN,
              rx.pos + 1 \in DOMAIN groups[rx.group].objects,
              frame = groups[rx.group].objects[rx.pos + 1],
              frame.seq > rx.last,
              rx' = [rx EXCEPT !.pos = rx.pos + 1, !.last = frame.seq, !.waiting = FALSE],
              Deliver([frame EXCEPT !.disc = mark])
       PROVE  PortalOrder'
  <2> DEFINE marked == [frame EXCEPT !.disc = mark]
  <2>1. /\ marked.seq = frame.seq /\ frame.seq \in Nat
        /\ frame.seq <= pub.replay.last
    BY <1>2, <1>5, TrackFrames DEF Frames
  <2>2. delivery.prev = rx.last
    BY DEF PortalOrder
  <2>3. Deliver(marked)
    BY <1>5
  <2>4. \A g \in DOMAIN groups : g > rx.group =>
          \A i \in DOMAIN groups[g].objects : groups[g].objects[i].seq > frame.seq
    <3> SUFFICES ASSUME NEW g \in DOMAIN groups, g > rx.group,
                        NEW i \in DOMAIN groups[g].objects
                 PROVE  groups[g].objects[i].seq > frame.seq
      OBVIOUS
    <3>1. groups[g].objects[i].seq \in Nat /\ g \in Nat
      BY TrackFrames
    <3>2. frame.seq < groups[g].objects[i].seq
      BY <1>1, <1>2, <1>5, <3>1 DEF HostOrder, TrackInv, Track
    <3> QED BY <2>1, <3>1, <3>2
  <2> HIDE DEF marked
  <2>5. rx' = [ group |-> rx.group, pos |-> rx.pos + 1, gap |-> rx.gap,
                replacement |-> rx.replacement, recovery |-> rx.recovery,
                lastGroup |-> rx.lastGroup, last |-> frame.seq, waiting |-> FALSE ]
    BY <1>1, <1>5 DEF Receivers
  <2>6. rx' \in Receivers /\ rx'.last = frame.seq /\ rx'.group = rx.group
        /\ rx'.lastGroup = rx.lastGroup /\ Reached(rx') = rx.group
    BY <1>1, <2>1, <2>5 DEF Receivers, Reached
  <2>7. ~(marked.seq <= delivery.prev)
    BY <1>1, <1>5, <2>1, <2>2
  <2>8. UNCHANGED task
        /\ delivery' = [ prev |-> frame.seq, waiting |-> delivery'.waiting,
                         inFlight |-> delivery'.inFlight ]
    <3>1. UNCHANGED task
          /\ \/ delivery' = [delivery EXCEPT !.prev = marked.seq, !.waiting = TRUE]
             \/ delivery' = [ prev |-> marked.seq, waiting |-> FALSE,
                              inFlight |-> delivery.inFlight + 1 ]
      BY <2>3, <2>7 DEF Deliver
    <3>2. delivery = [ prev |-> rx.last, waiting |-> delivery.waiting,
                       inFlight |-> delivery.inFlight ]
      BY DEF PortalOrder
    <3>3. \/ delivery' = [ prev |-> marked.seq, waiting |-> TRUE,
                           inFlight |-> delivery.inFlight ]
          \/ delivery' = [ prev |-> marked.seq, waiting |-> FALSE,
                           inFlight |-> delivery.inFlight + 1 ]
      BY <3>1, <3>2
    <3> QED BY <2>1, <3>1, <3>3
  <2> QED BY <1>1, <1>3, <2>1, <2>4, <2>6, <2>8 DEF PortalOrder
<1> QED BY <1>4, <1>5, ObjectRead

(* The other steps of the Portal change nothing of it. *)
LEMMA PortalStep ==
  ASSUME HostOrder, PortalOrder, Next, ~(HostNext /\ UNCHANGED portalVars)
  PROVE  UNCHANGED <<encoder, gop, pub, groups>> /\ PortalOrder'
<1>1. UNCHANGED <<encoder, gop, pub, groups>>
  BY DEF Next, ReceiverStep, NextGroup, RecoveryTimeout, ReadFails, ReadTimeout, ReadObject,
         HandleFrame, DecoderError, Activate, AckArrives, Reconnect, RxUnchanged,
         PageUnchanged, hostVars
<1> SUFFICES PortalOrder'
  BY <1>1
<1>2. CASE \E id \in 1..Len(groups) : id > rx.lastGroup /\ NextGroup(id)
  BY <1>2, NextGroupOrder
<1>3. CASE RecoveryTimeout
  <2>1. /\ rx' = [ group |-> rx.group, pos |-> rx.pos, gap |-> rx.gap,
                   replacement |-> rx.replacement, recovery |-> "none",
                   lastGroup |-> rx.lastGroup, last |-> rx.last, waiting |-> rx.waiting ]
        /\ task' # "malformed"
    BY <1>3 DEF RecoveryTimeout, PortalOrder, Receivers, NoteDropped
  <2>2. delivery' = [ prev |-> rx.last, waiting |-> delivery'.waiting,
                      inFlight |-> delivery'.inFlight ]
    <3>1. delivery = [ prev |-> rx.last, waiting |-> delivery.waiting,
                       inFlight |-> delivery.inFlight ]
      BY DEF PortalOrder
    <3>2. delivery' = delivery \/ delivery' = [delivery EXCEPT !.waiting = TRUE]
      BY <1>3 DEF RecoveryTimeout, NoteDropped
    <3>3. \/ delivery' = delivery
          \/ delivery' = [ prev |-> rx.last, waiting |-> TRUE,
                           inFlight |-> delivery.inFlight ]
      BY <3>1, <3>2
    <3> QED BY <3>1, <3>3
  <2>3. rx' \in Receivers /\ Reached(rx') = Reached(rx) /\ rx'.last = rx.last
        /\ rx'.group = rx.group /\ rx'.lastGroup = rx.lastGroup
    BY <2>1 DEF PortalOrder, Receivers, Reached
  <2> QED BY <1>1, <2>1, <2>2, <2>3 DEF PortalOrder
<1>4. CASE \E recovery \in {"supersession", "gap"} : ReadFails(recovery)
  <2>1. PICK recovery \in {"supersession", "gap"} : ReadFails(recovery)
    BY <1>4
  <2>2. recovery \in {"none", "supersession", "gap"}
    OBVIOUS
  <2> QED BY <1>1, <2>1, <2>2, LeaveOrder DEF ReadFails
<1>5. CASE ReadTimeout
  <2>1. rx' = [LeaveGroup(rx) EXCEPT !.recovery = rx.recovery]
        /\ rx.recovery \in {"none", "supersession", "gap"}
    BY <1>5 DEF ReadTimeout, LeaveGroup, PortalOrder, Receivers
  <2> QED BY <1>1, <1>5, <2>1, LeaveOrder DEF ReadTimeout
<1>6. CASE ReadObject
  BY <1>6, ObjectOrder
<1>7. CASE UNCHANGED <<rx, task, delivery>>
  BY <1>1, <1>7 DEF PortalOrder
<1>8. CASE \E g \in DOMAIN acks : AckArrives(g)
  <2>1. UNCHANGED <<rx, task>>
        /\ delivery' = [ prev |-> delivery.prev, waiting |-> delivery.waiting,
                         inFlight |-> delivery'.inFlight ]
    BY <1>8 DEF AckArrives, PageUnchanged, PortalOrder
  <2> QED BY <1>1, <2>1 DEF PortalOrder
<1>9. CASE Reconnect
  <2>1. rx' = NewReceiver /\ task' = "running" /\ delivery' = NewDelivery
    BY <1>9 DEF Reconnect
  <2>2. /\ rx' \in Receivers /\ rx'.group = 0 /\ rx'.last = 0 /\ Reached(rx') = 0
        /\ delivery' = [ prev |-> 0, waiting |-> delivery'.waiting,
                         inFlight |-> delivery'.inFlight ]
    BY <2>1 DEF NewReceiver, NewDelivery, Receivers, Reached
  <2> QED BY <1>1, <2>1, <2>2, TrackFrames DEF PortalOrder
<1> QED BY <1>2, <1>3, <1>4, <1>5, <1>6, <1>7, <1>8, <1>9
        DEF Next, ReceiverStep, HandleFrame, DecoderError, Activate, PageUnchanged

(* The order of frames holds in every reachable state. *)
THEOREM OrderInvariant == Spec => []AcceptInv
<1>1. Init => AcceptInv
  <2> SUFFICES ASSUME Init PROVE AcceptInv
    OBVIOUS
  <2>1. HostTypes
    BY DEF Init, HostInit, HostTypes, Cursors, NewCursor
  <2>2. /\ gop.frames = <<>> /\ pub.work = <<>> /\ groups = <<>> /\ pub.replay.last = 0
        /\ rx = NewReceiver /\ task = "running" /\ delivery = NewDelivery
    BY DEF Init, HostInit, NewCursor
  <2>3. SourceInv
    BY <2>2 DEF SourceInv, Ascending
  <2>4. TrackInv
    BY <2>2 DEF TrackInv, Track, CurrentGroupOpen
  <2>5. PortalOrder
    BY <2>2 DEF PortalOrder, NewReceiver, NewDelivery, Receivers
  <2> QED BY <2>1, <2>3, <2>4, <2>5 DEF AcceptInv
<1>2. AcceptInv /\ [Next]_vars => AcceptInv'
  <2> SUFFICES ASSUME AcceptInv, [Next]_vars PROVE AcceptInv'
    OBVIOUS
  <2>1. HostOrder /\ PortalOrder
    BY DEF AcceptInv, HostOrder
  <2>2. CASE UNCHANGED vars
    BY <2>2 DEF vars, hostVars, portalVars, AcceptInv, HostTypes, SourceInv, TrackInv,
                CurrentGroupOpen, PortalOrder
  <2>3. CASE HostNext /\ UNCHANGED portalVars
    <3>1. HostOrder' /\ Advances
      BY <2>1, <2>3, HostStep
    <3>2. UNCHANGED <<rx, task, delivery>>
      BY <2>3 DEF portalVars
    <3> QED BY <2>1, <3>1, <3>2, HostKeepsPortal DEF AcceptInv, HostOrder
  <2>4. CASE Next /\ ~(HostNext /\ UNCHANGED portalVars)
    <3>1. UNCHANGED <<encoder, gop, pub, groups>> /\ PortalOrder'
      BY <2>1, <2>4, PortalStep
    <3>2. HostOrder'
      BY <2>1, <3>1 DEF HostOrder, HostTypes, SourceInv, TrackInv, CurrentGroupOpen
    <3> QED BY <3>1, <3>2 DEF AcceptInv, HostOrder
  <2> QED BY <2>2, <2>3, <2>4
<1> QED BY <1>1, <1>2, PTL DEF Spec

(* Whatever the network does and however many frames there are, the Portal   *)
(* takes nothing the host publishes for a malformed stream.                  *)
THEOREM HonestStreamIsAccepted == Spec => []PortalAccepts
<1>1. AcceptInv => PortalAccepts
  BY DEF AcceptInv, PortalOrder, PortalAccepts
<1> QED BY <1>1, OrderInvariant, PTL

-----------------------------------------------------------------------------
(* The frames in the channel and the decoder.                              *)

(* What is published is an IDR or a delta. *)
Published == \A g \in DOMAIN groups : \A i \in DOMAIN groups[g].objects :
               groups[g].objects[i].kind # "odd"

(* The frames in the channel ascend up to the newest one of the delivery task, *)
(* a delta right behind its reference.  While the delivery task waits for     *)
(* nothing, the newest frame is the last one that it sent.  A decoder has      *)
(* taken the page's newest frame, and the channel goes on from there.         *)
FedInv ==
  /\ channel \in Seq(Frames) /\ Ascending(channel)
  /\ \A i \in DOMAIN channel : channel[i].seq <= delivery.prev
  /\ \A i \in DOMAIN channel : i > 1 /\ channel[i].kind # "idr" =>
       channel[i].seq = channel[i - 1].seq + 1
  /\ ~delivery.waiting =>
       /\ channel # <<>> => channel[Len(channel)].seq = delivery.prev
       /\ channel = <<>> /\ decoder # NoDecoder => page.last = delivery.prev
  /\ decoder # NoDecoder =>
       /\ decoder = [format |-> page.format, last |-> page.last]
       /\ page.last \in Nat /\ page.last <= delivery.prev
       /\ \A i \in DOMAIN channel : channel[i].seq > page.last
       /\ channel # <<>> /\ channel[1].kind # "idr" => channel[1].seq = page.last + 1

ChainInv == Published /\ (rx.pos > 0 => rx.last > 0) /\ FedInv

(* Entering recovery leaves the page's newest frame and format as they are. *)
LEMMA RecoveryKeepsLast ==
  ASSUME NEW s, IsPage(s.page), NEW ask
  PROVE  /\ EnterRecovery(s, ask).decoder = NoDecoder
         /\ EnterRecovery(s, ask).page.last = s.page.last
         /\ EnterRecovery(s, ask).page.format = s.page.format
<1> DEFINE issued == s.page.recovering /\ s.page.issued
           q == [s.page EXCEPT !.recovering = TRUE, !.issued = issued \/ ask]
<1>1. q.last = s.page.last /\ q.format = s.page.format
  BY DEF IsPage
<1>2. EnterRecovery(s, ask).page = q /\ EnterRecovery(s, ask).decoder = NoDecoder
  BY DEF EnterRecovery
<1> QED BY <1>1, <1>2

(* The decoder takes the frame, or there is none afterwards. *)
LEMMA DecodeOutcome ==
  ASSUME NEW s, IsPage(s.page), NEW frame \in Frames, NEW reconfigure \in BOOLEAN, NEW fault,
         NEW end, end = Decode(s, frame, reconfigure, fault)
  PROVE  \/ end.decoder = NoDecoder
         \/ /\ end.page.last = frame.seq /\ end.page.format = frame.format
            /\ \/ /\ frame.kind = "idr"
                  /\ end.decoder = [format |-> frame.format, last |-> frame.seq]
               \/ /\ ~reconfigure \/ frame.kind # "idr"
                  /\ s.decoder # NoDecoder
                  /\ end.decoder = [format |-> s.decoder.format, last |-> frame.seq]
<1> DEFINE key == frame.kind = "idr"
           ready == IF key /\ reconfigure
                    THEN [ page |-> s.page, asks |-> s.asks,
                           decoder |-> [format |-> frame.format, last |-> 0] ]
                    ELSE s
           fails == fault = "enqueue" \/ (fault = "configure" /\ key /\ reconfigure)
           next == [ready.page EXCEPT
                !.last = frame.seq, !.format = frame.format,
                !.recovering = s.page.recovering /\ ~key,
                !.issued = s.page.issued /\ ~(key /\ s.page.recovering)]
<1>1. ready.page = s.page
  OBVIOUS
<1>2. next.last = frame.seq /\ next.format = frame.format
  BY <1>1 DEF IsPage
<1>3. IF fails THEN end = EnterRecovery(ready, TRUE)
      ELSE IF ready.decoder = NoDecoder THEN end = ready
      ELSE /\ end.page = next
           /\ end.decoder = [format |-> ready.decoder.format, last |-> frame.seq]
  BY DEF Decode
<1>4. \/ key /\ reconfigure /\ ready.decoder.format = frame.format
      \/ ~(key /\ reconfigure) /\ ready.decoder = s.decoder
  OBVIOUS
<1> HIDE DEF next, ready, fails
<1>5. EnterRecovery(ready, TRUE).decoder = NoDecoder
  BY <1>1, RecoveryKeepsLast
<1> QED BY <1>2, <1>3, <1>4, <1>5

(* The page skips an old frame, or its decoder takes the frame, a delta only  *)
(* at the format that it has, or the page is without a decoder afterwards.   *)
LEMMA ProcessOutcome ==
  ASSUME NEW s0, IsPage(s0.page), NEW frame \in Frames, NEW fault,
         s0.decoder # NoDecoder => s0.decoder.format = s0.page.format,
         NEW end, end = ProcessFrame(s0, frame, fault)
  PROVE  \/ end.decoder = NoDecoder
         \/ frame.seq <= s0.page.last /\ end = s0
         \/ /\ end.decoder = [format |-> frame.format, last |-> frame.seq]
            /\ end.page.last = frame.seq /\ end.page.format = frame.format
            /\ frame.kind # "idr" =>
                 s0.decoder # NoDecoder /\ s0.decoder.format = frame.format
<1> DEFINE key == frame.kind = "idr"
           s == IF fault = "backlog" /\ s0.decoder # NoDecoder
                THEN EnterRecovery(s0, TRUE) ELSE s0
           reconfigure == \/ s.page.format # frame.format
                          \/ frame.disc \/ s.decoder = NoDecoder
           planned == IF reconfigure THEN EnterRecovery(s, FALSE) ELSE s
<1>1. end = IF frame.seq <= s.page.last THEN s
            ELSE IF ~key /\ (reconfigure \/ s.page.recovering) THEN EnterRecovery(s, TRUE)
            ELSE Decode(planned, frame, reconfigure, fault)
  BY DEF ProcessFrame
<1>2. s = s0 \/ s = EnterRecovery(s0, TRUE)
  OBVIOUS
<1>3. IF reconfigure THEN planned = EnterRecovery(s, FALSE) ELSE planned = s
  OBVIOUS
<1>4. reconfigure \in BOOLEAN
      /\ (~reconfigure => s.page.format = frame.format /\ s.decoder # NoDecoder)
  BY DEF Frames
<1>5. IsPage(s.page) /\ (s = s0 \/ s.decoder = NoDecoder)
  BY <1>2, RecoveryKeepsLast, EnterRecoveryKeeps DEF SameSession
<1> HIDE DEF s, planned, reconfigure
<1>6. CASE frame.seq <= s.page.last
  BY <1>1, <1>5, <1>6
<1>7. CASE ~(frame.seq <= s.page.last) /\ ~key /\ (reconfigure \/ s.page.recovering)
  <2>1. EnterRecovery(s, TRUE).decoder = NoDecoder
    BY <1>5, RecoveryKeepsLast
  <2> QED BY <1>1, <1>7, <2>1
<1>8. CASE ~(frame.seq <= s.page.last) /\ ~(~key /\ (reconfigure \/ s.page.recovering))
  <2>1. end = Decode(planned, frame, reconfigure, fault)
    BY <1>1, <1>8
  <2>2. IsPage(planned.page) /\ (reconfigure => planned.decoder = NoDecoder)
    <3>1. EnterRecovery(s, FALSE).decoder = NoDecoder
      BY <1>5, RecoveryKeepsLast
    <3>2. SameSession(s.page, EnterRecovery(s, FALSE).page)
      BY <1>5, EnterRecoveryKeeps
    <3>3. IsPage(EnterRecovery(s, FALSE).page)
      BY <3>2 DEF SameSession
    <3> QED BY <1>3, <1>5, <3>1, <3>3
  <2>3. \/ end.decoder = NoDecoder
        \/ /\ end.page.last = frame.seq /\ end.page.format = frame.format
           /\ \/ key /\ end.decoder = [format |-> frame.format, last |-> frame.seq]
              \/ /\ planned.decoder # NoDecoder
                 /\ end.decoder = [format |-> planned.decoder.format, last |-> frame.seq]
    BY <1>4, <2>1, <2>2, DecodeOutcome
  <2>4. planned.decoder # NoDecoder =>
          planned = s0 /\ s0.decoder # NoDecoder /\ s0.decoder.format = frame.format
    BY <1>3, <1>4, <1>5, <2>2
  <2> QED BY <2>3, <2>4
<1> QED BY <1>6, <1>7, <1>8

(* The delivery task notes a drop: it waits for an IDR. *)
LEMMA DropNoted ==
  ASSUME NEW last, NEW waiting, NEW inFlight, NoteDropped,
         delivery = [prev |-> last, waiting |-> waiting, inFlight |-> inFlight]
  PROVE  delivery'.prev = last /\ delivery'.waiting
BY DEF NoteDropped

(* A step that sends nothing and feeds nothing. *)
LEMMA QuietFed ==
  ASSUME FedInv, channel' = channel, delivery'.prev = delivery.prev,
         ~delivery'.waiting => ~delivery.waiting,
         \/ decoder' = NoDecoder
         \/ decoder' = decoder /\ page'.last = page.last /\ page'.format = page.format
  PROVE  FedInv'
BY DEF FedInv, Ascending

(* The receiver reads an object: it goes to the channel, or the delivery task *)
(* waits for an IDR.                                                         *)
LEMMA ObjectFed ==
  ASSUME HostOrder, PortalOrder, ChainInv, ReadObject
  PROVE  FedInv' /\ (rx'.pos > 0 => rx'.last > 0)
<1>1. /\ rx \in Receivers /\ rx.pos \in Nat /\ rx.last \in Nat /\ rx.group \in Nat
      /\ rx.group # 0 /\ rx.group <= Len(groups)
      /\ delivery = [ prev |-> rx.last, waiting |-> delivery.waiting,
                      inFlight |-> delivery.inFlight ]
      /\ UNCHANGED <<page, decoder>>
  BY DEF PortalOrder, Receivers, ReadObject
<1>2. rx.group \in DOMAIN groups
  BY <1>1, TrackFrames
<1>3. FedInv /\ (rx.pos > 0 => rx.last > 0) /\ Published
  BY DEF ChainInv
<1>4. CASE rx' = LeaveGroup(rx) /\ NoteDropped /\ UNCHANGED <<task, channel>>
  <2>1. rx'.pos = 0
    BY <1>1, <1>4 DEF LeaveGroup, Receivers
  <2>2. delivery'.prev = rx.last /\ delivery'.waiting
    BY <1>1, <1>4, DropNoted
  <2>3. delivery'.prev = delivery.prev /\ delivery'.waiting
    BY <1>1, <2>2
  <2> QED BY <1>1, <1>3, <1>4, <2>1, <2>3, QuietFed
<1>5. ASSUME NEW frame \in Frames, NEW mark \in BOOLEAN,
             rx.pos + 1 \in DOMAIN groups[rx.group].objects,
             frame = groups[rx.group].objects[rx.pos + 1],
             frame.seq > rx.last,
             IF rx.pos = 0 THEN frame.kind = "idr"
             ELSE rx.last = 0 \/ rx.last + 1 = frame.seq,
             rx' = [rx EXCEPT !.pos = rx.pos + 1, !.last = frame.seq, !.waiting = FALSE],
             Deliver([frame EXCEPT !.disc = mark])
      PROVE  FedInv' /\ (rx'.pos > 0 => rx'.last > 0)
  <2>1. PICK marked \in Frames : /\ marked = [frame EXCEPT !.disc = mark]
                                 /\ marked.seq = frame.seq /\ marked.kind = frame.kind
    <3>1. /\ [frame EXCEPT !.disc = mark] \in Frames
          /\ [frame EXCEPT !.disc = mark].seq = frame.seq
          /\ [frame EXCEPT !.disc = mark].kind = frame.kind
      BY DEF Frames
    <3> QED BY <3>1
  <2>2. /\ marked.seq \in Nat /\ marked.seq > rx.last
        /\ marked.kind \in {"idr", "delta"}
        /\ marked.kind = "delta" => marked.seq = rx.last + 1
    <3>1. frame.seq \in Nat
      BY FrameFields
    <3>2. frame.kind \in {"idr", "delta"}
      <4>1. frame.kind # "odd"
        BY <1>2, <1>3, <1>5 DEF Published
      <4> QED BY <4>1 DEF Frames, FrameKinds
    <3>3. frame.kind = "delta" => frame.seq = rx.last + 1
      BY <1>1, <1>3, <1>5
    <3> QED BY <1>5, <2>1, <3>1, <3>2, <3>3
  <2>3. rx'.last = frame.seq
    BY <1>1, <1>5 DEF Receivers
  <2>4. rx'.pos > 0 => rx'.last > 0
    BY <2>3, FrameFields
  <2>5. \/ /\ delivery' = [delivery EXCEPT !.prev = marked.seq, !.waiting = TRUE]
           /\ channel' = channel
        \/ /\ ~(delivery.waiting /\ marked.kind = "delta")
           /\ delivery' = [ prev |-> marked.seq, waiting |-> FALSE,
                            inFlight |-> delivery.inFlight + 1 ]
           /\ channel' = Append(channel, marked)
    <3>1. ~(marked.seq <= delivery.prev)
      BY <1>1, <2>2
    <3>2. Deliver(marked)
      BY <1>5, <2>1
    <3> QED BY <3>1, <3>2 DEF Deliver
  <2>6. /\ channel \in Seq(Frames) /\ DOMAIN channel = 1..Len(channel) /\ Len(channel) \in Nat
        /\ \A i \in DOMAIN channel : channel[i].seq \in Nat
    <3>1. channel \in Seq(Frames)
      BY <1>3 DEF FedInv
    <3> QED BY <3>1, FrameFields
  <2>7. CASE /\ delivery' = [delivery EXCEPT !.prev = marked.seq, !.waiting = TRUE]
             /\ channel' = channel
    <3>1. delivery' = [prev |-> marked.seq, waiting |-> TRUE, inFlight |-> delivery.inFlight]
      BY <1>1, <2>7
    <3>2. delivery'.prev = marked.seq /\ delivery'.waiting
      BY <3>1
    <3>3. delivery.prev = rx.last
      BY <1>1
    <3> QED BY <1>1, <1>3, <2>2, <2>4, <2>6, <2>7, <3>2, <3>3 DEF FedInv, Ascending
  <2>8. CASE /\ ~(delivery.waiting /\ marked.kind = "delta")
             /\ delivery' = [ prev |-> marked.seq, waiting |-> FALSE,
                              inFlight |-> delivery.inFlight + 1 ]
             /\ channel' = Append(channel, marked)
    <3> DEFINE n == Len(channel)
    <3>1. /\ channel' \in Seq(Frames) /\ Len(channel') = n + 1 /\ DOMAIN channel' = 1..(n + 1)
          /\ channel'[n + 1] = marked /\ \A i \in 1..n : channel'[i] = channel[i]
          /\ channel' # <<>> /\ n \in Nat
      BY <2>6, <2>8
    <3>2. delivery'.prev = marked.seq /\ ~delivery'.waiting /\ delivery.prev = rx.last
      BY <1>1, <2>8
    <3>3. \A i \in DOMAIN channel : channel[i].seq <= rx.last
      BY <1>3, <3>2 DEF FedInv
    <3>4. \A i \in DOMAIN channel' : i \in DOMAIN channel \/ i = n + 1
      BY <2>6, <3>1
    <3>5. n # 0 => channel # <<>>
      BY <2>6
    <3> HIDE DEF n
    <3>6. Ascending(channel')
      <4>1. Ascending(channel)
        BY <1>3 DEF FedInv
      <4> QED BY <1>1, <2>2, <2>6, <3>1, <3>3, <3>4, <4>1 DEF Ascending, n
    <3>7. \A i \in DOMAIN channel' : channel'[i].seq <= delivery'.prev
      BY <1>1, <2>2, <2>6, <3>1, <3>2, <3>3, <3>4 DEF n
    <3>8. n # 0 /\ marked.kind # "idr" => channel[n].seq + 1 = marked.seq
      BY <1>3, <2>2, <2>8, <3>2, <3>5 DEF FedInv, n
    <3>9. \A i \in DOMAIN channel' : i > 1 /\ channel'[i].kind # "idr" =>
            channel'[i].seq = channel'[i - 1].seq + 1
      <4> SUFFICES ASSUME NEW i \in DOMAIN channel', i > 1, channel'[i].kind # "idr"
                   PROVE  channel'[i].seq = channel'[i - 1].seq + 1
        OBVIOUS
      <4>1. i \in Nat /\ i - 1 \in 1..n
        BY <3>1
      <4>2. CASE i \in DOMAIN channel
        BY <1>3, <2>6, <3>1, <4>1, <4>2 DEF FedInv, n
      <4>3. CASE i = n + 1
        <5>1. i - 1 = n /\ n # 0 /\ n \in 1..n
          BY <3>1, <4>1, <4>3
        <5> QED BY <3>1, <3>8, <4>3, <5>1
      <4> QED BY <3>4, <4>2, <4>3
    <3>10. channel'[Len(channel')].seq = delivery'.prev
      BY <3>1, <3>2
    <3>11. decoder # NoDecoder =>
             /\ page.last \in Nat /\ page.last <= rx.last
             /\ \A i \in DOMAIN channel' : channel'[i].seq > page.last
             /\ channel'[1].kind # "idr" => channel'[1].seq = page.last + 1
      <4> SUFFICES ASSUME decoder # NoDecoder
                   PROVE  /\ page.last \in Nat /\ page.last <= rx.last
                          /\ \A i \in DOMAIN channel' : channel'[i].seq > page.last
                          /\ channel'[1].kind # "idr" => channel'[1].seq = page.last + 1
        OBVIOUS
      <4>1. /\ page.last \in Nat /\ page.last <= rx.last
            /\ \A i \in DOMAIN channel : channel[i].seq > page.last
            /\ channel # <<>> /\ channel[1].kind # "idr" => channel[1].seq = page.last + 1
            /\ ~delivery.waiting /\ channel = <<>> => page.last = rx.last
        BY <1>3, <3>2 DEF FedInv
      <4>2. \A i \in DOMAIN channel' : channel'[i].seq > page.last
        BY <1>1, <2>2, <2>6, <3>1, <3>4, <4>1 DEF n
      <4>3. channel'[1].kind # "idr" => channel'[1].seq = page.last + 1
        <5>1. CASE n = 0
          <6>1. channel = <<>> /\ channel'[1] = marked
            BY <2>6, <3>1, <5>1 DEF n
          <6> QED BY <2>2, <2>8, <4>1, <6>1
        <5>2. CASE n # 0
          <6>1. channel # <<>> /\ channel'[1] = channel[1]
            BY <3>1, <3>5, <5>2
          <6> QED BY <4>1, <6>1
        <5> QED BY <5>1, <5>2
      <4> QED BY <4>1, <4>2, <4>3
    <3>12. decoder # NoDecoder => decoder = [format |-> page.format, last |-> page.last]
      BY <1>3 DEF FedInv
    <3>13. decoder # NoDecoder => page.last <= marked.seq
      BY <1>1, <2>2, <3>11
    <3> QED BY <1>1, <2>4, <3>1, <3>2, <3>6, <3>7, <3>9, <3>10, <3>11, <3>12, <3>13 DEF FedInv
  <2> QED BY <2>5, <2>7, <2>8
<1> QED BY <1>4, <1>5, ObjectRead

(* The page handles the first frame of the channel. *)
LEMMA HandleFed ==
  ASSUME SlotInv, FedInv, NEW fault, HandleFrame(fault)
  PROVE  /\ FedInv'
         /\ decoder' # decoder /\ decoder'.last # 0 =>
              /\ decoder' = [format |-> Head(channel).format, last |-> Head(channel).seq]
              /\ Head(channel).kind # "idr" =>
                   /\ decoder.format = Head(channel).format
                   /\ decoder.last + 1 = Head(channel).seq
<1> DEFINE c == channel
           frame == Head(channel)
           n == Len(channel)
           s0 == [page |-> page, decoder |-> decoder, asks |-> FALSE]
           end == ProcessFrame(s0, frame, fault)
<1>1. /\ c \in Seq(Frames) /\ c # <<>> /\ frame \in Frames /\ frame = c[1]
      /\ n \in Nat /\ n >= 1 /\ DOMAIN c = 1..n /\ 1 \in DOMAIN c
      /\ \A i \in DOMAIN c : c[i].seq \in Nat
  <2>1. channel \in Seq(Frames) /\ channel # <<>>
    BY DEF FedInv, HandleFrame
  <2>2. \A i \in DOMAIN channel : channel[i] \in Frames
    BY <2>1
  <2> QED BY <2>1, <2>2, FrameFields
<1>2. page.active \/ page.staged # FrameCapacity
  <2>1. /\ delivery.inFlight = n + page.staged + acks[generation]
        /\ delivery.inFlight <= FrameCapacity
    BY DEF SlotInv, SlotsExact
  <2>2. /\ page.staged \in Nat /\ acks[generation] \in Nat /\ delivery.inFlight \in Nat
        /\ FrameCapacity \in Nat
    BY PublisherBounds, PathBounds, SlotFacts DEF SlotInv, SlotTypes, IsPage
  <2> HIDE DEF n
  <2> QED BY <1>1, <2>1, <2>2
<1>3. /\ page' = IF page.active THEN end.page
                 ELSE [end.page EXCEPT !.staged = page.staged + 1]
      /\ decoder' = end.decoder /\ channel' = Tail(channel) /\ delivery' = delivery
  BY <1>2 DEF HandleFrame
<1>4. IsPage(page) /\ IsPage(end.page)
  <2>1. IsPage(page)
    BY DEF SlotInv, SlotTypes
  <2>2. IsPage(s0.page)
    BY <2>1
  <2>3. SameSession(s0.page, end.page)
    BY <2>2, ProcessKeeps
  <2> QED BY <2>1, <2>3 DEF SameSession
<1>5. decoder # NoDecoder => decoder = [format |-> page.format, last |-> page.last]
  BY DEF FedInv
<1>6. \/ end.decoder = NoDecoder
      \/ frame.seq <= page.last /\ end = s0
      \/ /\ end.decoder = [format |-> frame.format, last |-> frame.seq]
         /\ end.page.last = frame.seq /\ end.page.format = frame.format
         /\ frame.kind # "idr" => decoder # NoDecoder /\ decoder.format = frame.format
  <2>1. s0.page = page /\ s0.decoder = decoder
    OBVIOUS
  <2>2. IsPage(s0.page) /\ (s0.decoder # NoDecoder => s0.decoder.format = s0.page.format)
    BY <1>4, <1>5, <2>1
  <2> HIDE DEF s0, frame
  <2> QED BY <1>1, <2>1, <2>2, ProcessOutcome
<1>7. page'.last = end.page.last /\ page'.format = end.page.format
  <2> HIDE DEF end
  <2>1. [end.page EXCEPT !.staged = page.staged + 1].last = end.page.last
        /\ [end.page EXCEPT !.staged = page.staged + 1].format = end.page.format
    BY <1>4 DEF IsPage
  <2> QED BY <1>3, <2>1
<1>8. \/ decoder' = NoDecoder
      \/ /\ decoder' = [format |-> frame.format, last |-> frame.seq]
         /\ page'.last = frame.seq /\ page'.format = frame.format
         /\ frame.kind # "idr" => decoder # NoDecoder /\ decoder.format = frame.format
  <2>1. CASE frame.seq <= page.last /\ end = s0
    <3>1. decoder # NoDecoder => frame.seq > page.last /\ page.last \in Nat
      BY <1>1 DEF FedInv
    <3>2. frame.seq \in Nat
      BY <1>1
    <3>3. end.decoder = decoder
      BY <2>1
    <3> HIDE DEF end, s0, frame
    <3> QED BY <1>3, <2>1, <3>1, <3>2, <3>3
  <2> HIDE DEF end, s0, frame
  <2> QED BY <1>3, <1>6, <1>7, <2>1
<1> HIDE DEF end, s0, frame, n
<1>9. /\ channel' \in Seq(Frames) /\ Len(channel') = n - 1 /\ DOMAIN channel' = 1..(n - 1)
      /\ \A i \in 1..(n - 1) : channel'[i] = c[i + 1] /\ i + 1 \in DOMAIN c
      /\ channel' # <<>> <=> n # 1
  BY <1>1, <1>3 DEF n
<1>10. Ascending(c) /\ (\A i \in DOMAIN c : c[i].seq <= delivery.prev)
       /\ (\A i \in DOMAIN c : i > 1 /\ c[i].kind # "idr" => c[i].seq = c[i - 1].seq + 1)
       /\ (~delivery.waiting => c[n].seq = delivery.prev)
  BY <1>1 DEF FedInv, n
<1>11. Ascending(channel')
  <2> SUFFICES ASSUME NEW i \in 1..(n - 1), NEW j \in 1..(n - 1), i < j
               PROVE  channel'[i].seq < channel'[j].seq
    BY <1>9 DEF Ascending
  <2>1. i + 1 < j + 1
    BY <1>1
  <2> HIDE DEF c
  <2> QED BY <1>9, <1>10, <2>1 DEF Ascending
<1>12. \A i \in DOMAIN channel' : channel'[i].seq <= delivery'.prev
  BY <1>3, <1>9, <1>10
<1>13. \A i \in DOMAIN channel' : i > 1 /\ channel'[i].kind # "idr" =>
         channel'[i].seq = channel'[i - 1].seq + 1
  <2> SUFFICES ASSUME NEW i \in 1..(n - 1), i > 1, channel'[i].kind # "idr"
               PROVE  channel'[i].seq = channel'[i - 1].seq + 1
    BY <1>9
  <2>1. i - 1 \in 1..(n - 1) /\ (i - 1) + 1 = i /\ (i + 1) - 1 = i /\ i + 1 > 1
    BY <1>1
  <2>2. channel'[i] = c[i + 1] /\ channel'[i - 1] = c[i] /\ i + 1 \in DOMAIN c
    BY <1>9, <2>1
  <2>3. c[i + 1].seq = c[(i + 1) - 1].seq + 1
    BY <1>10, <2>1, <2>2
  <2> QED BY <2>1, <2>2, <2>3
<1>14. ~delivery'.waiting =>
         /\ channel' # <<>> => channel'[Len(channel')].seq = delivery'.prev
         /\ channel' = <<>> => frame.seq = delivery'.prev
  <2>1. CASE n = 1
    BY <1>1, <1>3, <1>9, <1>10, <2>1
  <2>2. CASE n # 1
    <3>1. n - 1 \in 1..(n - 1) /\ (n - 1) + 1 = n
      BY <1>1, <2>2
    <3> QED BY <1>3, <1>9, <1>10, <2>2, <3>1
  <2> QED BY <2>1, <2>2
<1>15. /\ \A i \in DOMAIN channel' : channel'[i].seq > frame.seq
       /\ channel' # <<>> /\ channel'[1].kind # "idr" => channel'[1].seq = frame.seq + 1
       /\ frame.seq \in Nat /\ frame.seq <= delivery'.prev
  <2>1. \A i \in 1..(n - 1) : 1 < i + 1 /\ i + 1 \in DOMAIN c
    BY <1>1, <1>9
  <2>2. \A i \in DOMAIN channel' : channel'[i].seq > frame.seq
    <3> TAKE i \in DOMAIN channel'
    <3>1. c[1].seq < c[i + 1].seq
      BY <1>1, <1>9, <1>10, <2>1 DEF Ascending
    <3>2. c[1].seq \in Nat /\ c[i + 1].seq \in Nat
      BY <1>1, <1>9
    <3> QED BY <1>1, <1>9, <3>1, <3>2
  <2>3. channel' # <<>> /\ channel'[1].kind # "idr" => channel'[1].seq = frame.seq + 1
    <3> SUFFICES ASSUME channel' # <<>>, channel'[1].kind # "idr"
                 PROVE  channel'[1].seq = frame.seq + 1
      OBVIOUS
    <3>1. 1 \in 1..(n - 1)
      BY <1>1, <1>9
    <3>2. channel'[1] = c[2] /\ 2 \in DOMAIN c
      <4>1. channel'[1] = c[1 + 1] /\ 1 + 1 \in DOMAIN c
        BY <1>9, <3>1
      <4> QED BY <4>1
    <3>3. c[2].seq = c[2 - 1].seq + 1
      BY <1>10, <3>2
    <3> QED BY <1>1, <3>2, <3>3
  <2> QED BY <1>1, <1>3, <1>10, <2>2, <2>3
<1>16. FedInv'
  <2>1. CASE decoder' = NoDecoder
    BY <1>9, <1>11, <1>12, <1>13, <1>14, <2>1 DEF FedInv
  <2>2. CASE /\ decoder' = [format |-> frame.format, last |-> frame.seq]
             /\ page'.last = frame.seq /\ page'.format = frame.format
    BY <1>9, <1>11, <1>12, <1>13, <1>14, <1>15, <2>2 DEF FedInv
  <2> QED BY <1>8, <2>1, <2>2
<1>17. decoder' # decoder /\ decoder'.last # 0 =>
         /\ decoder' = [format |-> frame.format, last |-> frame.seq]
         /\ frame.kind # "idr" => decoder.format = frame.format /\ decoder.last + 1 = frame.seq
  <2>1. frame.kind # "idr" /\ decoder # NoDecoder => decoder.last + 1 = frame.seq
    BY <1>1, <1>5 DEF FedInv
  <2>2. decoder' = NoDecoder => decoder'.last = 0
    BY DEF NoDecoder
  <2> QED BY <1>8, <2>1, <2>2
<1> QED BY <1>16, <1>17 DEF frame

(* What the host publishes keeps to IDRs and deltas. *)
LEMMA PublishedKept ==
  ASSUME Published, Advances
  PROVE  Published'
BY DEF Published, Advances, Grown

(* Every step: what it does to the channel and the decoder. *)
LEMMA ChainStep ==
  ASSUME AcceptInv, SlotInv, ChainInv, [Next]_vars
  PROVE  /\ ChainInv'
         /\ decoder' # decoder /\ decoder'.last # 0 =>
              \E frame \in {Head(channel)} :
                /\ decoder' = [format |-> frame.format, last |-> frame.seq]
                /\ frame.kind # "idr" =>
                     decoder.format = frame.format /\ decoder.last + 1 = frame.seq
<1>1. HostOrder /\ PortalOrder /\ Published /\ FedInv /\ (rx.pos > 0 => rx.last > 0)
  BY DEF AcceptInv, HostOrder, ChainInv
<1>2. NoDecoder.last = 0
  BY DEF NoDecoder
<1>3. delivery = [ prev |-> rx.last, waiting |-> delivery.waiting,
                   inFlight |-> delivery.inFlight ]
  BY <1>1 DEF PortalOrder
<1>4. ASSUME UNCHANGED groups,
             channel' = channel, delivery'.prev = delivery.prev,
             ~delivery'.waiting => ~delivery.waiting,
             \/ decoder' = NoDecoder
             \/ decoder' = decoder /\ page'.last = page.last /\ page'.format = page.format,
             rx'.pos > 0 => rx'.last > 0
      PROVE  ChainInv' /\ ~(decoder' # decoder /\ decoder'.last # 0)
  BY <1>1, <1>2, <1>4, QuietFed DEF ChainInv, Published
<1>5. delivery' = delivery \/ NoteDropped =>
        delivery'.prev = delivery.prev /\ (~delivery'.waiting => ~delivery.waiting)
  <2>1. CASE delivery' = delivery
    BY <2>1
  <2>2. CASE NoteDropped
    <3>1. delivery'.prev = rx.last /\ delivery'.waiting
      BY <1>3, <2>2, DropNoted
    <3>2. delivery.prev = rx.last
      BY <1>3
    <3> QED BY <3>1, <3>2
  <2> QED BY <2>1, <2>2
<1>6. CASE UNCHANGED vars
  BY <1>1, <1>4, <1>6 DEF vars, hostVars, portalVars
<1>7. CASE HostNext /\ UNCHANGED portalVars
  <2>1. Advances
    BY <1>1, <1>7, HostStep
  <2>2. UNCHANGED <<channel, delivery, decoder, page, rx>>
    BY <1>7 DEF portalVars
  <2> QED BY <1>1, <2>1, <2>2, PublishedKept, QuietFed DEF ChainInv
<1>8. CASE ReadObject
  <2>1. UNCHANGED <<groups, decoder>>
    BY <1>8 DEF ReadObject, hostVars
  <2> QED BY <1>1, <1>8, <2>1, ObjectFed DEF ChainInv, Published
<1>9. CASE ReceiverStep /\ ~ReadObject
  <2>1. UNCHANGED <<groups, channel, decoder, page>> /\ (delivery' = delivery \/ NoteDropped)
    BY <1>9 DEF ReceiverStep, NextGroup, RecoveryTimeout, ReadFails, ReadTimeout,
                RxUnchanged, hostVars
  <2>2. rx'.pos > 0 => rx'.last > 0
    <3>1. rx \in Receivers
      BY <1>1 DEF PortalOrder
    <3>2. \/ rx'.pos = 0
          \/ rx'.pos = rx.pos /\ rx'.last = rx.last
      <4>1. CASE \E id \in 1..Len(groups) : NextGroup(id)
        BY <3>1, <4>1 DEF NextGroup, Receivers
      <4>2. CASE RecoveryTimeout
        BY <3>1, <4>2 DEF RecoveryTimeout, Receivers
      <4>3. CASE \E recovery \in {"supersession", "gap"} : ReadFails(recovery)
        BY <3>1, <4>3 DEF ReadFails, LeaveGroup, Receivers
      <4>4. CASE ReadTimeout
        BY <3>1, <4>4 DEF ReadTimeout, LeaveGroup, Receivers
      <4> QED BY <1>9, <4>1, <4>2, <4>3, <4>4 DEF ReceiverStep
    <3> QED BY <1>1, <3>2
  <2> QED BY <1>4, <1>5, <2>1, <2>2
<1>10. CASE \E fault \in {"none", "backlog", "configure", "enqueue"} : HandleFrame(fault)
  <2>1. UNCHANGED <<groups, rx>>
    BY <1>10 DEF HandleFrame, PageUnchanged
  <2> QED BY <1>1, <1>10, <2>1, HandleFed DEF ChainInv, Published
<1>11. CASE DecoderError
  <2> DEFINE s == [page |-> page, decoder |-> decoder, asks |-> FALSE]
  <2>1. decoder' = EnterRecovery(s, TRUE).decoder
        /\ UNCHANGED <<groups, rx, channel, delivery>>
    BY <1>11 DEF DecoderError, PageUnchanged
  <2>2. IsPage(s.page)
    BY DEF SlotInv, SlotTypes
  <2> HIDE DEF s
  <2>3. decoder' = NoDecoder
    BY <2>1, <2>2, RecoveryKeepsLast
  <2> QED BY <1>1, <1>4, <2>1, <2>3
<1>12. CASE Activate
  <2>1. /\ page' = [page EXCEPT !.active = TRUE, !.staged = 0] /\ IsPage(page)
        /\ UNCHANGED <<groups, rx, channel, delivery, decoder>>
    BY <1>12 DEF Activate, PageUnchanged, SlotInv, SlotTypes
  <2>2. page'.last = page.last /\ page'.format = page.format
    BY <2>1 DEF IsPage
  <2> QED BY <1>1, <1>4, <2>1, <2>2
<1>13. CASE \E g \in DOMAIN acks : AckArrives(g)
  <2>1. UNCHANGED <<groups, rx, channel, decoder, page>>
    BY <1>13 DEF AckArrives, PageUnchanged
  <2>2. delivery' = [ prev |-> delivery.prev, waiting |-> delivery.waiting,
                      inFlight |-> delivery'.inFlight ]
    BY <1>3, <1>13 DEF AckArrives
  <2>3. delivery'.prev = delivery.prev /\ delivery'.waiting = delivery.waiting
    BY <2>2
  <2> QED BY <1>1, <1>4, <2>1, <2>3
<1>14. CASE Reconnect
  <2>1. /\ UNCHANGED groups /\ channel' = <<>> /\ decoder' = NoDecoder
        /\ delivery' = NewDelivery /\ rx' = NewReceiver
    BY <1>14 DEF Reconnect
  <2>2. channel' \in Seq(Frames) /\ DOMAIN channel' = {} /\ delivery'.waiting /\ rx'.pos = 0
    BY <2>1 DEF NewDelivery, NewReceiver
  <2>3. FedInv'
    BY <2>1, <2>2 DEF FedInv, Ascending
  <2> QED BY <1>1, <1>2, <2>1, <2>2, <2>3 DEF ChainInv, Published
<1> QED BY <1>6, <1>7, <1>8, <1>9, <1>10, <1>11, <1>12, <1>13, <1>14 DEF Next

(* Whatever the network, the full channel and the page drop, and whenever the *)
(* decoder fails, it is never fed a delta whose reference it has not seen.   *)
THEOREM DecoderIsFedInOrder == Spec => DecoderChain
<1>1. Init => ChainInv
  <2> SUFFICES ASSUME Init PROVE ChainInv
    OBVIOUS
  <2>1. /\ groups = <<>> /\ rx.pos = 0 /\ channel = <<>> /\ delivery.waiting
        /\ decoder = NoDecoder
    BY DEF Init, HostInit, NewReceiver, NewDelivery
  <2>2. channel \in Seq(Frames) /\ DOMAIN channel = {} /\ DOMAIN groups = {}
    BY <2>1
  <2> QED BY <2>1, <2>2 DEF ChainInv, Published, FedInv, Ascending
<1>2. AcceptInv /\ SlotInv /\ ChainInv /\ [Next]_vars => ChainInv'
  BY ChainStep
<1>3. Spec => []ChainInv
  BY <1>1, <1>2, OrderInvariant, SlotInvariant, PTL DEF Spec
<1>4. AcceptInv /\ SlotInv /\ ChainInv /\ [Next]_vars =>
        [ decoder' # decoder /\ decoder'.last # 0 =>
            \E frame \in {Head(channel)} :
              /\ decoder' = [format |-> frame.format, last |-> frame.seq]
              /\ frame.kind # "idr" =>
                   decoder.format = frame.format /\ decoder.last + 1 = frame.seq ]_vars
  BY ChainStep
<1> QED BY <1>3, <1>4, OrderInvariant, SlotInvariant, PTL DEF Spec, DecoderChain
=============================================================================
