---------------------------- MODULE MCViewerHost ----------------------------
(* ViewerHost on two peers. *)
EXTENDS ViewerHost

MCOwner == <<"a", 1>>
MCNoOwner == <<>>
=============================================================================
