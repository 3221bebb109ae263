-------------------------- MODULE MCSessionRegistry -------------------------
(* SessionRegistry on two peers. *)
EXTENDS SessionRegistry

MCOwner == <<"a", 1>>
MCOtherOwner == <<"b", 1>>
MCNoOwner == <<>>
=============================================================================
