---------------------------- MODULE MCStudioChat ----------------------------
(* Bounds for TLC: two requests for one device and a third for another one, *)
(* so that each of the three nested lanes can be contended.                *)
EXTENDS StudioChat, TLC

CONSTANTS d1, d2, r1, r2, r3, k1, k2, k3

MCDevice  == {d1, d2}
MCRequest == {r1, r2, r3}
MCTarget  == r1 :> d1 @@ r2 :> d1 @@ r3 :> d2
MCSession == {k1, k2, k3}

\* Two messages of one conversation, or one of each of two channels.
MCOneConversation  == r1 :> k1 @@ r2 :> k1 @@ r3 :> k3
MCTwoConversations == r1 :> k1 @@ r2 :> k2 @@ r3 :> k3
=============================================================================
