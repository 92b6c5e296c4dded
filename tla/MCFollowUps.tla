---------------------------- MODULE MCFollowUps ----------------------------
(***************************************************************************)
(* Ann in two conversations and a stranger, who may only ask for tickets   *)
(* and handovers, in a third; one claim, Ann's, at the start.              *)
(***************************************************************************)
EXTENDS FollowUps

CONSTANTS ann, bob, ann1, ann2, anon

VerifiedAs == [c \in Conversations |-> IF c = anon THEN None ELSE ann]
OnFile == <<ann>>
=============================================================================
