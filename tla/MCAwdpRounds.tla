---------------------------- MODULE MCAwdpRounds ----------------------------
(* Two rounds; one team, with two members who reset and recover.            *)
EXTENDS AwdpRounds, TLC

CONSTANTS l1, l2, alice, bob, red, blue

MCTeamOf == [p \in Players |-> red]
MCKinds == [p \in Players |-> {"reset", "recover"}]

Symmetric == Permutations(Loops) \cup Permutations(Players)
=============================================================================
