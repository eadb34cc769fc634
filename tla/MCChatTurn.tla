----------------------------- MODULE MCChatTurn -----------------------------
(* Values for the constants of ChatTurn.                                   *)
EXTENDS ChatTurn, TLC

CONSTANTS c1, c2
NoChat  == {}
OneChat == {c1}
TwoChats == {c1, c2}
Chats   == Permutations(TwoChats)  \* no property tells one chat from another

=============================================================================
