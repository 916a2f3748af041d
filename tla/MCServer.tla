-------------------------------- MODULE MCServer --------------------------------
(* Instances of Server for TLC. *)
EXTENDS Server, TLC

\* The room's size is an option over what the user stored; the limit on rooms is the
\* system's, and the user has no word on it.
TwoPlayers == [playerNumPerRoom |-> 2]
UserSettings == [playerNumPerRoom |-> 4, requestTimeout |-> 0]
SystemSettings == [maximumRooms |-> 2, requestTimeout |-> 30, tcpEnabled |-> "off"]

\* Nothing in the server tells one name from another but their being the same.
NamesAlike == Permutations(Names)
=============================================================================
