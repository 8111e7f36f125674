------------------------ MODULE MCConversationsState ------------------------
(***************************************************************************)
(* Values for TLC: one or two conversations, of which the favourites       *)
(* filter keeps the first or none.                                         *)
(***************************************************************************)
EXTENDS ConversationsState, TLC

CONSTANTS a, b

Both == {a, b}
JustA == {a}
AllOnly == {"all"}
WithFavourites == {"all", "favourites"}
MatchesA == [f \in AllOnly |-> JustA]
NoFavourite == [f \in WithFavourites |-> IF f = "all" THEN JustA ELSE {}]
FavouriteA == [f \in WithFavourites |-> IF f = "all" THEN Both ELSE JustA]

\* The list opens unfiltered, and the server starts with every conversation: shorter
\* lists come about by deletes.
InitListed == Init /\ filter = "all" /\ \A c \in Convs : server[c] > 0

SpecListed == InitListed /\ [][Next]_vars

\* Request and delete slots are interchangeable.
SlotSymmetry == Permutations(Fetches) \cup Permutations(Deletions)
=============================================================================
