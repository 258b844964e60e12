---------------------------- MODULE RoomVacancy ----------------------------
(***************************************************************************)
(* GameServer with a clock of its own for every room: how long the room    *)
(* has really been without players, as opposed to how old the server's     *)
(* _empty_game_since entry is.  The clock only observes.                   *)
(***************************************************************************)
EXTENDS GameServer

VARIABLE vacantFor  \* ticks since the room lost its last player, or Never

vacancyVars == <<vars, vacantFor>>

VacancyInit == Init /\ vacantFor = [g \in GameIds |-> Never]

VacancyStep ==
    /\ Step
    /\ vacantFor' = [g \in GameIds |->
            IF ~games'[g].live \/ Seats(g)' # {} THEN Never
            ELSE IF vacantFor[g] = Never THEN 0
            ELSE vacantFor[g]]

VacancyTick ==
    /\ Tick
    /\ vacantFor' = [g \in GameIds |-> Older(vacantFor[g], EmptyTtl)]

VacancySpec == VacancyInit /\ [][VacancyStep \/ VacancyTick]_vacancyVars

\* The comment on _empty_game_ttl_seconds: an empty game is kept for the whole
\* time to live, so that clients can come back to it.
RoomOutlivesTtl ==
    \A g \in GameIds : games[g].live /\ ~games'[g].live => vacantFor[g] >= EmptyTtl
EmptyRoomsKept == [][RoomOutlivesTtl]_vacancyVars
=============================================================================
