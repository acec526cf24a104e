---------------------------- MODULE MCSubwayList ----------------------------
(* Three stations, two of them with the same first letter.                 *)
EXTENDS SubwayList
MCLetterOf == <<1, 1, 2>>
=============================================================================
