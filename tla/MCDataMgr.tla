------------------------------ MODULE MCDataMgr -------------------------------
(* Map files as file_creator.c writes them, with the rooms in any order, and the *)
(* ones an editor leaves: empty, cut off in a line, the same room or the same    *)
(* sensor twice.  A window of three has a place in its middle; five readings     *)
(* push one out of a full window with one of another sensor in between.  No      *)
(* sensor 12 is in any map, and a sensor may report an earlier time.             *)
EXTENDS DataMgr

MCMaps == {<<1, 10>>, <<2, 10, 1, 11>>, <<1, 10, 1, 11>>, <<2, 10, 1, 10>>,
           <<>>, <<1>>, <<2, 10, 1>>}
MCRooms == {1, 2}
MCIds == {10, 11, 12}
MCValues == {0, 10, 40}
MCTimes == {1, 2}
===============================================================================
