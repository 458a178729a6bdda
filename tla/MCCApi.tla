------------------------------- MODULE MCCApi -------------------------------
(* Two threads and two handles to one object.  One thread calls functions  *)
(* of every shape there is; the other those that matter to the first: it   *)
(* makes, uses, changes and frees handles.                                 *)
EXTENDS CApi

T == INSTANCE CApiTables

CONSTANTS one, other

TwoThreads == {one, other}
AllShapes == T!AllShapes

Others == {T!Free, T!Sets("plain")}
Repertoires == [t \in TwoThreads |-> IF t = one THEN AllShapes ELSE Others]
=============================================================================
