---------------------------- MODULE SDKMessages ----------------------------
(***************************************************************************)
(* The messages between a game server and the SDK server, as the Node.js   *)
(* SDK holds them (sdks/nodejs/lib).  A message class is its blank message *)
(* (what the constructor makes, every field at its default); a setter is   *)
(* EXCEPT, a getter is field access.  A field that is itself a message     *)
(* (a wrapper, a mask, a nested request) can be missing: it is {} or {m}.  *)
(* Maps are functions; an empty one is Blank.                              *)
(***************************************************************************)
EXTENDS Integers, Sequences

\* serializeBinaryToWriter: a field that has its default is not written ...
Encode(message, blank) ==
    [f \in {g \in DOMAIN blank : message[g] # blank[g]} |-> message[f]]

\* ... and deserializeBinaryFromReader starts from the blank message.
Decode(wire, blank) ==
    [f \in DOMAIN blank |-> IF f \in DOMAIN wire THEN wire[f] ELSE blank[f]]

Blank == <<>>

\* What an optional field holds, or the value that is used when it is missing.
Or(field, default) == IF field = {} THEN default ELSE CHOOSE v \in field : TRUE

-----------------------------------------------------------------------------
\* agones.dev.sdk

Empty == Blank
KeyValue == [key |-> "", value |-> ""]
Duration == [seconds |-> 0]

\* The GameServer that a game server may look at.  A resourceVersion is a number here.
ObjectMeta == [name |-> "", namespace |-> "", uid |-> "", resourceVersion |-> 0, generation |-> 0,
               creationTimestamp |-> 0, deletionTimestamp |-> 0,
               annotationsMap |-> Blank, labelsMap |-> Blank]
Health == [disabled |-> FALSE, periodSeconds |-> 0, failureThreshold |-> 0, initialDelaySeconds |-> 0]
GameServerSpec == [health |-> {}]
Address == [type |-> "", address |-> ""]
Port == [name |-> "", port |-> 0]
PlayerStatus == [count |-> 0, capacity |-> 0, idsList |-> <<>>]
CounterStatus == [count |-> 0, capacity |-> 0]
ListStatus == [capacity |-> 0, valuesList |-> <<>>]
Status == [state |-> "", address |-> "", addressesList |-> <<>>, portsList |-> <<>>,
           players |-> {}, countersMap |-> Blank, listsMap |-> Blank]
GameServer == [objectMeta |-> {}, spec |-> {}, status |-> {}]

-----------------------------------------------------------------------------
\* agones.dev.sdk.alpha

Count == [count |-> 0]
PlayerID == [playerid |-> ""]

-----------------------------------------------------------------------------
\* agones.dev.sdk.beta

GetCounterRequest == [name |-> ""]
CounterUpdateRequest == [name |-> "", count |-> {}, capacity |-> {}, countdiff |-> 0]
UpdateCounterRequest == [counterupdaterequest |-> {}]
GetListRequest == [name |-> ""]
List == [name |-> "", capacity |-> 0, values |-> <<>>]
FieldMask == [paths |-> <<>>]
UpdateListRequest == [list |-> {}, updateMask |-> {}]
AddListValueRequest == [name |-> "", value |-> ""]
RemoveListValueRequest == [name |-> "", value |-> ""]
=============================================================================
