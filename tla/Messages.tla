------------------------------- MODULE Messages -------------------------------
(***************************************************************************)
(* The messages of the web client: the classes that the protobuf compiler  *)
(* generated into fe/src/gen/pictophone/v0_1_pb.js, and the client stub    *)
(* V0_1ServiceClientPb.ts, as the client uses them.                        *)
(*                                                                         *)
(* The generated code of a class repeats one pattern for each field, so a  *)
(* class is the table of its fields, and the pattern is an operator on     *)
(* tables.  A message object is a function from the numbers of the fields  *)
(* that are set to their values.  The wire is a sequence of pairs of a     *)
(* number and a payload; the payload of a nested message is a wire itself. *)
(* Bytes, wire types and lengths are left out.                             *)
(***************************************************************************)
EXTENDS Naturals, Sequences, SequencesExt

-----------------------------------------------------------------------------
(* Fields and classes.  The fields of every class are numbered from 1.     *)

StringField(name) == [name |-> name, kind |-> "string"]
Uint32Field(name) == [name |-> name, kind |-> "uint32"]
RepeatedField(name) == [name |-> name, kind |-> "repeated"]
MessageField(name, class) == [name |-> name, kind |-> "message", class |-> class]

Class(fields) == [fields |-> fields, oneof |-> {}]
OneofClass(fields, oneof) == [fields |-> fields, oneof |-> oneof]

UnknownError == Class(<<StringField("error")>>)
GameAlreadyExistsError == Class(<<>>)
InvalidGameParametersError == Class(<<>>)
NotYourTurnError == Class(<<>>)
GameAlreadyStartedError == Class(<<>>)
GameAlreadyOverError == Class(<<>>)
GameNotStartedError == Class(<<>>)
GameNotFoundError == Class(<<>>)
PlayerNotInGameError == Class(<<>>)

CreateGameRequest == Class(<<StringField("gameId"), StringField("playerId")>>)

CreateGameResponse ==
    OneofClass(<<MessageField("unknownError", UnknownError),
                 MessageField("gameAlreadyExistsError", GameAlreadyExistsError)>>, {1, 2})

JoinGameRequest == Class(<<StringField("gameId"), StringField("playerId")>>)

JoinGameResponse ==
    OneofClass(<<MessageField("unknownError", UnknownError),
                 MessageField("gameNotFoundError", GameNotFoundError),
                 MessageField("gameAlreadyStartedError", GameAlreadyStartedError)>>, {1, 2, 3})

\* Faulty variant: generated before the fields window_size and length changed places.
StartGameRequestOutdated ==
    Class(<<StringField("gameId"), StringField("playerId"),
            Uint32Field("length"), Uint32Field("windowSize")>>)

StartGameRequest ==
    Class(<<StringField("gameId"), StringField("playerId"),
            Uint32Field("windowSize"), Uint32Field("length")>>)

StartGameResponse ==
    OneofClass(<<MessageField("unknownError", UnknownError),
                 MessageField("playerNotInGameError", PlayerNotInGameError),
                 MessageField("invalidGameParametersError", InvalidGameParametersError),
                 MessageField("gameAlreadyStartedError", GameAlreadyStartedError)>>, 1..4)

MakeMoveRequest ==
    Class(<<StringField("gameId"), StringField("playerId"), StringField("sentence")>>)

MakeMoveResponse ==
    OneofClass(<<MessageField("unknownError", UnknownError),
                 MessageField("notYourTurnError", NotYourTurnError),
                 MessageField("gameNotStartedError", GameNotStartedError),
                 MessageField("gameAlreadyOverError", GameAlreadyOverError)>>, 1..4)

Unstarted == Class(<<>>)
YourTurn == Class(<<RepeatedField("contextList")>>)
NotYourTurn == Class(<<>>)
GameOver == Class(<<RepeatedField("sentencesList")>>)
Game ==
    OneofClass(<<RepeatedField("playerIdsList"),
                 MessageField("unstarted", Unstarted),
                 MessageField("yourTurn", YourTurn),
                 MessageField("notYourTurn", NotYourTurn),
                 MessageField("gameOver", GameOver)>>, 2..5)

GetGameRequest == Class(<<StringField("gameId"), StringField("playerId")>>)

GetGameResponse ==
    OneofClass(<<MessageField("unknownError", UnknownError),
                 MessageField("playerNotInGameError", PlayerNotInGameError),
                 MessageField("game", Game)>>, {1, 2})

-----------------------------------------------------------------------------
(* The stub: the classes with which a method's request is written and its  *)
(* response is read.                                                       *)

MethodInfo(request, response) == [request |-> request, response |-> response]

\* Faulty variant: a method that reads its response with the class of another.
joinGameAsStart == MethodInfo(JoinGameRequest, StartGameResponse)

createGame == MethodInfo(CreateGameRequest, CreateGameResponse)

joinGame == MethodInfo(JoinGameRequest, JoinGameResponse)

startGame == MethodInfo(StartGameRequest, StartGameResponse)
makeMove == MethodInfo(MakeMoveRequest, MakeMoveResponse)
getGame == MethodInfo(GetGameRequest, GetGameResponse)

PictophoneClient ==
    [CreateGame |-> createGame, JoinGame |-> joinGame, StartGame |-> startGame,
     MakeMove |-> makeMove, GetGame |-> getGame]

-----------------------------------------------------------------------------
(* The pattern of a class.                                                 *)

New == <<>>

IsSet(message, i) == i \in DOMAIN message

\* getFieldWithDefault and getRepeatedField; a message that is not set has no value.
Get(class, message, i) ==
    IF IsSet(message, i) THEN message[i]
    ELSE CASE class.fields[i].kind = "string" -> ""
           [] class.fields[i].kind = "uint32" -> 0
           [] class.fields[i].kind = "repeated" -> <<>>

Without(message, numbers) == [j \in DOMAIN message \ numbers |-> message[j]]

IsDefault(field, value) == \/ field.kind = "string" /\ value = ""
                           \/ field.kind = "uint32" /\ value = 0

\* setProto3StringField and setProto3IntField, by which a default value clears the
\* field; setWrapperField; and setOneofWrapperField, which clears its group.
Put(class, message, i, value) ==
    LET group == IF i \in class.oneof THEN class.oneof ELSE {i}
    IN  IF IsDefault(class.fields[i], value)
        THEN Without(message, {i})
        ELSE [j \in (DOMAIN message \ group) \cup {i} |-> IF j = i THEN value ELSE message[j]]

\* The setter of the field with a name.
Set(class, message, name, value) ==
    Put(class, message, CHOOSE i \in DOMAIN class.fields : class.fields[i].name = name, value)

-----------------------------------------------------------------------------
(* Messages nest: a message holds the messages of its fields, which its    *)
(* methods treat before the message itself, each with the method of its    *)
(* class.  There are three levels, GetGameResponse, Game and YourTurn: a   *)
(* method stands for the upper one, and has a Leaf, for a message without  *)
(* messages, and an Inner below it.                                        *)

\* A message whose own messages are replaced by what a method makes of them.
Inside(class, message, Method(_, _)) ==
    [i \in DOMAIN message |->
        IF class.fields[i].kind = "message" THEN Method(class.fields[i].class, message[i])
        ELSE message[i]]

\* What serializeBinaryToWriter writes of field i: nothing for a field that has its
\* default value, a pair for each element of a repeated field, and a message that
\* is set even when it is empty (f != null).
Written(class, message, i) ==
    CASE ~IsSet(message, i) -> <<>>
      [] IsSet(message, i) /\ class.fields[i].kind = "repeated" ->
            [k \in DOMAIN message[i] |-> <<i, message[i][k]>>]
      [] OTHER -> <<<<i, message[i]>>>>

SerializeLeaf(class, message) ==
    FlattenSeq([i \in DOMAIN class.fields |-> Written(class, message, i)])

SerializeInner(class, message) == SerializeLeaf(class, Inside(class, message, SerializeLeaf))

SerializeBinary(class, message) == SerializeLeaf(class, Inside(class, message, SerializeInner))

\* One round of deserializeBinaryFromReader: a field of the class is set, or added
\* to; any other is skipped.
ReadField(class, message, pair) ==
    LET i == pair[1]
    IN  CASE i \notin DOMAIN class.fields -> message
          [] i \in DOMAIN class.fields /\ class.fields[i].kind = "repeated" ->
                Put(class, message, i, Append(Get(class, message, i), pair[2]))
          [] OTHER -> Put(class, message, i, pair[2])

\* The loop of deserializeBinaryFromReader: the message after k rounds.
Reading(class, pairs) ==
    LET message[k \in 0..Len(pairs)] ==
            IF k = 0 THEN New ELSE ReadField(class, message[k - 1], pairs[k])
    IN  message

DeserializeLeaf(class, pairs) == Reading(class, pairs)[Len(pairs)]

\* The pairs of a wire, with its messages read (reader.readMessage).
ReadMessages(class, wire, Method(_, _)) ==
    LET IsMessage(i) == i \in DOMAIN class.fields /\ class.fields[i].kind = "message"
    IN  [k \in DOMAIN wire |->
            IF IsMessage(wire[k][1])
            THEN <<wire[k][1], Method(class.fields[wire[k][1]].class, wire[k][2])>>
            ELSE wire[k]]

DeserializeInner(class, wire) ==
    DeserializeLeaf(class, ReadMessages(class, wire, DeserializeLeaf))

DeserializeBinary(class, wire) ==
    DeserializeLeaf(class, ReadMessages(class, wire, DeserializeInner))

\* toObject: by name, with undefined (no such name) for a message that is not set.
ToObjectLeaf(class, message) ==
    LET shown == {i \in DOMAIN class.fields :
                    class.fields[i].kind # "message" \/ IsSet(message, i)}
        Number(name) == CHOOSE i \in shown : class.fields[i].name = name
    IN  [name \in {class.fields[i].name : i \in shown} |-> Get(class, message, Number(name))]

ToObjectInner(class, message) == ToObjectLeaf(class, Inside(class, message, ToObjectLeaf))

ToObject(class, message) == ToObjectLeaf(class, Inside(class, message, ToObjectInner))
=============================================================================
