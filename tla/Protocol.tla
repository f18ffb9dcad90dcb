------------------------------- MODULE Protocol -------------------------------
(***************************************************************************)
(* The messages between client and server (protocol/): every message type  *)
(* with its fields and, per field, the way its value is written into JSON  *)
(* and read back.  A message is a record with its type and its fields; so  *)
(* is a payload, but with plain values: an enum member becomes its value,  *)
(* a position (a pair here) an object with row and col.                    *)
(***************************************************************************)
EXTENDS Naturals, Sequences

None == "None"

\* model/piece.py: the values of the two enums.
ColorValue == [WHITE |-> "w", BLACK |-> "b"]
KindValue  == [KING |-> "K", QUEEN |-> "Q", ROOK |-> "R", BISHOP |-> "B", KNIGHT |-> "N",
               PAWN |-> "P"]

\* A text a user has typed: what is in it, and whether there are blanks around that.
Texts == [content : {"", "something"}, padded : BOOLEAN]

Strip(text) == [text EXCEPT !.padded = FALSE]

-----------------------------------------------------------------------------
\* The fields of the classes of one message type, and how each is written.

PieceFields ==
    [id |-> "plain", kind |-> "kind", color |-> "color", row |-> "plain", col |-> "plain",
     render_row |-> "plain", render_col |-> "plain", is_moving |-> "plain",
     is_jumping |-> "plain", rest_fraction_remaining |-> "plain"]

SnapshotFields ==
    [GameSnapshot |-> [board_width |-> "plain", board_height |-> "plain",
                       pieces |-> "pieces", game_over |-> "plain"]]

\* A piece and the place and time of what happened to it.
PieceAt(place) ==
    [f \in {"piece_id", "piece_kind", "piece_color", place, "at_ms"} |->
        CASE f = "piece_kind" -> "kind" [] f = "piece_color" -> "color"
          [] f = place -> "position" [] OTHER -> "plain"]

EventFields ==
    [MoveCompletedEvent |-> PieceAt("destination"),
     JumpCompletedEvent |-> PieceAt("cell"),
     MotionStoppedEvent |-> PieceAt("at"),
     CaptureEvent |->
        [piece_id |-> "plain", piece_kind |-> "kind", piece_color |-> "color",
         captured_piece_id |-> "plain", captured_kind |-> "kind", captured_color |-> "color",
         at |-> "position", at_ms |-> "plain"],
     PromotionEvent |->
        [piece_id |-> "plain", piece_color |-> "color", from_kind |-> "kind", to_kind |-> "kind",
         at |-> "position", at_ms |-> "plain"],
     GameOverEvent |-> [winner_color |-> "optionalColor", at_ms |-> "plain"],
     IllegalActionEvent |->
        [piece_id |-> "plain", destination |-> "position", at_ms |-> "plain"],
     PlayerDisconnectedEvent |-> [color |-> "color", seconds_remaining |-> "plain"],
     PlayerReconnectedEvent |-> [color |-> "color"]]

Nothing == [f \in {} |-> "plain"]

LobbyFields ==
    [Login |-> [username |-> "plain", password |-> "plain"],
     LoggedIn |-> [username |-> "plain", rating |-> "plain"],
     PlayIntent |-> Nothing,
     CreateRoomIntent |-> Nothing,
     JoinRoomIntent |-> [join_code |-> "typed"],
     RoomRejected |-> [reason |-> "plain"],
     MatchNotFound |-> [reason |-> "plain"],
     RoleAssigned |-> [role |-> "plain", room_id |-> "plain", join_code |-> "optional"]]

IntentFields ==
    [MoveIntent |-> [source |-> "position", destination |-> "position"],
     JumpIntent |-> [position |-> "position"]]

Tables == <<SnapshotFields, EventFields, LobbyFields, IntentFields>>

MessageTypes == UNION {DOMAIN Tables[i] : i \in DOMAIN Tables}

\* The registry.
FieldsOf == [type \in MessageTypes |->
               Tables[CHOOSE i \in DOMAIN Tables : type \in DOMAIN Tables[i]][type]]

-----------------------------------------------------------------------------
\* One value.

Member(values, v) == CHOOSE x \in DOMAIN values : values[x] = v

Out(codec, v) ==
    CASE codec = "color"         -> ColorValue[v]
      [] codec = "optionalColor" -> IF v = None THEN None ELSE ColorValue[v]
      [] codec = "kind"          -> KindValue[v]
      [] codec = "position"      -> [row |-> v[1], col |-> v[2]]
      [] OTHER                   -> v

\* Mutant of In: row and column are mixed up.
InTransposed(codec, v) ==
    CASE codec = "color"         -> Member(ColorValue, v)
      [] codec = "optionalColor" -> IF v = None THEN None ELSE Member(ColorValue, v)
      [] codec = "kind"          -> Member(KindValue, v)
      [] codec = "position"      -> <<v.col, v.row>>
      [] codec = "typed"         -> Strip(v)
      [] OTHER                   -> v

In(codec, v) ==
    CASE codec = "color"         -> Member(ColorValue, v)
      [] codec = "optionalColor" -> IF v = None THEN None ELSE Member(ColorValue, v)
      [] codec = "kind"          -> Member(KindValue, v)
      [] codec = "position"      -> <<v.row, v.col>>
      [] codec = "typed"         -> Strip(v)
      [] OTHER                   -> v

\* _piece_snapshot_to_dict and back.
PieceOut(piece) == [f \in DOMAIN PieceFields |-> Out(PieceFields[f], piece[f])]
PieceIn(data)   == [f \in DOMAIN PieceFields |-> In(PieceFields[f], data[f])]

FieldOut(codec, v) ==
    IF codec = "pieces" THEN [i \in 1 .. Len(v) |-> PieceOut(v[i])] ELSE Out(codec, v)
FieldIn(codec, v) ==
    IF codec = "pieces" THEN [i \in 1 .. Len(v) |-> PieceIn(v[i])] ELSE In(codec, v)

-----------------------------------------------------------------------------
\* message_to_payload.
Encode(message) ==
    [f \in {"type"} \cup DOMAIN FieldsOf[message.type] |->
        IF f = "type" THEN message.type ELSE FieldOut(FieldsOf[message.type][f], message[f])]

\* snapshot_to_payload: the clock rides along.
EncodeSnapshot(snapshot, clock) ==
    LET payload == Encode(snapshot)
    IN [f \in {"clock_ms"} \cup DOMAIN payload |->
           IF f = "clock_ms" THEN clock ELSE payload[f]]

\* Mutant of Decodes: a blank join code passes.
DecodesBlank(payload) ==
    /\ payload.type \in MessageTypes
    /\ \A f \in DOMAIN FieldsOf[payload.type] :
          f \in DOMAIN payload \/ FieldsOf[payload.type][f] = "optional"

\* message_from_payload raises nothing: the type is known, the fields without a default are
\* there, and a join code is not blank.  (An enum value is one that Encode has written.)
Decodes(payload) ==
    /\ payload.type \in MessageTypes
    /\ \A f \in DOMAIN FieldsOf[payload.type] :
          f \in DOMAIN payload \/ FieldsOf[payload.type][f] = "optional"
    /\ payload.type = "JoinRoomIntent" => payload.join_code.content # ""

Decode(payload) ==
    [f \in {"type"} \cup DOMAIN FieldsOf[payload.type] |->
        IF f = "type" THEN payload.type
        ELSE IF f \notin DOMAIN payload THEN None
        ELSE FieldIn(FieldsOf[payload.type][f], payload[f])]
=============================================================================
