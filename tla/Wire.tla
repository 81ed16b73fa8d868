-------------------------------- MODULE Wire --------------------------------
(***************************************************************************)
(* The messages on the wire (server_comm.[ch], cliaction.c, data_format.h):*)
(* the first word of a message carries its code in the low bits and its    *)
(* length above them, and each side converts some of the words of a        *)
(* message between host and network order, by a table of its own.          *)
(* Lengths are in units of 16 bytes (4 words), of which all of them are    *)
(* multiples: 2^LenBits units are the 2^16 bytes a length must be below.   *)
(***************************************************************************)
EXTENDS Integers

CONSTANTS CodeBits, LenBits   \* 16 and 12 in the code

\* The codes have 12 bits.
ASSUME WireAssumption == CodeBits \in Nat /\ CodeBits >= 12 /\ LenBits \in Nat

HEADER_SIZE == 4              \* 64 bytes

CMD_REGISTER   == 1
CMD_JOIN       == 2
CMD_START_GAME == 3
CMD_ROOM_INFO  == 4
CMD_ACTION     == 5
CMD_MAP_INFO   == 6
CMD_QUIT       == 7
CMD_PLAYER_INFO == 8
Commands == CMD_REGISTER .. CMD_PLAYER_INFO

\* The codes of the replies to command c: 0xA0c and 0xF0c.
RES_SUCC(c) == 10 * 256 + c
RES_FAIL(c) == 15 * 256 + c
Replies == {RES_SUCC(c) : c \in Commands} \cup {RES_FAIL(c) : c \in Commands}

\* The length of a reply about a map of n cells and a room of k players: two
\* entries fit into the header.
SetMax(a, b) == IF a > b THEN a ELSE b
ReplyLen(code, n, k) ==
  HEADER_SIZE +
    CASE code = RES_SUCC(CMD_MAP_INFO) -> SetMax(0, n - 2)
      [] code \in {RES_SUCC(CMD_PLAYER_INFO), RES_SUCC(CMD_REGISTER),
                   RES_SUCC(CMD_JOIN), RES_SUCC(CMD_START_GAME),
                   RES_SUCC(CMD_ROOM_INFO)} -> SetMax(0, k - 2)
      [] OTHER -> 0

-----------------------------------------------------------------------------
(* The first word.                                                         *)

\* 2^n, up to the width of a word.
pow2[n \in 0 .. CodeBits + LenBits] == IF n = 0 THEN 1 ELSE 2 * pow2[n - 1]

Shift == pow2[CodeBits]
Word  == pow2[CodeBits + LenBits]

\* x | y for p = <<x, y>>: the lowest bit of either, and the rest.
or[p \in (0 .. Word - 1) \X (0 .. Word - 1)] ==
  IF p = <<0, 0>> THEN 0
  ELSE SetMax(p[1] % 2, p[2] % 2) + 2 * or[<<p[1] \div 2, p[2] \div 2>>]

setLen(x, len) == or[<<x, (len * Shift) % Word>>]
getLen(x)  == x \div Shift
getCode(x) == x % Shift

\* sendData adds the length and then sets it; send_data only sets it.
ServerWord(code, len) == setLen((code + len * Shift) % Word, len)
ClientWord(code, len) == setLen(code, len)

-----------------------------------------------------------------------------
(* The words each side converts, counted in units; the names and messages  *)
(* behind the first 8 words are text and stay as they are.                 *)

Text == 2
Refused == -1

\* sendData
ServerOut(code, len) ==
  CASE code \in {RES_SUCC(c) : c \in CMD_REGISTER .. CMD_ROOM_INFO} -> Text
    [] code \in {RES_FAIL(c) : c \in Commands} \cup {RES_SUCC(CMD_QUIT)} -> Text
    [] code \in {RES_SUCC(CMD_ACTION), RES_SUCC(CMD_MAP_INFO),
                 RES_SUCC(CMD_PLAYER_INFO)} -> len
    [] OTHER -> Refused

\* Mutant of ClientIn: the replies with players are taken for text.
ClientIn_PlayersAsText(code, len) ==
  IF code \in {RES_SUCC(CMD_ACTION), RES_SUCC(CMD_MAP_INFO)} THEN len
  ELSE IF code \in Replies THEN Text ELSE Refused
\* recv_data
ClientIn(code, len) ==
  IF code \in {RES_SUCC(CMD_ACTION), RES_SUCC(CMD_MAP_INFO),
               RES_SUCC(CMD_PLAYER_INFO)} THEN len
  ELSE IF code \in Replies THEN Text ELSE Refused

\* send_data
ClientOut(code, len) ==
  IF code \in {CMD_REGISTER, CMD_JOIN} THEN Text
  ELSE IF code \in Commands THEN len ELSE Refused

\* recvData
ServerIn(code, len) ==
  CASE code \in {CMD_REGISTER, CMD_JOIN} -> Text
    [] code \in CMD_START_GAME .. CMD_PLAYER_INFO -> len
    [] OTHER -> Refused
=============================================================================
