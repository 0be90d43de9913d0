-------------------------------- MODULE Wire ---------------------------------
(***************************************************************************)
(* The bytes of a message: message_to_buffer and buffer_to_message of      *)
(* message.c, and the messages of the stub and of invoke() as those two    *)
(* functions see them.  A byte is a number below 256; a key is the         *)
(* sequence of its characters, without the final 0, which is not sent.     *)
(***************************************************************************)
EXTENDS TableSkel, SequencesExt

AllKeys == <<33>>   \* the key "!", which asks for the list of keys

USHRT_MAX == 65535      \* of the short that the size of a key travels as
INT_MAX == 2147483647   \* of the int that the other sizes and results travel as

ASSUME WireAssumption ==
  /\ \A k \in Key : /\ k \in Seq(1..255) /\ Len(k) > 0 /\ Len(k) <= USHRT_MAX
                    /\ k # AllKeys
  /\ \A v \in Val : v \in Seq(0..255) /\ Len(v) > 0

Opcode == [SIZE |-> 10, DEL |-> 20, UPDATE |-> 30, GET |-> 40, KEYS |-> 40,
           PUT |-> 50, STATUS |-> 102]
OC_RT_ERROR == 99
CT_RESULT == 10
CT_VALUE  == 20
CT_KEY    == 30
CT_KEYS   == 40
CT_ENTRY  == 50

NullMessage == [opcode |-> 0]   \* the NULL struct message_t *

message_t(op, type, x) == [opcode |-> op, c_type |-> type, content |-> x]

-----------------------------------------------------------------------------
\* htons and htonl, ntohs and ntohl: the most significant byte first.

U16(n) == <<(n \div 256) % 256, n % 256>>
U32(n) == <<(n \div 16777216) % 256, (n \div 65536) % 256>> \o U16(n)

N16(b, i) == b[i] * 256 + b[i + 1]
N32(b, i) == (IF b[i] < 128 THEN b[i] ELSE b[i] - 256) * 16777216
               + b[i + 1] * 65536 + N16(b, i + 2)

\* A key after its length, and a block of data after its length.
KeyBytes(k)  == U16(Len(k)) \o k
DataBytes(v) == U32(Len(v)) \o v

KeyAt(b, i)  == SubSeq(b, i + 2, i + 1 + N16(b, i))
DataAt(b, i) == SubSeq(b, i + 4, i + 3 + N32(b, i))

message_to_buffer(m) ==
  U16(m.opcode) \o U16(m.c_type) \o
    CASE m.c_type = CT_RESULT -> U32(m.content)
      [] m.c_type = CT_VALUE  -> DataBytes(m.content)
      [] m.c_type = CT_KEY    -> KeyBytes(m.content)
      [] m.c_type = CT_ENTRY  -> KeyBytes(m.content.key) \o DataBytes(m.content.value)
      [] m.c_type = CT_KEYS   ->
           U32(Len(m.content))
             \o FlattenSeq([i \in DOMAIN m.content |-> KeyBytes(m.content[i])])

\* The test of the opcode is an assignment, so only the type is tested.
valid(c_type) == c_type \in {CT_RESULT, CT_VALUE, CT_KEY, CT_KEYS, CT_ENTRY}

\* The loop over the keys of CT_KEYS: msg_buf moves from one key to the next.
KeysFrom(b, n) ==
  LET msg_buf[i \in 1..n] ==
        IF i = 1 THEN 9 ELSE msg_buf[i - 1] + 2 + N16(b, msg_buf[i - 1])
  IN  [i \in 1..n |-> KeyAt(b, msg_buf[i])]

\* After the key of an entry comes its data.
ValueAfterKey(b) == DataAt(b, 7 + N16(b, 5))

buffer_to_message(b) ==
  LET type == N16(b, 3) IN
  IF ~valid(type) THEN NullMessage
  ELSE message_t(N16(b, 1), type,
         CASE type = CT_RESULT -> N32(b, 5)
           [] type = CT_VALUE  -> DataAt(b, 5)
           [] type = CT_KEY    -> KeyAt(b, 5)
           [] type = CT_ENTRY  -> [key |-> KeyAt(b, 5), value |-> ValueAfterKey(b)]
           [] type = CT_KEYS   -> KeysFrom(b, N32(b, 5)))

-----------------------------------------------------------------------------
\* The size of every message that carries keys or data of the table fits in
\* the int that message_to_buffer returns.
ASSUME MessagesFit ==
  /\ \A k \in Key, v \in Val : 10 + Len(k) + Len(v) <= INT_MAX
  /\ \A ks \in SUBSET Key :
       Len(message_to_buffer(message_t(Opcode["KEYS"] + 1, CT_KEYS, SetToSeq(ks))))
         <= INT_MAX

-----------------------------------------------------------------------------
\* What a client may ask, and the message that the stub builds for it.
ClientRequest ==
  {m \in Request : /\ m.op \notin {"UP", "NONE"}
                   /\ m.op \in {"PUT", "UPDATE"} <=> m.val # NoVal}

RequestMessage(m) ==
  CASE m.op \in {"PUT", "UPDATE"} ->
         message_t(Opcode[m.op], CT_ENTRY, [key |-> m.key, value |-> m.val])
    [] m.op \in {"GET", "DEL"} -> message_t(Opcode[m.op], CT_KEY, m.key)
    [] m.op = "KEYS"   -> message_t(Opcode[m.op], CT_KEY, AllKeys)
    [] m.op = "SIZE"   -> message_t(Opcode[m.op], CT_RESULT, 0)
    [] m.op = "STATUS" -> message_t(Opcode[m.op], CT_RESULT, -100)

\* What the switch of invoke() takes a message for.
Requested(x) ==
  CASE x.opcode = 50  -> Msg("PUT", x.content.key, x.content.value)
    [] x.opcode = 30  -> Msg("UPDATE", x.content.key, x.content.value)
    [] x.opcode = 20  -> Msg("DEL", x.content, NoVal)
    [] x.opcode = 40  -> IF x.content = AllKeys THEN Plain("KEYS")
                                                ELSE Msg("GET", x.content, NoVal)
    [] x.opcode = 10  -> Plain("SIZE")
    [] x.opcode = 102 -> Plain("STATUS")

\* The message that invoke(), or the branch of OC_STATUS, builds for reply r.
ReplyMessage(m, r) ==
  CASE r.type = "ERROR"  -> message_t(OC_RT_ERROR, CT_RESULT, r.result)
    [] r.type = "VALUE"  -> message_t(Opcode[m.op] + 1, CT_VALUE, r.val)
    [] r.type = "KEYS"   -> message_t(Opcode[m.op] + 1, CT_KEYS, SetToSeq(r.keys))
    [] r.type = "RESULT" -> message_t(Opcode[m.op] + (IF m.op = "STATUS" THEN 0 ELSE 1),
                                      CT_RESULT, r.result)

\* What the stub takes a message for.
Returned(x) ==
  CASE x.opcode = OC_RT_ERROR -> ErrorReply
    [] x.opcode # OC_RT_ERROR /\ x.c_type = CT_RESULT -> Result(x.content)
    [] x.c_type = CT_VALUE -> ValueOf(x.content)
    [] x.c_type = CT_KEYS  -> KeyList(ToSet(x.content))
=============================================================================
