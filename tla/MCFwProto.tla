------------------------------ MODULE MCFwProto ------------------------------
(* An instance of FwProto for TLC: packets of 3 bytes, commands of 1, 2, 3 and
   7 bytes, a FIFO of 7 entries (6 used) that wants no more from 3 on. *)
EXTENDS FwProto

Bytes == 0 .. 255
Lengths == [c \in 0 .. 3 |-> CASE c = 0 -> 1 [] c = 1 -> 2 [] c = 2 -> 3 [] c = 3 -> 7]

Frame(id, endpoint, len, code) ==
  <<genhdr(id, endpoint, 0, len), code>> \o [i \in 1 .. Lengths[len] - 1 |-> 100 + i]

NameVersion == Frame(1, DST_FW, 0, FW_CMD_NAME_VERSION)
GetUdi == Frame(2, DST_FW, 0, FW_CMD_GET_UDI)
LoadApp == Frame(3, DST_FW, 3, FW_CMD_LOAD_APP)
LoadData == Frame(0, DST_FW, 3, FW_CMD_LOAD_APP_DATA)

\* Frames the firmware stops at: another version, a status bit, the
\* application's endpoint, an unknown command.
Bad == {<<128 + genhdr(0, DST_FW, 0, 0), 1>>, <<genhdr(1, DST_FW, 1, 0), 1>>,
        Frame(1, 3, 1, FW_CMD_GET_UDI), Frame(1, DST_FW, 0, 10)}

MCClients == {<<LoadData, NameVersion>>, <<GetUdi, LoadApp>>} \cup {<<b>> : b \in Bad}
Sizes == {1, 3}
=============================================================================
