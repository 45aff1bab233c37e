----------------------------- MODULE PartTable ------------------------------
(***************************************************************************)
(* The partition table and its two copies in flash (partition_table.c).    *)
(*                                                                         *)
(* A copy is the table it holds, or Invalid when its checksum does not     *)
(* match: erased, half erased or half programmed.  A write is four flash   *)
(* commands, and power may be lost before or after any of them.  Two kinds *)
(* of fault are told apart since the last write that ran to its end:       *)
(* power cuts while copy 0 is rewritten (primary), and everything that can *)
(* leave copy 1 without the current table (backup): power cuts while it is *)
(* rewritten, and flash cells going bad in either copy.                    *)
(***************************************************************************)
EXTENDS Integers

CONSTANTS
  Table,      \* partition tables
  Invalid,    \* a copy whose checksum is wrong
  MaxFaults   \* bound on the number of faults

ASSUME TableAssumption == Invalid \notin Table /\ MaxFaults \in Nat

VARIABLES
  copy,        \* the copies at ADDR_PARTITION_TABLE_0 and _1
  table,       \* part_table_storage in FW_RAM, Invalid when there is none
  part_status, \* 0, or PART_SLOT0_INVALID
  mode,        \* off, idle, the next command of a write, or halted
  recoverable, \* history: the tables a restart may come up with
  primary,     \* history: faults while copy 0 is rewritten
  backup,      \* history: faults that may cost copy 1
  faults       \* history: all faults, for MaxFaults

ptvars == <<copy, table, part_status, mode, recoverable, primary, backup,
            faults>>

PART_SLOT0_INVALID == 1

Writing == {"erase0", "write0", "erase1", "write1"}

InitWith(t) ==
  /\ copy = [i \in {0, 1} |-> t]
  /\ table = Invalid
  /\ part_status = 0
  /\ mode = "off"
  /\ recoverable = {t}
  /\ primary = 0
  /\ backup = 0
  /\ faults = 0

TableInit == \E t \in Table : InitWith(t)

\* part_table_read: the first copy whose checksum matches.
FirstValid == IF copy[0] # Invalid THEN 0 ELSE 1

\* part_table_read: one of the copies is valid.
Found == copy[FirstValid] # Invalid

\* part_table_read, called by main(), which asserts that it succeeds.
part_table_read ==
  /\ mode = "off"
  /\ Found
  /\ table' = copy[FirstValid]
  /\ part_status' = IF FirstValid = 1 THEN PART_SLOT0_INVALID ELSE 0
  /\ mode' = "idle"
  /\ recoverable' = recoverable \cap {copy[FirstValid]}
  /\ UNCHANGED <<copy, primary, backup, faults>>

\* main(): the assertion fails and the CPU stops.
NoTable ==
  /\ mode = "off"
  /\ ~Found
  /\ mode' = "halt"
  /\ UNCHANGED <<copy, table, part_status, recoverable, primary, backup,
                 faults>>

\* part_table_write is called with the table t.
part_table_write(t) ==
  /\ mode = "idle"
  /\ table' = t
  /\ mode' = "erase0"
  /\ recoverable' = recoverable \cup {t}
  /\ UNCHANGED <<copy, part_status, primary, backup, faults>>

\* Mutant: copy 1 is erased first as well.
MutEraseCopy(i) ==
  /\ mode = <<"erase0", "erase1">>[i + 1]
  /\ copy' = [copy EXCEPT ![i] = Invalid, ![1] = Invalid]
  /\ mode' = <<"write0", "write1">>[i + 1]
  /\ UNCHANGED <<table, part_status, recoverable, primary, backup, faults>>

\* part_table_write, flash_sector_erase of copy i.
EraseCopy(i) ==
  /\ mode = <<"erase0", "erase1">>[i + 1]
  /\ copy' = [copy EXCEPT ![i] = Invalid]
  /\ mode' = <<"write0", "write1">>[i + 1]
  /\ UNCHANGED <<table, part_status, recoverable, primary, backup, faults>>

\* Mutant: the loop over the copies ends after the first.
MutWriteCopy0 ==
  /\ mode = "write0"
  /\ copy' = [copy EXCEPT ![0] = table]
  /\ mode' = "idle"
  /\ recoverable' = {table}
  /\ primary' = 0
  /\ backup' = 0
  /\ UNCHANGED <<table, part_status, faults>>

\* part_table_write, flash_write_data of copy 0.
WriteCopy0 ==
  /\ mode = "write0"
  /\ copy' = [copy EXCEPT ![0] = table]
  /\ mode' = "erase1"
  /\ UNCHANGED <<table, part_status, recoverable, primary, backup, faults>>

\* part_table_write, flash_write_data of copy 1: the write is complete.
WriteCopy1 ==
  /\ mode = "write1"
  /\ copy' = [copy EXCEPT ![1] = table]
  /\ mode' = "idle"
  /\ recoverable' = {table}
  /\ primary' = 0
  /\ backup' = 0
  /\ UNCHANGED <<table, part_status, faults>>

\* Power is lost, or the system is reset between two system calls.
PowerCut ==
  /\ mode # "off"
  /\ mode' = "off"
  /\ table' = Invalid
  /\ part_status' = 0
  /\ IF mode \in Writing
     THEN /\ faults < MaxFaults
          /\ faults' = faults + 1
          /\ IF mode \in {"erase0", "write0"}
             THEN primary' = primary + 1 /\ backup' = backup
             ELSE backup' = backup + 1 /\ primary' = primary
     ELSE UNCHANGED <<faults, primary, backup>>
  /\ UNCHANGED <<copy, recoverable>>

\* Flash cells of copy i go bad between two writes.
FlashFault(i) ==
  /\ mode \in {"off", "idle"}
  /\ copy[i] # Invalid
  /\ faults < MaxFaults
  /\ copy' = [copy EXCEPT ![i] = Invalid]
  /\ faults' = faults + 1
  /\ backup' = backup + 1
  /\ UNCHANGED <<table, part_status, mode, recoverable, primary>>

\* The commands of a write, one after the other.
WriteStep == EraseCopy(0) \/ WriteCopy0 \/ EraseCopy(1) \/ WriteCopy1

\* What the firmware has no say in.
Environment == PowerCut \/ \E i \in {0, 1} : FlashFault(i)

TableNext ==
  \/ part_table_read
  \/ NoTable
  \/ \E t \in Table : part_table_write(t)
  \/ WriteStep
  \/ Environment

TableSpec == TableInit /\ [][TableNext]_ptvars

(***************************************************************************)
(* Properties                                                              *)
(***************************************************************************)
\* The copies hold tables or nothing that passes the checksum, and between
\* part_table_read and the next reset the firmware works on a table that
\* passed it.
PTTypeOK ==
  /\ copy \in [{0, 1} -> Table \cup {Invalid}]
  /\ table \in Table \cup {Invalid}
  /\ mode \in {"off", "halt"} \/ table \in Table
  /\ part_status \in {0, PART_SLOT0_INVALID}
  /\ mode \in {"off", "idle", "halt"} \cup Writing
  /\ recoverable \subseteq Table
  /\ primary \in Nat
  /\ backup \in Nat
  /\ faults \in 0 .. MaxFaults

\* What the two copies protect against, since the last completed write: any
\* number of cuts while copy 0 is rewritten, or a single fault of any kind.
Tolerated == backup = 0 \/ primary + backup <= 1

\* Within Tolerated the firmware always finds a table: main() never reaches
\* its assertion (the order erase 0, write 0, erase 1, write 1 in
\* part_table_write, against the order 0, 1 in part_table_read).
NeverWithoutTable == Tolerated => mode # "halt"

\* Within Tolerated a restart comes up with the table of the last completed
\* write or of the interrupted one, never with an older one left in copy 1.
RecoversLatest ==
  Tolerated /\ mode = "idle" => table \in recoverable

\* Without faults both copies hold the current table between writes, so the
\* next write may start by erasing copy 0.
Mirrored ==
  faults = 0 /\ mode = "idle" => copy[0] = table /\ copy[1] = table
=============================================================================
