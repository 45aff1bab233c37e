------------------------------ MODULE FlashArgs ------------------------------
(***************************************************************************)
(* What the firmware accepts as the arguments of a system call: a buffer   *)
(* of the app (memcheck.c) and the offset and size of a piece of flash     *)
(* (storage.c, preload_app.c), in words that wrap around, against the      *)
(* layout of the flash (partition_table.h).                                *)
(***************************************************************************)
EXTENDS Naturals

CONSTANT WordLimit   \* 2^32, the values of uint32_t, size_t and uintptr_t

RAM_BASE == 1073741824
RAM_SIZE == 131072

SIZE_BITSTREAM == 131072
SIZE_PARTITION_TABLE == 65536
SIZE_PRE_LOADED_APP == 131072
SIZE_STORAGE_AREA == 131072
N_PRELOADED_APP == 2
N_STORAGE_AREA == 4
ADDR_PARTITION_TABLE_0 == SIZE_BITSTREAM
ADDR_PARTITION_TABLE_1 == 983040
ADDR_PRE_LOADED_APP_0 == ADDR_PARTITION_TABLE_0 + SIZE_PARTITION_TABLE
ADDR_STORAGE_AREA == ADDR_PRE_LOADED_APP_0 + N_PRELOADED_APP * SIZE_PRE_LOADED_APP
SECTOR == 4096
FLASH_SIZE == 1048576

\* The asserts of in_app_ram.
ASSUME WordAssumption == WordLimit \in Nat /\ WordLimit > RAM_BASE + RAM_SIZE

Word == 0 .. WordLimit - 1
Plus(a, b) == IF a + b < WordLimit THEN a + b ELSE a + b - WordLimit

(***************************************************************************)
(* The checks                                                              *)
(***************************************************************************)
in_app_ram(p, size) ==
  LET stop == RAM_BASE + RAM_SIZE
  IN /\ p >= RAM_BASE
     /\ p < stop
     /\ size <= stop - p

index_to_address(index) == ADDR_STORAGE_AREA + index * SIZE_STORAGE_AREA
slot_to_start_address(slot) == ADDR_PRE_LOADED_APP_0 + slot * SIZE_PRE_LOADED_APP

storage_write_data(offset, data, size) ==
  /\ in_app_ram(data, size)
  /\ offset <= SIZE_STORAGE_AREA
  /\ size <= SIZE_STORAGE_AREA
  /\ Plus(offset, size) <= SIZE_STORAGE_AREA

storage_read_data(offset, data, size) ==
  /\ in_app_ram(data, size)
  /\ offset <= SIZE_STORAGE_AREA
  /\ size <= 4096
  /\ Plus(offset, size) <= SIZE_STORAGE_AREA

storage_erase_sector(offset, size) ==
  /\ offset <= SIZE_STORAGE_AREA
  /\ offset % SECTOR = 0
  /\ size >= SECTOR /\ size <= SIZE_STORAGE_AREA /\ size % SECTOR = 0
  /\ Plus(offset, size) <= SIZE_STORAGE_AREA

preload_store(offset, data, size) ==
  /\ in_app_ram(data, size)
  /\ offset <= SIZE_PRE_LOADED_APP
  /\ size <= SIZE_PRE_LOADED_APP
  /\ Plus(offset, size) <= SIZE_PRE_LOADED_APP

(***************************************************************************)
(* Where things are                                                        *)
(***************************************************************************)
Span(start, size) == start .. start + size - 1
AppRam == Span(RAM_BASE, RAM_SIZE)
Flash == Span(0, FLASH_SIZE)
Area(index) == Span(index_to_address(index), SIZE_STORAGE_AREA)
Slot(slot) == Span(slot_to_start_address(slot), SIZE_PRE_LOADED_APP)
TableCopy(i) ==
  Span(IF i = 0 THEN ADDR_PARTITION_TABLE_0 ELSE ADDR_PARTITION_TABLE_1, SIZE_PARTITION_TABLE)
Bitstream == Span(0, SIZE_BITSTREAM)
=============================================================================
