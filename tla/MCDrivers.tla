------------------------------ MODULE MCDrivers ------------------------------
(* The parts that stand on their own, for TLC.  A behaviour exercises one of
   them: touch_wait() with its timer and sensor, the flash driver with its SPI
   master and device, the reads of the random number core, the hash library, the
   partition table, or the control endpoint of the CH552; the others have nothing
   to do. *)
EXTENDS TouchWait, SpiFlash, Trng, Blake2s, FlashArgs, PartTable, UsbControl

VARIABLE bench
benchvars == <<bench, touchvars, flashvars, trngvars, hashvars, ptvars, vars>>

BenchInit ==
  /\ bench \in {"touch", "flash", "random", "hash", "table", "control"}
  /\ TouchInit /\ FlashInit /\ TrngInit /\ HashInit /\ TableInit /\ Init
  /\ bench = "flash" <=> todo # <<>>
  /\ bench # "flash" => ~asleep
  /\ bench # "control" => mask = {}
  /\ bench # "table" => copy[0] = CHOOSE t \in Table : TRUE

\* The flash programs end, the messages that are hashed and the requests of the host.
Finished ==
  /\ \/ bench = "flash" /\ fpc = "call" /\ todo = <<>>
     \/ bench = "hash" /\ stage = "done"
     \/ bench = "control" /\ host = Idle /\ requests = MaxRequests
  /\ UNCHANGED benchvars

BenchNext ==
  \/ /\ \/ bench = "touch" /\ TouchNext /\ UNCHANGED <<flashvars, trngvars, hashvars>>
        \/ bench = "flash" /\ FlashNext /\ UNCHANGED <<touchvars, trngvars, hashvars>>
        \/ bench = "random" /\ TrngNext /\ UNCHANGED <<touchvars, flashvars, hashvars>>
        \/ bench = "hash" /\ HashNext /\ UNCHANGED <<touchvars, flashvars, trngvars>>
     /\ UNCHANGED <<bench, ptvars, vars>>
  \/ /\ \/ bench = "table" /\ TableNext /\ UNCHANGED vars
        \/ bench = "control" /\ Next /\ UNCHANGED ptvars
     /\ UNCHANGED <<bench, touchvars, flashvars, trngvars, hashvars>>
  \/ Finished

BenchSpec ==
  /\ BenchInit /\ [][BenchNext]_benchvars
  /\ TouchFairness /\ FlashFairness /\ TrngFairness /\ WF_vars(Transfer)

(* Every call of a driver comes back: touch_wait() when it is touched or timed
   out, a flash call when the device has finished, and the wait for a random word
   ends, also when the word is asked for as soon as one has been read. *)
DriversReturn ==
  /\ calls = 1 ~> (calls = 1 /\ pc = "call")
  /\ calls = 2 ~> (calls = 2 /\ pc = "call")
  /\ [](call # NoCall => <>(call = NoCall))
  /\ rpc = "status" ~> rpc = "idle"

C(name, address, size) == [name |-> name, address |-> address, size |-> size]
Release == C("release_powerdown", 0, 0)

(* A write over a page boundary, over old data, and read back from its middle;
   the three erases in the middle of what they erase; the refused writes; the
   identification; power-down in between.  No call at all for the
   other benches. *)
MCPrograms ==
  {<<Release, C("write_data", 8, 10), C("read_data", 15, 3)>>,
   <<Release, C("write_data", 64, 8), C("write_data", 64, 3), C("sector_erase", 72, 0)>>,
   <<Release, C("write_data", 24, 2), C("block_32_erase", 13, 0), C("read_data", 24, 2)>>,
   <<Release, C("write_data", 120, 1), C("block_64_erase", 70, 0), C("write_data", 0, 1)>>,
   <<Release, C("write_data", 9, 1), C("write_data", 16, 0), C("write_disable", 0, 0),
     C("powerdown", 0, 0), Release, C("read_jedec_id", 0, 0)>>,
   <<Release, C("read_manufacturer_device_id", 0, 0), C("read_unique_id", 0, 0),
     C("read_status", 0, 0)>>,
   <<>>}
MCTicks == {0, 1, 4}

\* Every set of functions main() can end up with.
AllMasks == {m \in SUBSET {"FIDO", "CCID", "DEBUG"} : ~({"FIDO", "CCID"} \subseteq m)}

(* The callers of the firmware: compute_cdi(), which hashes 33 or 65 bytes with
   the UDS as key, the digests of apps and tables, and the 16 byte digest that
   authenticates the management app. *)
MCKey == [i \in 1 .. 32 |-> (91 * i + 5) % 256]
MCCallers ==
  {[outlen |-> 32, key |-> MCKey], [outlen |-> 32, key |-> <<>>], [outlen |-> 16, key |-> <<>>]}
MCMessage == [i \in 1 .. 130 |-> (37 * i) % 256]

\* BLAKE2s-256 of "abc", from RFC 7693, appendix B.
ASSUME PublishedVector ==
  blake2s(32, <<>>, <<97, 98, 99>>) =
    <<80, 140, 94, 140, 50, 124, 20, 226, 225, 167, 43, 163, 78, 235, 69, 47,
      55, 69, 139, 32, 158, 214, 58, 41, 77, 153, 155, 76, 134, 103, 89, 130>>
=============================================================================
