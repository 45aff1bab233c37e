------------------------------ MODULE MCTk1Hw ------------------------------
(* Tk1Hw on the addresses where something happens.                         *)
EXTENDS Tk1Hw

Tk1(offset) == 3 * 2^28 + 63 * 2^22 + offset

Code == {PROGADDR_RESET, PROGADDR_IRQ, RAM_FIRST}

Uds == 3 * 2^28 + 2 * 2^22
FwRam == 3 * 2^28 + 16 * 2^22
Syscall == 3 * 2^28 + 33 * 2^22
Timer == 3 * 2^28 + 2^22

\* Secrets and the firmware's registers, with an address outside of tk1 that
\* aliases the CDI.
SecretAddrs ==
  Code \cup {Uds, FwRam, Syscall, Tk1(32), Tk1(48), Tk1(112), Tk1(256 + 32)}

SecretCells == {<<"fw_ram", 0>>, <<"tk1", 32>>, MonFirst, MonLast}

SecretWords == {0, 1}

\* The execution monitor, with a closed word in the middle of RAM and addresses
\* outside of ROM, RAM and every core.
MonitorAddrs ==
  Code \cup {FW_ROM_LAST + 1, RAM_FIRST + 1, RAM_FIRST + 2^15, 2^29, Timer, FwRam,
             Syscall, Tk1(ADDR_CPU_MON_CTRL), Tk1(ADDR_CPU_MON_FIRST), Tk1(ADDR_CPU_MON_LAST)}

MonitorCells == {MonFirst, MonLast}

MonitorWords == {0, RAM_FIRST + 1}
=============================================================================
