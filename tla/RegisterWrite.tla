------------------------------ MODULE RegisterWrite ----------------------------
(***************************************************************************)
(* The register map of the DS3231 as clock.rs classifies it, the two       *)
(* writes RegisterWrite can build, and what the part does with one. A      *)
(* write is the register it starts at and the bytes that follow; the type  *)
(* has no other constructor.                                               *)
(***************************************************************************)
EXTENDS CivilTime

REG_SECONDS == 0
REG_STATUS == 15
MAX_REGISTER == 18

PERMITTED_REGISTERS == 0..6 \union {REG_STATUS}
SCRATCHPAD_REGISTERS == 7..13 \union {16}
UNUSED_REGISTERS == {14, 17, 18}

\* The three lists account for the whole map, and no register is in two
\* (every_register_is_classified).
ASSUME Classified ==
    /\ PERMITTED_REGISTERS \union SCRATCHPAD_REGISTERS \union UNUSED_REGISTERS
           = 0..MAX_REGISTER
    /\ SCRATCHPAD_REGISTERS \intersect (PERMITTED_REGISTERS \union UNUSED_REGISTERS) = {}
    /\ PERMITTED_REGISTERS \intersect UNUSED_REGISTERS = {}

\* Mutant: the flag is subtracted, whether or not it is set.
clear_by_subtracting(status) == status - 128

clear_oscillator_stop_flag(status) == status % 128

\* Mutant: the buffer is sent one byte too long.
set_time_and_one(t) == [register |-> REG_SECONDS, payload |-> Append(to_registers(t), 0)]

set_time(t) == [register |-> REG_SECONDS, payload |-> to_registers(t)]

acknowledge_oscillator_stop(status) ==
    [register |-> REG_STATUS, payload |-> << clear_oscillator_stop_flag(status) >>]

\* The part stores the payload of a write in consecutive registers.
Stored(regs, write) ==
    [a \in DOMAIN regs |-> IF a - write.register + 1 \in DOMAIN write.payload
                           THEN write.payload[a - write.register + 1]
                           ELSE regs[a]]
================================================================================
