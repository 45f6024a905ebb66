------------------------------ MODULE PicoApi -------------------------------
(***************************************************************************)
(* The requests of class Pico in bin/comms.py: what is sent for each of    *)
(* them, what it is to leave in memory and how much it returns.            *)
(***************************************************************************)
EXTENDS FarMemory

\* The commands of comms.py; CMD_IDLE says that there is none.
CMD_IDLE == 0
CMD_WRITE_BYTES == 1
CMD_WRITE_WORDS == 2
CMD_READ_BYTES == 3
CMD_READ_WORDS == 4
CMD_FILL_BYTES == 5
CMD_FILL_WORDS == 6

\* The methods of Pico.  A word travels as its two bytes, low byte first.
ReadBytes(addr, count)     == [cmd |-> CMD_READ_BYTES, arg0 |-> addr, arg1 |-> count, data |-> << >>]
ReadWords(addr, count)     == [cmd |-> CMD_READ_WORDS, arg0 |-> addr, arg1 |-> count, data |-> << >>]
WriteBytes(addr, data)     == [cmd |-> CMD_WRITE_BYTES, arg0 |-> addr, arg1 |-> 0, data |-> data]
WriteWords(addr, data)     == [cmd |-> CMD_WRITE_WORDS, arg0 |-> addr, arg1 |-> 0, data |-> data]
FillBytes(addr, count, v)  == [cmd |-> CMD_FILL_BYTES, arg0 |-> addr, arg1 |-> count, data |-> <<v>>]
FillWords(addr, count, w)  == [cmd |-> CMD_FILL_WORDS, arg0 |-> addr, arg1 |-> count, data |-> w]

\* What request r is to leave in memory from its address on.
Written(r) ==
  CASE r.cmd \in {CMD_WRITE_BYTES, CMD_WRITE_WORDS} -> r.data
    [] r.cmd = CMD_FILL_BYTES -> Bytes(r.data[1], r.arg1)
    [] r.cmd = CMD_FILL_WORDS -> Words(r.data, r.arg1)
    [] OTHER -> << >>

\* How many bytes it returns (response_size).
ResponseSize(r) ==
  CASE r.cmd = CMD_READ_BYTES -> r.arg1
    [] r.cmd = CMD_READ_WORDS -> 2 * r.arg1
    [] OTHER -> 0
=============================================================================
