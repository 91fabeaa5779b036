----------------------------- MODULE Snowflake ------------------------------
(* SnowflakeId: ids made of a timestamp and of a sequence number that tells  *)
(* the ids of one millisecond apart.  One generator, whose machine id is     *)
(* fixed; the clock of the machine may be set back.                          *)
EXTENDS Integers

CONSTANTS MaxSequence, \* MAX_SEQUENCE, 2^12 - 1 in the code
          Machines,    \* machine ids: worker and data center, 2^10 in the code
          Machine,     \* that of this generator
          Horizon,     \* BOUND: milliseconds
          Setbacks     \* BOUND: how often the clock is set back

ASSUME SnowflakeAssumption ==
    /\ MaxSequence \in Nat /\ Machines \in Nat \ {0} /\ Machine \in 0..(Machines - 1)
    /\ Horizon \in Nat /\ Setbacks \in Nat

VARIABLES now,           \* milliseconds since the epoch of the generator
          lastTimestamp,
          sequence,
          issued,        \* history: timestamp and sequence of the ids so far
          twice,         \* history: some id was issued twice
          overflowed,    \* history: a sequence overflowed
          setbacks       \* history: how often the clock was set back

flakeVars == <<now, lastTimestamp, sequence, issued, twice, overflowed, setbacks>>

FlakeInit ==
    /\ now \in 0..Horizon
    /\ lastTimestamp = 0 /\ sequence = 0
    /\ issued = {} /\ twice = FALSE /\ overflowed = FALSE /\ setbacks = 0

Tick ==
    /\ now < Horizon /\ now' = now + 1
    /\ UNCHANGED <<lastTimestamp, sequence, issued, twice, overflowed, setbacks>>

\* Even to before the epoch, which is when the process started.
ClockSetBack ==
    /\ setbacks < Setbacks /\ setbacks' = setbacks + 1
    /\ now' \in -1..(now - 1)
    /\ UNCHANGED <<lastTimestamp, sequence, issued, twice, overflowed>>

\* The bits of timestamp, machine and sequence beside each other ...
IdOf(t, q) == (t * Machines + Machine) * (MaxSequence + 1) + q

\* ... and what decode() makes of them.
Decode(id) == [timestamp |-> id \div (Machines * (MaxSequence + 1)),
               machine |-> (id \div (MaxSequence + 1)) % Machines,
               sequence |-> id % (MaxSequence + 1)]

\* Before the epoch there is no id: the sign makes BigInt throw, when the sequence
\* has already moved on.
Emit(t, q) ==
    IF t < 0 THEN UNCHANGED <<issued, twice>>
    ELSE /\ issued' = issued \cup {<<t, q>>}
         /\ twice' = (twice \/ IdOf(t, q) \in {IdOf(e[1], e[2]) : e \in issued})

\* Variant: the sequence starts anew although the millisecond is the same.
GenerateAnew ==
    /\ now >= lastTimestamp
    /\ lastTimestamp' = now /\ sequence' = 0
    /\ Emit(now, 0)
    /\ UNCHANGED <<now, overflowed, setbacks>>

\* The first id of a millisecond.
GenerateFirst ==
    /\ now > lastTimestamp
    /\ lastTimestamp' = now /\ sequence' = 0
    /\ Emit(now, 0)
    /\ UNCHANGED <<now, overflowed, setbacks>>

\* Variant: the sequence goes on past its bits.
GenerateOver ==
    /\ now <= lastTimestamp
    /\ sequence' = sequence + 1
    /\ Emit(now, sequence + 1)
    /\ UNCHANGED <<now, lastTimestamp, overflowed, setbacks>>

\* Another one of the same millisecond, or of an earlier one.
GenerateNext ==
    /\ now <= lastTimestamp /\ sequence < MaxSequence
    /\ sequence' = sequence + 1
    /\ Emit(now, sequence + 1)
    /\ UNCHANGED <<now, lastTimestamp, overflowed, setbacks>>

\* The next millisecond is waited for, but the id has the timestamp of before.
GenerateAfterWait ==
    /\ now <= lastTimestamp /\ sequence >= MaxSequence /\ now < Horizon
    /\ now' = now + 1 /\ lastTimestamp' = now + 1 /\ sequence' = 0
    /\ Emit(now, 0)
    /\ overflowed' = TRUE
    /\ UNCHANGED setbacks

FlakeNext == Tick \/ ClockSetBack \/ GenerateFirst \/ GenerateNext \/ GenerateAfterWait

FlakeSpec == FlakeInit /\ [][FlakeNext]_flakeVars

-----------------------------------------------------------------------------
(* Types of the generator.                                                   *)
FlakeTypeOK ==
    /\ now \in -1..Horizon /\ lastTimestamp \in 0..Horizon /\ sequence \in 0..MaxSequence
    /\ issued \subseteq (0..Horizon) \X (0..MaxSequence)
    /\ {twice, overflowed} \subseteq BOOLEAN /\ setbacks \in 0..Setbacks

(* No id is issued twice as long as the clock is not set back and no         *)
(* millisecond needs more ids than the sequence has, and decode() finds in   *)
(* every id the time it was made at: the sequence never reaches the bits of  *)
(* the machine.                                                              *)
UniqueIds ==
    /\ twice => overflowed \/ setbacks > 0
    /\ \A e \in issued : Decode(IdOf(e[1], e[2])) =
           [timestamp |-> e[1], machine |-> Machine, sequence |-> e[2]]
=============================================================================
