------------------------------ MODULE SmemFifo ------------------------------
(***************************************************************************)
(* What the queue of a consumer's context promises: a bounded first-in     *)
(* first-out queue that refuses a value when, and only when, it is full.   *)
(***************************************************************************)
EXTENDS Naturals, Sequences

CONSTANTS Values, Capacity, NoValue

VARIABLES
  fifo,    \* the values in the queue
  pushed,  \* what the last push returned: was there room
  got      \* what the last pop returned

FifoInit == fifo = << >> /\ pushed = TRUE /\ got = NoValue

Push(v) ==
  IF Len(fifo) < Capacity
  THEN fifo' = Append(fifo, v) /\ pushed' = TRUE /\ UNCHANGED got
  ELSE pushed' = FALSE /\ UNCHANGED <<fifo, got>>

Pop ==
  /\ UNCHANGED pushed
  /\ IF fifo = << >>
     THEN got' = NoValue /\ UNCHANGED fifo
     ELSE got' = Head(fifo) /\ fifo' = Tail(fifo)

FifoNext == Pop \/ \E v \in Values : Push(v)

FifoSpec == FifoInit /\ [][FifoNext]_<<fifo, pushed, got>>
=============================================================================
