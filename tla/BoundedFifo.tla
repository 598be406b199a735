---------------------------- MODULE BoundedFifo ----------------------------
(***************************************************************************)
(* What the users of MultiplayerRingBuffer are promised: a first-in        *)
(* first-out queue of at most Capacity values, that refuses the newest     *)
(* value when it is full (try_push) or, on request, gives up its oldest    *)
(* one (push_overwrite).  Nothing is said of slots or positions.           *)
(***************************************************************************)
EXTENDS Integers, Sequences

CONSTANTS
  Capacity, \* the most values the queue can hold
  Value     \* the values it can hold

VARIABLES
  queue,    \* the values, the oldest first
  answer    \* what the last call gave back: <<>> or the outcome of the call

fifoVars == <<queue, answer>>

FifoInit ==
  /\ queue = <<>>
  /\ answer = <<>>

FifoTryPush(v) ==
  \/ /\ Len(queue) < Capacity
     /\ queue' = Append(queue, v)
     /\ answer' = <<TRUE>>
  \/ /\ Len(queue) = Capacity
     /\ queue' = queue
     /\ answer' = <<FALSE>>

FifoPushOverwrite(v) ==
  /\ queue' = IF Len(queue) < Capacity
              THEN Append(queue, v)
              ELSE Append(Tail(queue), v)
  /\ answer' = <<>>

FifoPop ==
  \/ /\ queue # <<>>
     /\ queue' = Tail(queue)
     /\ answer' = <<TRUE, Head(queue)>>
  \/ /\ queue = <<>>
     /\ queue' = queue
     /\ answer' = <<FALSE>>

FifoClear ==
  /\ queue' = <<>>
  /\ answer' = <<>>

FifoNext ==
  \/ \E v \in Value : FifoTryPush(v) \/ FifoPushOverwrite(v)
  \/ FifoPop
  \/ FifoClear

FifoSpec == FifoInit /\ [][FifoNext]_fifoVars
============================================================================
