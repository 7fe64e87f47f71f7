---------------------------- MODULE BoundedFifo ----------------------------
(***************************************************************************)
(* What both queues of src/concurrency promise to their callers: a bounded *)
(* first-in first-out channel.  The k-th value handed in by producer p is  *)
(* written <<p, k>>, so an implementation of this specification loses,     *)
(* duplicates, invents and reorders nothing.                               *)
(***************************************************************************)
EXTENDS Naturals, Sequences

CONSTANTS Producers, Consumers,  \* the threads that push and that pop
          Bound                  \* how many values may be pending at once

VARIABLES sent,     \* sent[p]: how many values producer p has handed in
          pending,  \* the values handed in and not yet taken, oldest first
          taken     \* taken[c]: the value consumer c took last

vars == <<sent, pending, taken>>

Nothing == <<>>   \* what a consumer holds before its first take

Init ==
  /\ sent = [p \in Producers |-> 0]
  /\ pending = <<>>
  /\ taken = [c \in Consumers |-> Nothing]

Push(p) ==
  /\ Len(pending) < Bound
  /\ sent' = [sent EXCEPT ![p] = @ + 1]
  /\ pending' = Append(pending, <<p, sent[p] + 1>>)
  /\ UNCHANGED taken

Pop(c) ==
  /\ pending # <<>>
  /\ taken' = [taken EXCEPT ![c] = Head(pending)]
  /\ pending' = Tail(pending)
  /\ UNCHANGED sent

Next == (\E p \in Producers : Push(p)) \/ (\E c \in Consumers : Pop(c))

Spec == Init /\ [][Next]_vars
=============================================================================
