-------------------------------- MODULE PbQue --------------------------------
(***************************************************************************)
(* The doubly linked queue of pbque.h.  A queue is the record of the       *)
(* pointers of its items and of the two sentinels of its head: bck leads   *)
(* towards the end, fwd towards the beginning.  An inline function that    *)
(* changes the queue is an operator that returns the changed one, its      *)
(* assignments made in the order of the code.  insert_back, insert_front,  *)
(* insert_end and pop_front have no caller.                                *)
(***************************************************************************)
EXTENDS Naturals

CONSTANTS Items, Begin, End, Null

Nodes == Items \cup {Begin, End}

\* init_que_head, and init_que of every item.
init_que_head ==
  [count |-> 0,
   fwd |-> [n \in Nodes |-> IF n = End THEN Begin ELSE Null],
   bck |-> [n \in Nodes |-> IF n = Begin THEN End ELSE Null],
   linked |-> [i \in Items |-> FALSE]]     \* head # NULL

begin_item(q) == q.bck[Begin]
end_item(q) == q.fwd[End]

\* Only the sentinels carry no data.
is_que_end(n) == n \in {Begin, End}

\* Mutant: the neighbour behind keeps its pointer to the item.
remove_item_OneWay(q, target) ==
  [count |-> q.count - 1,
   bck |-> [q.bck EXCEPT ![q.fwd[target]] = q.bck[target], ![target] = Null],
   fwd |-> [q.fwd EXCEPT ![target] = Null],
   linked |-> [q.linked EXCEPT ![target] = FALSE]]

remove_item(q, target) ==
  LET bck == [q.bck EXCEPT ![q.fwd[target]] = q.bck[target], ![target] = Null]
      fwd == [q.fwd EXCEPT ![q.bck[target]] = q.fwd[target], ![target] = Null]
      last == q.count = 1
  IN  [count |-> q.count - 1,
       bck |-> IF last THEN [bck EXCEPT ![Begin] = End] ELSE bck,
       fwd |-> IF last THEN [fwd EXCEPT ![End] = Begin] ELSE fwd,
       linked |-> [q.linked EXCEPT ![target] = FALSE]]

\* target goes in front of pos.
insert_forward(q, pos, target) ==
  [count |-> q.count + 1,
   bck |-> [q.bck EXCEPT ![target] = pos, ![q.fwd[pos]] = target],
   fwd |-> [q.fwd EXCEPT ![pos] = target, ![target] = q.fwd[pos]],
   linked |-> [q.linked EXCEPT ![target] = TRUE]]

\* The pointers are those of the sequence items.
Holds(q, items, len) ==
  LET node(i) == IF i = 0 THEN Begin ELSE IF i = len + 1 THEN End ELSE items[i]
  IN  /\ q.count = len
      /\ \A i \in 0..len : q.bck[node(i)] = node(i + 1) /\ q.fwd[node(i + 1)] = node(i)
      /\ \A n \in Items :
           /\ q.linked[n] <=> \E i \in 1..len : items[i] = n
           /\ ~q.linked[n] => q.fwd[n] = Null /\ q.bck[n] = Null
=============================================================================
