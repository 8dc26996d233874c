-------------------------------- MODULE Deque --------------------------------
(***************************************************************************)
(* A double-ended queue whose entries are distinct, as `pending_queue` and *)
(* `idle_queue` of the daemon are (every entry carries its own alert).     *)
(* The VecDeque is its set of entries, `in`, with the strict order `ahead` *)
(* they stand in: <<x, y>> \in ahead when x would be popped before y.      *)
(* The representation makes every operation a set expression, which is     *)
(* what the proofs about the daemon use.                                   *)
(***************************************************************************)

\* VecDeque::new()
EmptyDeque == [in |-> {}, ahead |-> {}]

\* push_back: everything already queued stands ahead of x.
PushBack(q, x) == [in |-> q.in \cup {x}, ahead |-> q.ahead \cup (q.in \X {x})]

\* push_front: x stands ahead of everything already queued.
PushFront(q, x) == [in |-> q.in \cup {x}, ahead |-> q.ahead \cup ({x} \X q.in)]

\* The entries of S leave (pop_front of the head, retain, clear).
Without(q, S) ==
  [in |-> q.in \ S, ahead |-> {p \in q.ahead : p[1] \notin S /\ p[2] \notin S}]

\* x takes the place of the entry y (an entry updated in place).
Replace(q, y, x) ==
  LET put(z) == IF z = y THEN x ELSE z
  IN  [in |-> {put(z) : z \in q.in}, ahead |-> {<<put(p[1]), put(p[2])>> : p \in q.ahead}]

\* x is what pop_front would return.
IsFront(q, x) == x \in q.in /\ \A y \in q.in : <<y, x>> \notin q.ahead

\* The queue is a queue: `ahead` is a strict total order of the entries.
IsDeque(q) ==
  /\ q.ahead \subseteq (q.in \X q.in)
  /\ \A x \in q.in : <<x, x>> \notin q.ahead
  /\ \A x, y \in q.in : x # y => <<x, y>> \in q.ahead \/ <<y, x>> \in q.ahead
  /\ \A x, y, z \in q.in : <<x, y>> \in q.ahead /\ <<y, z>> \in q.ahead => <<x, z>> \in q.ahead
==============================================================================
