------------------------------ MODULE InitGlobal ------------------------------
(***************************************************************************)
(* InitGlobal<T> (include/muddy/common/InitGlobal.hpp): every translation  *)
(* unit that includes T's header has a static object whose constructor and *)
(* destructor count; the first constructs the one T, the last destroys it. *)
(* A global is the record of that counter and of what has become of T.     *)
(***************************************************************************)
EXTENDS Naturals

NewGlobal == [counter |-> 0, object |-> "raw"]

\* A mistake: the counter is tested after it was incremented.
BadAfterEnter(g) ==
  [counter |-> g.counter + 1, object |-> IF g.counter + 1 = 0 THEN "alive" ELSE g.object]

\* InitGlobal(): counter++ == 0
AfterEnter(g) ==
  [counter |-> g.counter + 1, object |-> IF g.counter = 0 THEN "alive" ELSE g.object]

\* ~InitGlobal(): --counter == 0
AfterLeave(g) ==
  [counter |-> g.counter - 1, object |-> IF g.counter = 1 THEN "dead" ELSE g.object]
=============================================================================
