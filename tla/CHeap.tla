--------------------------------- MODULE CHeap ---------------------------------
(***************************************************************************)
(* Objects that C libraries hand out by pointer: connections, statements,  *)
(* results, lists, buffers, files.  A binding keeps the pointer in a Lua   *)
(* userdata, passes it back and frees it.  An object that is used or freed *)
(* when it is not live is abused from then on, whatever happens next.      *)
(***************************************************************************)
HeapStates == {"none", "live", "freed", "abused"}

Allocated(heap, S) == [x \in DOMAIN heap |-> IF x \in S THEN "live" ELSE heap[x]]
Used(heap, S)      == [x \in DOMAIN heap |-> IF x \in S /\ heap[x] # "live" THEN "abused" ELSE heap[x]]
Released(heap, S)  == [x \in DOMAIN heap |-> IF x \notin S THEN heap[x]
                                             ELSE IF heap[x] = "live" THEN "freed" ELSE "abused"]

\* Nothing has been abused, and what is live is held by somebody who will free it.
Sound(heap, held) == \A x \in DOMAIN heap : /\ heap[x] # "abused"
                                            /\ heap[x] = "live" => x \in held
================================================================================
