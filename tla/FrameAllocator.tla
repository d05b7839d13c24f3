--------------------------- MODULE FrameAllocator ---------------------------
(***************************************************************************)
(* What include/mm/physical_alloc.h promises: a set of free frames, filled *)
(* at boot with the RAM that is not reserved, from which single frames are *)
(* handed out, and to which they return.                                   *)
(***************************************************************************)
EXTENDS Integers

CONSTANTS Limit,        \* 4 GiB
          NULL          \* mm_alloc_physical returned false

VARIABLES usable,       \* the frames of unreserved RAM on this machine
          ready,        \* mm_init_physical has returned
          free,         \* the free frames
          ret           \* the last call and its result

vars == <<usable, ready, free, ret>>

Init == /\ ready = FALSE
        /\ free = {}
        /\ ret = <<"init">>

InitPhysical == /\ ~ready
                /\ ready' = TRUE
                /\ free' = usable
                /\ UNCHANGED <<usable, ret>>

(* The frames a request may be met from: memory below 4 GiB is left to the *)
(* requests that need it, as long as there is any above.                   *)
Candidates(below4g) ==
    LET above == {f \in free : f >= Limit}
    IN  IF below4g \/ above = {} THEN free \ above ELSE above

Alloc(below4g) ==
    /\ ready
    /\ \/ \E f \in Candidates(below4g) :
             /\ ret' = <<"alloc", below4g, f>>
             /\ free' = free \ {f}
       \/ /\ ret' = <<"alloc", below4g, NULL>>
          /\ Candidates(below4g) = {}
          /\ UNCHANGED free
    /\ UNCHANGED <<usable, ready>>

Free(f) ==
    /\ ready
    /\ ret' = <<"free", f>>
    /\ f \notin free
    /\ free' = free \cup {f}
    /\ UNCHANGED <<usable, ready>>

Next == InitPhysical \/ (\E b \in BOOLEAN : Alloc(b)) \/ (\E f \in usable : Free(f))

Spec == Init /\ [][Next]_vars
=============================================================================
