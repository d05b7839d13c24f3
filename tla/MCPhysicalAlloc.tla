-------------------------- MODULE MCPhysicalAlloc ---------------------------
(* Machines of up to nine frames of RAM, two units a frame, on both sides *)
(* of Limit.                                                              *)
EXTENDS PhysicalAlloc

Reg(lo, hi) == [addr |-> lo, size |-> hi - lo]

Machine(memory, reserved) ==
    [memory |-> memory, reserved |-> reserved, readable |-> TRUE]

(* Machines on which mm_init_physical does its work: one entry in each     *)
(* reg, at most one reservation above the start of a region or several in  *)
(* descending order, no region that ends at Limit, none that holds page 0. *)
(* On the last two it panics.                                              *)
GoodBoards ==
    {Machine(<< <<Reg(2, 20)>> >>, << <<Reg(5, 7)>> >>),
     Machine(<< <<Reg(3, 9)>>, <<Reg(10, 17)>> >>, << <<Reg(14, 15)>>, <<Reg(2, 4)>>, <<>> >>),
     Machine(<< <<Reg(1, 18)>> >>,
             << <<Reg(13, 15)>>, <<Reg(8, 9)>>, <<Reg(0, 3)>>, <<Reg(3, 4)>> >>),
     [Machine(<< <<Reg(2, 14)>> >>, <<>>) EXCEPT !.readable = FALSE],
     Machine(<< <<Reg(2, 14)>> >>, << <<Reg(2, 4), Reg(6, 8)>> >>)}

ASSUME GoodBoardsAssumption == \A b \in GoodBoards : Supported(b)

(* Two reservations in ascending order. *)
AscendingBoards == {Machine(<< <<Reg(2, 18)>> >>, << <<Reg(4, 6)>>, <<Reg(12, 14)>> >>)}

(* A memory node with two entries in its reg. *)
TwoEntryBoards == {Machine(<< <<Reg(2, 6), Reg(10, 14)>> >>, << <<Reg(2, 4)>> >>)}

(* A region that ends at Limit. *)
LimitBoards == {Machine(<< <<Reg(2, 10)>> >>, << <<Reg(2, 4)>> >>)}
=============================================================================
