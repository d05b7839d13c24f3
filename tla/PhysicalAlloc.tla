--------------------------- MODULE PhysicalAlloc ----------------------------
(***************************************************************************)
(* The physical memory allocator, mm/physical_alloc.c.                     *)
(*                                                                         *)
(* Addresses count in units that are smaller than a page: PageSize units   *)
(* make a page, so that regions need not start or end on a page boundary.  *)
(* The allocator's state is one record P:                                  *)
(*    mem   the struct physical_free_list in every frame of the machine;   *)
(*    head  free_list_head_above_4g and free_list_head_below_4g.           *)
(* A free list is a chain of runs of frames, the header of each run in its *)
(* first frame; address 0 ends it.  mm_init_physical is a sequential       *)
(* program of its own: pc is where it is, node and entry the loop over the *)
(* memory nodes, start and end the locals of consider_physical_memory.     *)
(***************************************************************************)
EXTENDS Integers, SequencesExt

CONSTANTS PageSize,     \* 1 << 12
          Limit,        \* 1 << 32
          Top,          \* the end of the address space
          Boards,       \* the devicetrees the kernel may be booted with
          NULL          \* mm_alloc_physical returned false

Address == 0..Top
Frame   == {f \in Address : f % PageSize = 0}

(* A reg entry, which ends in the address space.  A board: the reg         *)
(* properties of the memory@ nodes and of the children of /reserved-memory *)
(* (a node without reg has an empty one); whether /reserved-memory can be  *)
(* read and its array allocated.                                           *)
RegEntry == {r \in [addr : Address, size : Address] : r.addr + r.size <= Top}
Board    == [memory : Seq(Seq(RegEntry)), reserved : Seq(Seq(RegEntry)),
             readable : BOOLEAN]

ASSUME PhysicalConstants ==
    /\ PageSize \in Nat \ {0}
    /\ Top \in Nat /\ Top \in Frame
    /\ Limit \in Frame \ {0}
    /\ Boards \subseteq Board
    /\ NULL \notin Address

VARIABLES board,        \* the machine
          phys,         \* the allocator's state P
          pc,           \* "boot", "next", "consider", "run" or "panic"
          reservations, \* the array of reserved_memory_to_array
          node, entry,  \* the loop of mm_init_physical
          start, end,   \* the loop of consider_physical_memory
          held,         \* the frames that callers hold
          ret           \* the last call that returned, and its result

bootVars == <<node, entry, start, end, reservations>>
vars == <<board, phys, pc, bootVars, held, ret>>
-----------------------------------------------------------------------------
(* The free lists.                                                         *)

physical_free_list_push(P, length, addr, list) ==
    [mem  |-> [P.mem EXCEPT ![addr] = [next |-> P.head[list], length |-> length]],
     head |-> [P.head EXCEPT ![list] = addr]]

(* The rest of the run keeps the header of the whole run. *)
Pop_keep_length(P, list) ==
    LET out  == P.head[list]
        link == P.mem[out]
    IN  IF link.length = 1
        THEN [P EXCEPT !.head[list] = link.next]
        ELSE [P EXCEPT !.head[list] = out + PageSize, !.mem[out + PageSize] = link]

(* physical_free_list_pop of a list that is not empty: its first frame     *)
(* goes, and the rest of the run gets a header.                            *)
Pop(P, list) ==
    LET out  == P.head[list]
        link == P.mem[out]
    IN  IF link.length = 1
        THEN [P EXCEPT !.head[list] = link.next]
        ELSE [P EXCEPT !.head[list] = out + PageSize,
                       !.mem[out + PageSize] = [link EXCEPT !.length = @ - 1]]

align_down(a) == a - (a % PageSize)
align_up(a)   == align_down(a + PageSize - 1)

ListOf(f) == IF f >= Limit THEN "above" ELSE "below"

Pages(lo, hi) == (hi - lo) \div PageSize

(* The chunk is rounded outwards. *)
add_physical_chunk_outwards(P, lo, hi) ==
    LET s == align_down(lo)
        e == align_up(hi)
    IN  IF s >= e THEN P ELSE physical_free_list_push(P, Pages(s, e), s, ListOf(s))

(* A chunk is rounded inwards to page boundaries, and cut at 4 GiB. *)
add_physical_chunk(P, lo, hi) ==
    LET s == align_up(lo)
        e == align_down(hi)
    IN  IF s >= e THEN P
        ELSE IF s >= Limit THEN physical_free_list_push(P, Pages(s, e), s, "above")
        ELSE IF e >= Limit
             THEN physical_free_list_push(
                     physical_free_list_push(P, Pages(s, Limit), s, "below"),
                     Pages(Limit, e), Limit, "above")
        ELSE physical_free_list_push(P, Pages(s, e), s, "below")
-----------------------------------------------------------------------------
(* mm_init_physical.                                                       *)

paddr_in_range(a, lo, hi) == lo <= a /\ a < hi

Range_of(reg) == [start |-> reg.addr, end |-> reg.addr + reg.size]

(* The entries of one reg property that the loops of                       *)
(* reserved_memory_to_array see: the call's j++ and the loop's j++ make    *)
(* them skip every other one.                                              *)
EntriesRead(reg) == [k \in 1..((Len(reg) + 1) \div 2) |-> Range_of(reg[2 * k - 1])]

ArrayOf(b) == FlattenSeq([n \in DOMAIN b.reserved |-> EntriesRead(b.reserved[n])])

(* The array has room for all the entries; its last assert panics unless   *)
(* all of them were read.                                                  *)
reserved_memory_to_array ==
    /\ pc = "boot"
    /\ IF board.readable /\ Len(ArrayOf(board)) = Len(FlattenSeq(board.reserved))
       THEN pc' = "next" /\ reservations' = ArrayOf(board)
       ELSE pc' = "panic" /\ UNCHANGED reservations
    /\ UNCHANGED <<board, phys, node, entry, start, end, held, ret>>

(* The next entry of a memory@ node, or the next node, or the end of       *)
(* mm_init_physical.  Again i++ is done twice.                             *)
NextMemory ==
    /\ pc = "next"
    /\ IF node > Len(board.memory)
       THEN pc' = "run" /\ UNCHANGED <<node, entry, start, end>>
       ELSE IF entry > Len(board.memory[node])
       THEN node' = node + 1 /\ entry' = 1 /\ UNCHANGED <<pc, start, end>>
       ELSE /\ start' = Range_of(board.memory[node][entry]).start
            /\ end' = Range_of(board.memory[node][entry]).end
            /\ entry' = entry + 2
            /\ pc' = "consider"
            /\ UNCHANGED node
    /\ UNCHANGED <<board, phys, reservations, held, ret>>

Reservation == DOMAIN reservations

Inside(a) == {i \in Reservation :
                 paddr_in_range(a, reservations[i].start, reservations[i].end)}

(* top: the last reservation in the array that starts in the range. *)
LastOverlap ==
    LET is == {i \in Reservation : paddr_in_range(reservations[i].start, start, end)}
    IN  IF is = {} THEN end ELSE reservations[Max(is)].start

(* The loop behind bump_up_start, with the wrong end of the reservation. *)
BumpUpStart_stuck ==
    /\ pc = "consider"
    /\ Inside(start) # {}
    /\ start' = reservations[Min(Inside(start))].start
    /\ UNCHANGED <<board, phys, pc, node, entry, end, reservations, held, ret>>

(* The loop behind bump_up_start. *)
BumpUpStart ==
    /\ pc = "consider"
    /\ Inside(start) # {}
    /\ start' = reservations[Min(Inside(start))].end
    /\ UNCHANGED <<board, phys, pc, node, entry, end, reservations, held, ret>>

(* One chunk up to the next reservation, or the end of the region. *)
consider_physical_memory ==
    /\ pc = "consider"
    /\ Inside(start) = {}
    /\ IF start >= end
       THEN pc' = "next" /\ UNCHANGED <<phys, start>>
       ELSE /\ phys' = add_physical_chunk(phys, start, LastOverlap)
            /\ start' = LastOverlap
            /\ UNCHANGED pc
    /\ UNCHANGED <<board, node, entry, end, reservations, held, ret>>
-----------------------------------------------------------------------------
(* The list a request is met from. *)
ListFor_any(P, below4g) ==
    IF P.head["above"] # 0 THEN "above" ELSE "below"

ListFor(P, below4g) ==
    IF ~below4g /\ P.head["above"] # 0 THEN "above" ELSE "below"

(* The caller owns the frame and overwrites the header that was in it. *)
Overwrite(P, f) == [P EXCEPT !.mem[f] = [next |-> 0, length |-> 0]]

mm_alloc_physical(below4g) ==
    /\ pc = "run"
    /\ LET list == ListFor(phys, below4g)
           out  == phys.head[list]
       IN  IF out = 0
           THEN ret' = <<"alloc", below4g, NULL>> /\ UNCHANGED <<phys, pc, held>>
           ELSE IF phys.mem[out].length = 0
           THEN pc' = "panic" /\ UNCHANGED <<phys, held, ret>>
           ELSE /\ phys' = Overwrite(Pop(phys, list), out)
                /\ held' = held \cup {out}
                /\ ret' = <<"alloc", below4g, out>>
                /\ UNCHANGED pc
    /\ UNCHANGED <<board, bootVars>>

mm_free_physical(f) ==
    /\ pc = "run"
    /\ phys' = physical_free_list_push(phys, 1, f, ListOf(f))
    /\ held' = held \ {f}
    /\ ret' = <<"free", f>>
    /\ UNCHANGED <<board, pc, bootVars>>

Halt == pc = "panic" /\ UNCHANGED vars

Init ==
    /\ board \in Boards
    /\ phys = [mem  |-> [f \in Frame |-> [next |-> 0, length |-> 0]],
               head |-> [list \in {"above", "below"} |-> 0]]
    /\ pc = "boot"
    /\ reservations = <<>>
    /\ node = 1 /\ entry = 1 /\ start = 0 /\ end = 0
    /\ held = {}
    /\ ret = <<"init">>

InitPhysical == \/ reserved_memory_to_array
                \/ NextMemory
                \/ BumpUpStart
                \/ consider_physical_memory

Next == \/ InitPhysical
        \/ \E b \in BOOLEAN : mm_alloc_physical(b)
        \/ \E f \in held : mm_free_physical(f)
        \/ Halt

(* The kernel runs mm_init_physical with interrupts disabled: it goes on.  *)
Spec == Init /\ [][Next]_vars /\ WF_vars(InitPhysical)
-----------------------------------------------------------------------------
(* The frames of a run. *)
RunFrames(P, f) == {f + PageSize * k : k \in 0..(P.mem[f].length - 1)}

(* The headers reached from the head of the list, in at most k steps. *)
Reached(P, list) ==
    LET reach[k \in 0..Cardinality(Frame)] ==
          IF k = 0 THEN {P.head[list]} \ {0}
          ELSE LET r == reach[k - 1] IN r \cup ({P.mem[f].next : f \in r} \ {0})
    IN  reach[Cardinality(Frame)]

FreeIn(P, list) == UNION {RunFrames(P, f) : f \in Reached(P, list)}
FreeFrames(P)   == FreeIn(P, "above") \cup FreeIn(P, "below")

(* The frame f shares no unit with the entry r; it lies in r. *)
ClearOf(f, r) == f + PageSize <= r.addr \/ r.addr + r.size <= f \/ r.size = 0
Within(f, r)  == r.addr <= f /\ f + PageSize <= r.addr + r.size

Entries(regs) == UNION {Range(regs[n]) : n \in DOMAIN regs}

IsReserved(f) == \E r \in Entries(board.reserved) : ~ClearOf(f, r)

(* The frames that lie in one entry of memory, clear of all reservations.  *)
Usable == {f \in Frame \ {0} :
              ~IsReserved(f) /\ \E r \in Entries(board.memory) : Within(f, r)}

(* The boards that mm_init_physical is right about.  Memory nodes have one *)
(* entry at most (the loop skips the second), do not overlap and do not    *)
(* hold address 0, which ends a list; reservations are not empty (those    *)
(* are never bumped over), and in any region they come in descending order *)
(* (the last one counts as the lowest); no chunk ends at Limit (what is    *)
(* left above it would be an empty run).                                   *)
StartIn(b, r) == {i \in DOMAIN ArrayOf(b) :
                     paddr_in_range(ArrayOf(b)[i].start, r.addr, r.addr + r.size)}

Supported(b) ==
    /\ \A n \in DOMAIN b.memory : Len(b.memory[n]) <= 1
    /\ \A m, n \in DOMAIN b.memory :
          m # n => \A r \in Range(b.memory[m]), s \in Range(b.memory[n]) :
                      r.addr + r.size <= s.addr \/ s.addr + s.size <= r.addr
    /\ \A r \in Entries(b.reserved) : r.size > 0
    /\ \A r \in Entries(b.memory) :
          /\ r.addr > 0 /\ align_down(r.addr + r.size) # Limit
          /\ \A i, j \in StartIn(b, r) : i < j => ArrayOf(b)[j].start <= ArrayOf(b)[i].start
          /\ \A i \in StartIn(b, r) : align_down(ArrayOf(b)[i].start) # Limit

SupportedBoards == \A b \in Boards : Supported(b)

(* The fields have their types; every header is of a frame of the machine. *)
TypeOK ==
    /\ board \in Boards
    /\ phys \in [mem : [Frame -> [next : Frame, length : Nat]],
                 head : [{"above", "below"} -> Frame]]
    /\ pc \in {"boot", "next", "consider", "run", "panic"}
    /\ \A i \in DOMAIN reservations : reservations[i].start <= reservations[i].end
    /\ start \in Nat /\ end \in Nat
    /\ held \subseteq Frame

(* The two chains are finite and their runs do not overlap, each on its    *)
(* side of 4 GiB; no frame is in a free run and in somebody's hands, and   *)
(* none is lost, however runs are cut, popped and pushed back.             *)
FreeListsSound ==
    /\ \A list \in {"above", "below"} :
          /\ \A f \in Reached(phys, list) :
                \A g \in Reached(phys, list) \ {f} :
                   /\ RunFrames(phys, f) \cap RunFrames(phys, g) = {}
                   /\ phys.mem[f].next # phys.mem[g].next
          /\ \A f \in FreeIn(phys, list) : ListOf(f) = list
    /\ FreeFrames(phys) \cap held = {}
    /\ pc = "run" => FreeFrames(phys) \cup held = Usable

(* "Finds the chunks that don't overlap with memory reservations"          *)
(* (physical_alloc.c:102): no part of a reservation is ever free or handed *)
(* out.                                                                    *)
ReservedStaysReserved ==
    \A f \in FreeFrames(phys) \cup held : ~IsReserved(f)

(* "From the memory and reservations, we can find all the free regions of  *)
(* unreserved RAM" (doc/kernel/mm/booting.md:50).                          *)
AllRamIsFound == pc = "run" => Usable \subseteq FreeFrames(phys) \cup held

(* assert(link.length > 0) of physical_free_list_pop (physical_alloc.c:47) *)
(* holds of every run that the next call may pop.                          *)
RunsAreNotEmpty ==
    \A list \in {"above", "below"} : \A f \in Reached(phys, list) : phys.mem[f].length > 0

(* mm_init_physical ends: the goto bump_up_start makes progress.           *)
BootEnds == <>(pc \in {"run", "panic"})

(* The allocator implements FrameAllocator.  A frame is granted only while *)
(* it is free, below 4 GiB when asked for, and a request is refused only   *)
(* when no frame could have met it.                                        *)
Abstract == INSTANCE FrameAllocator WITH
                usable <- Usable,
                ready  <- pc = "run",
                free   <- IF pc = "run" THEN FreeFrames(phys) ELSE {}
ImplementsFrameAllocator == Abstract!Spec
=============================================================================
