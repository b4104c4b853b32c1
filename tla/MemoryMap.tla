------------------------------- MODULE MemoryMap -------------------------------
(***************************************************************************)
(* How QEMU finds the region that answers an address: the rules the        *)
(* machine code relies on when it maps one region into another.            *)
(*                                                                         *)
(* A map is a sequence of placements, in the order they were made.  A      *)
(* placement puts the region mr into the container in at the address at,   *)
(* with a size and a priority.  Where placements overlap, the one of the   *)
(* highest priority is on top, and of two with the same priority the one   *)
(* made last.  A container answers nothing itself: where it is empty, what *)
(* lies below it shows through.  An alias shows another region from its    *)
(* start.  A region that was taken out keeps its placement, with nothing   *)
(* to be in.  Addresses and sizes are in units of 256 bytes.               *)
(***************************************************************************)
EXTENDS Naturals, Sequences

CONSTANTS
  Containers,  \* the regions that only hold others
  AliasOf      \* for each alias the region it shows

Place(mr, in, at, size, prio) ==
  [mr |-> mr, in |-> in, at |-> at, size |-> size, prio |-> prio]

\* A device's registers, of which the first unit stands for all.
At(mr, in, at) == Place(mr, in, at, 1, 0)

\* memory_region_del_subregion: the region has no container any more.
TakenOut(map, mr) ==
  [k \in DOMAIN map |-> IF map[k].mr = mr THEN [map[k] EXCEPT !.in = "none"] ELSE map[k]]

Hole == <<"hole", 0>>

Hits(map, r, a) ==
  {i \in DOMAIN map : /\ map[i].in = r
                      /\ map[i].at <= a
                      /\ a < map[i].at + map[i].size}

OnTop(map, i, j) ==
  \/ map[i].prio > map[j].prio
  \/ map[i].prio = map[j].prio /\ i >= j

\* What address b of region s shows, given what the regions in it and the one
\* it is an alias of show.
Shows(map, shown, s, b) ==
  IF s \in DOMAIN AliasOf THEN shown[<<AliasOf[s], b>>]
  ELSE IF s \notin Containers THEN <<s, b>>
  ELSE LET below(i) == shown[<<map[i].mr, b - map[i].at>>]
           solid == {i \in Hits(map, s, b) : below(i) # Hole}
       IN  IF solid = {} THEN Hole
           ELSE below(CHOOSE i \in solid : \A j \in solid : OnTop(map, i, j))

\* The regions that may be asked for an address of r.
Named(map, r) ==
  {r} \cup {map[k].mr : k \in DOMAIN map} \cup {AliasOf[s] : s \in DOMAIN AliasOf}

\* The region that answers address a of region r, and the address inside it.
Answer(map, r, a) ==
  LET shown[p \in Named(map, r) \X (0 .. a)] == Shows(map, shown, p[1], p[2])
  IN  shown[<<r, a>>]

\* Where region r begins, seen from region top: the sum of the addresses of
\* the placements it is reached by.  Only for a region placed once on the way;
\* one that is placed nowhere begins at 0.
Begins(map, top, r) ==
  LET placed(s) == {i \in DOMAIN map : map[i].mr = s /\ map[i].in # "none"}
      begin[s \in Containers \cup {map[k].mr : k \in DOMAIN map}] ==
        IF s = top \/ placed(s) = {} THEN 0
        ELSE LET i == CHOOSE i \in placed(s) : TRUE
             IN  begin[map[i].in] + map[i].at
  IN  begin[r]
=============================================================================
