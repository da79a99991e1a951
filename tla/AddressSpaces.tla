--------------------------- MODULE AddressSpaces ---------------------------
(***************************************************************************)
(* What page tables are for: each address space maps virtual pages to      *)
(* frames, and mapping one page of one space changes nothing else.         *)
(***************************************************************************)
CONSTANTS
  Spaces,    \* the address spaces there may be
  Virt,      \* virtual pages
  Entries    \* what a page can be mapped to: a frame and its flags

\* For the spaces made so far, space -> virtual page -> its entry, if any, as a set.
VARIABLE map

Init == map = [s \in {} |-> [v \in Virt |-> {}]]

\* A new address space, in which nothing is mapped.
Make(old, new) ==
  \E s \in Spaces \ DOMAIN old :
    /\ DOMAIN new = DOMAIN old \cup {s}
    /\ \A r \in DOMAIN old : new[r] = old[r]
    /\ new[s] = [v \in Virt |-> {}]

\* One page of one space is mapped, whatever it was mapped to before.
MapPage(old, new) ==
  LET changed == {p \in (DOMAIN old) \X Virt : new[p[1]][p[2]] # old[p[1]][p[2]]}
  IN  /\ DOMAIN new = DOMAIN old
      /\ \E p \in changed : \E e \in new[p[1]][p[2]] :
           changed = {p} /\ e \in Entries /\ new[p[1]][p[2]] = {e}

Next == Make(map, map') \/ MapPage(map, map')

Spec == Init /\ [][Next]_map
=============================================================================
