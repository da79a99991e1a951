--------------------------- MODULE MCKernelEntry ---------------------------
(***************************************************************************)
(* Instances of KernelEntry: machines with every MADT of up to three       *)
(* records, and machines with every other part there or missing, where at  *)
(* most one step that allocates finds no memory, for it is the last.       *)
(***************************************************************************)
EXTENDS KernelEntry

\* A processor, the PIT's override as firmware has it, one for the same input,
\* one that nothing handles, and a record and an override of length 0.
MCRecords ==
  {Record(0, 8, 0, 0), Record(2, 10, 0, 2), Record(2, 10, 5, 2), Record(4, 6, 0, 0),
   Record(5, 0, 0, 0), Record(2, 0, 0, 2)}

MCMadts == UNION {[1 .. n -> MCRecords] : n \in 0 .. 3}

MCEnough == [at \in Allocating |-> "enough"]
MCMemories ==
  {MCEnough} \cup {[MCEnough EXCEPT ![at] = "short"] : at \in Allocating}
             \cup {[MCEnough EXCEPT ![at] = "far"] : at \in {"scheduler", "thread"}}

MCSound(madt, bsp) ==
  [screen |-> TRUE, room |-> TRUE, framebuffer |-> TRUE, rsdp |-> TRUE,
   tables |-> {"APIC", "HPET"}, madt |-> madt, memory |-> MCEnough, bsp |-> bsp,
   cpus |-> {0, 1}]

MCMachines ==
  {MCSound(madt, bsp) : madt \in MCMadts, bsp \in {0, 1}}
    \cup [screen : BOOLEAN, room : BOOLEAN, framebuffer : BOOLEAN, rsdp : BOOLEAN,
          tables : SUBSET {"APIC", "HPET"}, madt : {<<>>}, memory : MCMemories,
          bsp : {0, 1}, cpus : {{0, 1}}]
=============================================================================
