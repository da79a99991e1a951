-------------------------- MODULE MCVirtualMemory --------------------------
(***************************************************************************)
(* Tables of two entries, of 44 at the lowest level.  The window lies in   *)
(* the lower half, the kernel, the stack and segments in the third         *)
(* quarter, the kernel stack in the last.                                  *)
(***************************************************************************)
EXTENDS VirtualMemory

MCSpan == <<44, 2, 2, 2>>
MCIndexes == 0 .. 43
MCFrames == 0 .. 41
MCVirt == (0 .. 42) \cup (176 .. 199) \cup (264 .. 267)

\* What a frame holds from earlier: entries that would lead anywhere.
Junk == [frame |-> 1, flags |-> RwUser]
MCContents == {[f \in MCFrames |-> [x \in MCIndexes |-> Junk]]}

MachineOf(usable, window, framebuffer, screen, cpus, bsp) ==
  [usable |-> usable, window |-> window, kernel |-> 0, kernelPages |-> 1,
   framebuffer |-> framebuffer, screen |-> screen, cpus |-> cpus, bsp |-> bsp]

\* Two processors, and a hole in memory; another framebuffer before the screen's,
\* a processor_id that is not the LAPIC id, and little memory; memory beyond
\* the window; no framebuffer.
MCMachines ==
  {MachineOf((2 .. 41) \ {38}, 42, <<1, 1>>, 1, <<1, 0>>, 0),
   MachineOf(3 .. 30, 31, <<1, 1>>, 2, <<1>>, 0),
   MachineOf(2 .. 41, 20, <<1, 1>>, 1, <<0>>, 0),
   MachineOf(2 .. 41, 8, <<>>, 1, <<0>>, 0)}

SegmentOf(load, virt, offset, filesz, memsz) ==
  [load |-> load, virt |-> virt, offset |-> offset, filesz |-> filesz, memsz |-> memsz]
MCPrograms ==
  {<<SegmentOf(TRUE, 192, 0, 2, 2), SegmentOf(FALSE, 176, 0, 2, 2), SegmentOf(TRUE, 193, 0, 1, 3)>>,
   <<SegmentOf(TRUE, 192, 0, 3, 3), SegmentOf(TRUE, 193, 0, 0, 0)>>,
   <<SegmentOf(TRUE, 192, 1, 1, 1)>>}

\* The programs are laid out as umode_link.ld lays them out.
ASSUME ProgramsApart == SegmentsApart
=============================================================================
