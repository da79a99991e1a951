------------------------- MODULE KernelEntryProofs -------------------------
(***************************************************************************)
(* Proofs about KernelEntry: until the first thread runs an interrupt      *)
(* finds what it needs, and a boot stops where it should, for every        *)
(* machine.                                                                *)
(***************************************************************************)
EXTENDS KernelEntry, NaturalLemmas, FiniteSetTheorems, TLAPS

\* A step of the boot has one place in its order.
LEMMA OrderInjective ==
  /\ DOMAIN BootOrder = 1 .. 23
  /\ \A i, j \in 1 .. 23 : BootOrder[i] = BootOrder[j] => i = j
<1>1. DOMAIN BootOrder = 1 .. 23
  BY DEF BootOrder
<1>2. ASSUME NEW i \in 1 .. 23, NEW j \in 1 .. 23, BootOrder[i] = BootOrder[j]
      PROVE  i = j
  BY <1>2 DEF BootOrder
<1> QED
  BY <1>1, <1>2

\* What is earlier than the next step.
LEMMA EarlierNext ==
  ASSUME NEW i \in 1 .. 22
  PROVE  Earlier(BootOrder[i + 1]) = Earlier(BootOrder[i]) \cup {BootOrder[i]}
<1> DEFINE Before(n) == {BootOrder[j] : j \in 1 .. (n - 1)}
<1>1. ASSUME NEW n \in 1 .. 23
      PROVE  Earlier(BootOrder[n]) = Before(n)
  <2>1. {j \in DOMAIN BootOrder :
           \E k \in DOMAIN BootOrder : BootOrder[k] = BootOrder[n] /\ j < k} = 1 .. (n - 1)
    BY OrderInjective
  <2> QED
    BY <2>1 DEF Earlier
<1>2. Before(i + 1) = Before(i) \cup {BootOrder[i]}
  <2>1. 1 .. ((i + 1) - 1) = (1 .. (i - 1)) \cup {i}
    OBVIOUS
  <2> QED
    BY <2>1
<1>3. i \in 1 .. 23 /\ i + 1 \in 1 .. 23
  OBVIOUS
<1> QED
  BY <1>1, <1>2, <1>3

\* The initial state.
LEMMA InitInv == Init => IInv
<1> SUFFICES ASSUME Init
             PROVE  IInv
  OBVIOUS
<1> USE DEF Init
<1>1. redirection \in [Inputs -> [masked : BOOLEAN, vector : Nat]]
  OBVIOUS
<1>2. gsis \in Seq([irq : 0 .. 15, gsi : Nat]) /\ Len(gsis) <= MaxGSIs
  BY BoundsAssumption
<1>3. BootInv
  <2> USE DEF ToIdt, ToGdt, ToGs, ToThread, ToCli, ToPeriodic, ToHandler, ToCpus, ToIdle
  <2>1. FlagsInv
    BY DEF FlagsInv
  <2>2. DevicesInv
    BY DEF DevicesInv
  <2>3. CpusInv
    BY DEF CpusInv
  <2>4. machine \in Machines /\ pc \in ToIdle /\ record \in Nat \ {0}
    OBVIOUS
  <2>5. MadtInv
    BY DEF MadtInv
  <2> QED
    BY <1>1, <1>2, <2>1, <2>2, <2>3, <2>4, <2>5 DEF BootInv, TablesInv
<1>4. InterruptsFindTheWay
  BY DEF InterruptsFindTheWay
<1>5. StopsAtItsEnd
  <2>1. Earlier("screen") = {}
    <3>1. BootOrder[1] = "screen" /\ 1 \in DOMAIN BootOrder
      BY DEF BootOrder
    <3>2. \A j \in DOMAIN BootOrder : j \in 1 .. 23 /\ BootOrder[j] = BootOrder[1] => j = 1
      BY OrderInjective DEF BootOrder
    <3> QED
      BY <3>1, OrderInjective DEF Earlier
  <2> QED
    BY <2>1 DEF StopsAtItsEnd
<1> QED
  BY <1>3, <1>4, <1>5 DEF IInv

\* The steps of kernel_entry that program no table.
LEMMA StepInv ==
  ASSUME IInv,
         \/ ScreenInitialize
         \/ IDTInitialize
         \/ RemapPic
         \/ DisablePic
         \/ MemoryInitialize
         \/ SetupGdt
         \/ MapWindow
         \/ MapFramebuffer
         \/ FindMadt
         \/ MadtDone
         \/ LapicInitialize
         \/ SetGs
         \/ SchedulerInitialize
         \/ AddBspThread
         \/ SetupHPET
         \/ ClearInterrupts
         \/ CountTicks
         \/ StartTimer
         \/ AddHandler
         \/ NumberCpus
         \/ EnableInterrupts
  PROVE  BootInv' /\ InterruptsFindTheWay'
<1> USE DEF Goes, Running, apicVars, tableVars, cpuVars, IInv
<1>1. /\ redirection' \in [Inputs -> [masked : BOOLEAN, vector : Nat]]
      /\ \A g \in Inputs : ~redirection'[g].masked => redirection'[g].vector < 16
      /\ record' = record /\ record' \in Nat \ {0}
      /\ gsis' = gsis /\ gsis' \in Seq([irq : 0 .. 15, gsi : Nat]) /\ Len(gsis') <= MaxGSIs
      /\ machine' = machine /\ machine \in Machines
      /\ stop' = stop /\ stop = None
      /\ returned' = returned
      /\ redirection' = redirection
  BY DEF BootInv, TablesInv, InterruptsFindTheWay, ScreenInitialize, IDTInitialize,
         RemapPic, DisablePic, MemoryInitialize, SetupGdt, MapWindow,
         MapFramebuffer, FindMadt, MadtDone, LapicInitialize, SetGs,
         SchedulerInitialize, AddBspThread, SetupHPET, ClearInterrupts, CountTicks,
         StartTimer, AddHandler, NumberCpus, EnableInterrupts
<1>2. InterruptsFindTheWay'
  BY <1>1 DEF InterruptsFindTheWay
<1>3. FlagsInv' /\ pc' \in ToIdle
  <2>0. FlagsInv /\ pc \in ToIdle /\ machine' = machine
    BY <1>1 DEF BootInv
  <2> USE <2>0 DEF FlagsInv, FindTable, ToIdt, ToGdt, ToGs, ToThread, ToCli, ToPeriodic, ToHandler,
                 ToCpus, ToIdle
  <2>1. CASE ScreenInitialize
    BY <2>1 DEF ScreenInitialize
  <2>2. CASE IDTInitialize
    BY <2>2 DEF IDTInitialize
  <2>3. CASE RemapPic
    BY <2>3 DEF RemapPic
  <2>4. CASE DisablePic
    BY <2>4 DEF DisablePic
  <2>5. CASE MemoryInitialize
    BY <2>5 DEF MemoryInitialize
  <2>6. CASE SetupGdt
    BY <2>6 DEF SetupGdt
  <2>7. CASE MapWindow
    BY <2>7 DEF MapWindow
  <2>8. CASE MapFramebuffer
    BY <2>8 DEF MapFramebuffer
  <2>9. CASE FindMadt
    BY <2>9 DEF FindMadt
  <2>10. CASE MadtDone
    BY <2>10 DEF MadtDone
  <2>11. CASE LapicInitialize
    BY <2>11 DEF LapicInitialize
  <2>12. CASE SetGs
    BY <2>12 DEF SetGs
  <2>13. CASE SchedulerInitialize
    BY <2>13 DEF SchedulerInitialize
  <2>14. CASE AddBspThread
    BY <2>14 DEF AddBspThread
  <2>15. CASE SetupHPET
    BY <2>15 DEF SetupHPET
  <2>16. CASE ClearInterrupts
    BY <2>16 DEF ClearInterrupts
  <2>17. CASE CountTicks
    BY <2>17 DEF CountTicks
  <2>18. CASE StartTimer
    BY <2>18 DEF StartTimer
  <2>19. CASE AddHandler
    BY <2>19 DEF AddHandler
  <2>20. CASE NumberCpus
    BY <2>20 DEF NumberCpus
  <2>21. CASE EnableInterrupts
    BY <2>21 DEF EnableInterrupts
  <2> HIDE <2>0
  <2> QED
    BY <2>1, <2>2, <2>3, <2>4, <2>5, <2>6, <2>7, <2>8, <2>9, <2>10, <2>11, <2>12,
       <2>13, <2>14, <2>15, <2>16, <2>17, <2>18, <2>19, <2>20, <2>21
<1>4. DevicesInv' /\ pc' \in ToIdle
  <2>0. DevicesInv /\ pc \in ToIdle /\ machine' = machine
    BY <1>1 DEF BootInv
  <2> USE <2>0 DEF DevicesInv, FindTable, ToIdt, ToGdt, ToGs, ToThread, ToCli, ToPeriodic, ToHandler,
                 ToCpus, ToIdle
  <2>1. CASE ScreenInitialize
    BY <2>1 DEF ScreenInitialize
  <2>2. CASE IDTInitialize
    BY <2>2 DEF IDTInitialize
  <2>3. CASE RemapPic
    BY <2>3 DEF RemapPic
  <2>4. CASE DisablePic
    BY <2>4 DEF DisablePic
  <2>5. CASE MemoryInitialize
    BY <2>5 DEF MemoryInitialize
  <2>6. CASE SetupGdt
    BY <2>6 DEF SetupGdt
  <2>7. CASE MapWindow
    BY <2>7 DEF MapWindow
  <2>8. CASE MapFramebuffer
    BY <2>8 DEF MapFramebuffer
  <2>9. CASE FindMadt
    BY <2>9 DEF FindMadt
  <2>10. CASE MadtDone
    BY <2>10 DEF MadtDone
  <2>11. CASE LapicInitialize
    BY <2>11 DEF LapicInitialize
  <2>12. CASE SetGs
    BY <2>12 DEF SetGs
  <2>13. CASE SchedulerInitialize
    BY <2>13 DEF SchedulerInitialize
  <2>14. CASE AddBspThread
    BY <2>14 DEF AddBspThread
  <2>15. CASE SetupHPET
    BY <2>15 DEF SetupHPET
  <2>16. CASE ClearInterrupts
    BY <2>16 DEF ClearInterrupts
  <2>17. CASE CountTicks
    BY <2>17 DEF CountTicks
  <2>18. CASE StartTimer
    BY <2>18 DEF StartTimer
  <2>19. CASE AddHandler
    BY <2>19 DEF AddHandler
  <2>20. CASE NumberCpus
    BY <2>20 DEF NumberCpus
  <2>21. CASE EnableInterrupts
    BY <2>21 DEF EnableInterrupts
  <2> HIDE <2>0
  <2> QED
    BY <2>1, <2>2, <2>3, <2>4, <2>5, <2>6, <2>7, <2>8, <2>9, <2>10, <2>11, <2>12,
       <2>13, <2>14, <2>15, <2>16, <2>17, <2>18, <2>19, <2>20, <2>21
<1>5. CpusInv' /\ pc' \in ToIdle
  <2>0. CpusInv /\ pc \in ToIdle /\ machine' = machine
    BY <1>1 DEF BootInv
  <2> USE <2>0 DEF CpusInv, FindTable, ToIdt, ToGdt, ToGs, ToThread, ToCli, ToPeriodic, ToHandler,
                 ToCpus, ToIdle
  <2>1. CASE ScreenInitialize
    BY <2>1 DEF ScreenInitialize
  <2>2. CASE IDTInitialize
    BY <2>2 DEF IDTInitialize
  <2>3. CASE RemapPic
    BY <2>3 DEF RemapPic
  <2>4. CASE DisablePic
    BY <2>4 DEF DisablePic
  <2>5. CASE MemoryInitialize
    BY <2>5 DEF MemoryInitialize
  <2>6. CASE SetupGdt
    BY <2>6 DEF SetupGdt
  <2>7. CASE MapWindow
    BY <2>7 DEF MapWindow
  <2>8. CASE MapFramebuffer
    BY <2>8 DEF MapFramebuffer
  <2>9. CASE FindMadt
    BY <2>9 DEF FindMadt
  <2>10. CASE MadtDone
    BY <2>10 DEF MadtDone
  <2>11. CASE LapicInitialize
    BY <2>11 DEF LapicInitialize
  <2>12. CASE SetGs
    BY <2>12 DEF SetGs
  <2>13. CASE SchedulerInitialize
    BY <2>13 DEF SchedulerInitialize
  <2>14. CASE AddBspThread
    BY <2>14 DEF AddBspThread
  <2>15. CASE SetupHPET
    BY <2>15 DEF SetupHPET
  <2>16. CASE ClearInterrupts
    BY <2>16 DEF ClearInterrupts
  <2>17. CASE CountTicks
    BY <2>17 DEF CountTicks
  <2>18. CASE StartTimer
    BY <2>18 DEF StartTimer
  <2>19. CASE AddHandler
    BY <2>19 DEF AddHandler
  <2>20. CASE NumberCpus
    BY <2>20 DEF NumberCpus
  <2>21. CASE EnableInterrupts
    BY <2>21 DEF EnableInterrupts
  <2> HIDE <2>0
  <2> QED
    BY <2>1, <2>2, <2>3, <2>4, <2>5, <2>6, <2>7, <2>8, <2>9, <2>10, <2>11, <2>12,
       <2>13, <2>14, <2>15, <2>16, <2>17, <2>18, <2>19, <2>20, <2>21
<1>6. MadtInv'
  <2>1. CASE FindMadt
    <3>1. pc = "acpi" /\ record' = 1 /\ gsis' = <<>>
      BY <1>1, <2>1 DEF FindMadt, BootInv, MadtInv
    <3>2. pc' \in {"madt", "lapic"} /\ (pc' = "madt" => FindTable("APIC")')
      BY <1>1, <2>1 DEF FindMadt, FindTable
    <3>3. Overrides(machine.madt, 0) = {} /\ Len(machine.madt) \in Nat
      BY <1>1, MachinesAssumption DEF Overrides
    <3>4. ComesTo(machine.madt, 1)
      BY DEF ComesTo
    <3>5. Len(gsis') = Cardinality(Overrides(machine'.madt, record' - 1))
      <4>1. record' - 1 = 0 /\ Len(gsis') = 0
        BY <3>1
      <4> QED
        BY <1>1, <3>3, <4>1, FS_EmptySet
    <3> QED
      BY <1>1, <3>1, <3>2, <3>3, <3>4, <3>5 DEF MadtInv, ToIdt, ToGdt
  <2>2. CASE ~FindMadt
    <3>0. MadtInv /\ pc \in ToIdle
      BY DEF BootInv
    <3>1. pc' # "madt"
      BY <2>2 DEF ScreenInitialize, IDTInitialize, RemapPic, DisablePic,
             MemoryInitialize, SetupGdt, MapWindow, MapFramebuffer, FindMadt,
             MadtDone, LapicInitialize, SetGs, SchedulerInitialize, AddBspThread,
             SetupHPET, ClearInterrupts, CountTicks, StartTimer, AddHandler,
             NumberCpus, EnableInterrupts
    <3>2. pc' \in ToGdt \cup {"virtual", "framebuffer", "acpi"}
            => pc \in ToGdt \cup {"virtual", "framebuffer", "acpi"}
      BY <2>2 DEF ToIdt, ToGdt, ScreenInitialize, IDTInitialize, RemapPic,
             DisablePic, MemoryInitialize, SetupGdt, MapWindow, MapFramebuffer,
             FindMadt, MadtDone, LapicInitialize, SetGs, SchedulerInitialize,
             AddBspThread, SetupHPET, ClearInterrupts, CountTicks, StartTimer,
             AddHandler, NumberCpus, EnableInterrupts
    <3> QED
      BY <1>1, <3>0, <3>1, <3>2 DEF MadtInv
  <2> QED
    BY <2>1, <2>2
<1>7. BootInv'
  BY <1>1, <1>3, <1>4, <1>5, <1>6 DEF BootInv, TablesInv
<1> QED
  BY <1>2, <1>7

\* The overrides among the first records.
LEMMA OverridesFinite ==
  ASSUME NEW madt, NEW k \in Nat
  PROVE  IsFiniteSet(Overrides(madt, k))
<1>1. IsFiniteSet(1 .. k) /\ Overrides(madt, k) \in SUBSET (1 .. k)
  BY FS_Interval DEF Overrides
<1> QED
  BY <1>1, FS_Subset

\* One record more.
LEMMA OverridesNext ==
  ASSUME NEW madt, NEW k \in Nat \ {0}
  PROVE  Cardinality(Overrides(madt, k))
           = Cardinality(Overrides(madt, k - 1)) + (IF madt[k].type = 2 THEN 1 ELSE 0)
<1> DEFINE before == Overrides(madt, k - 1)
<1>1. IsFiniteSet(before) /\ Cardinality(before) \in Nat
  <2>1. k - 1 \in Nat
    OBVIOUS
  <2> QED
    BY <2>1, OverridesFinite, FS_CardinalityType
<1>2. 1 .. k = (1 .. (k - 1)) \cup {k} /\ k \notin before
  BY DEF Overrides
<1>3. CASE madt[k].type = 2
  <2>1. Overrides(madt, k) = before \cup {k}
    BY <1>2, <1>3 DEF Overrides
  <2>2. Cardinality(before \cup {k}) = Cardinality(before) + 1
    <3> HIDE DEF before
    <3> QED
      BY <1>1, <1>2, FS_AddElement
  <2> QED
    BY <1>3, <2>1, <2>2
<1>4. CASE madt[k].type # 2
  <2>1. Overrides(madt, k) = before
    BY <1>2, <1>4 DEF Overrides
  <2> QED
    BY <1>1, <1>4, <2>1
<1> QED
  BY <1>3, <1>4

\* Past a step that the machine lets it past the boot has kept to its end.
LEMMA Advance ==
  ASSUME StopsAtItsEnd, NEW i \in 1 .. 22, pc = BootOrder[i], pc' = BootOrder[i + 1],
         Passes(pc), machine' = machine, stop' = None
  PROVE  StopsAtItsEnd'
<1>1. \A at : Passes(at)' <=> Passes(at)
  BY DEF Passes, FindTable, Enough
<1>2. \A at \in Earlier(pc') : Passes(at)
  BY EarlierNext DEF StopsAtItsEnd
<1>3. \A at : Earlier(at)' = Earlier(at)
  BY DEF Earlier, BootOrder
<1>4. \A at \in Earlier(pc)' : Passes(at)'
  BY <1>1, <1>2, <1>3
<1> QED
  BY <1>4 DEF StopsAtItsEnd

\* ParseAPIC's loop ends only where no record has held it and each override has had its place.
LEMMA PassesMadt ==
  ASSUME BootInv, MadtDone
  PROVE  Passes("madt")
<1> DEFINE n == Len(machine.madt)
<1>1. /\ pc = "madt" /\ record > n /\ record <= n + 1 /\ record \in Nat /\ n \in Nat
      /\ ComesTo(machine.madt, record) /\ machine \in Machines
  BY MachinesAssumption DEF MadtDone, Goes, BootInv, MadtInv, TablesInv
<1>2. record - 1 = n /\ \A k \in 1 .. n : machine.madt[k].len # 0
  <2>1. record - 1 = n
    BY <1>1
  <2> QED
    BY <1>1, <2>1 DEF ComesTo
<1>3. DOMAIN machine.madt = 1 .. n
  BY <1>1, MachinesAssumption
<1>4. Cardinality(Overrides(machine.madt, n)) <= MaxGSIs
  BY <1>1, <1>2 DEF BootInv, MadtInv, TablesInv
<1>5. ASSUME NEW k \in 1 .. n
      PROVE  Cardinality(Overrides(machine.madt, k)) <= MaxGSIs
  <2>1. Overrides(machine.madt, k) \subseteq Overrides(machine.madt, n)
    BY <1>1 DEF Overrides
  <2>2. IsFiniteSet(Overrides(machine.madt, n))
    BY <1>1, OverridesFinite
  <2>3. /\ Cardinality(Overrides(machine.madt, k)) <= Cardinality(Overrides(machine.madt, n))
        /\ Cardinality(Overrides(machine.madt, k)) \in Nat
        /\ Cardinality(Overrides(machine.madt, n)) \in Nat
    BY <2>1, <2>2, FS_Subset, FS_CardinalityType
  <2> QED
    BY <1>4, <2>3, BoundsAssumption
<1>6. ~Endless(machine.madt)
  BY <1>2, <1>3 DEF Endless
<1>7. ~Crowded(machine.madt)
  <2> SUFFICES ASSUME NEW k \in 1 .. n, Cardinality(Overrides(machine.madt, k)) > MaxGSIs
               PROVE  FALSE
    BY <1>2, <1>3 DEF Crowded
  <2>1. Cardinality(Overrides(machine.madt, k)) \in Nat
    <3>1. k \in Nat
      OBVIOUS
    <3> QED
      BY <3>1, OverridesFinite, FS_CardinalityType
  <2> QED
    BY <1>5, <2>1, BoundsAssumption
<1> QED
  BY <1>6, <1>7 DEF Passes, Allocating

\* No step of kernel_entry gets past what should have ended the boot.
LEMMA StepEnds ==
  ASSUME IInv,
         \/ ScreenInitialize
         \/ IDTInitialize
         \/ RemapPic
         \/ DisablePic
         \/ MemoryInitialize
         \/ SetupGdt
         \/ MapWindow
         \/ MapFramebuffer
         \/ MadtDone
         \/ LapicInitialize
         \/ IOAPICInitialize
         \/ SetGs
         \/ SchedulerInitialize
         \/ AddBspThread
         \/ SetupHPET
         \/ ClearInterrupts
         \/ CountTicks
         \/ StartTimer
         \/ AddHandler
         \/ NumberCpus
         \/ EnableInterrupts
  PROVE  StopsAtItsEnd'
<1>1. StopsAtItsEnd /\ BootInv
  BY DEF IInv
<1>2. machine' = machine /\ stop' = None
  BY DEF Goes, Running, ScreenInitialize, IDTInitialize, RemapPic, DisablePic,
         MemoryInitialize, SetupGdt, MapWindow, MapFramebuffer, MadtDone,
         LapicInitialize, IOAPICInitialize, SetGs, SchedulerInitialize,
         AddBspThread, SetupHPET, ClearInterrupts, CountTicks, StartTimer,
         AddHandler, NumberCpus, EnableInterrupts
<1>3. \E i \in 1 .. 22 : pc = BootOrder[i] /\ pc' = BootOrder[i + 1] /\ Passes(pc)
  <2>1. CASE ScreenInitialize
    <3>1. pc = BootOrder[1] /\ pc' = BootOrder[1 + 1]
      BY <2>1 DEF ScreenInitialize, Goes, BootOrder
    <3>2. Passes(pc)
      BY <2>1 DEF ScreenInitialize, Goes, Passes, Allocating
    <3> QED
      BY <3>1, <3>2
  <2>2. CASE IDTInitialize
    <3>1. pc = BootOrder[2] /\ pc' = BootOrder[2 + 1]
      BY <2>2 DEF IDTInitialize, Goes, BootOrder
    <3>2. Passes(pc)
      BY <2>2 DEF IDTInitialize, Goes, Passes, Allocating
    <3> QED
      BY <3>1, <3>2
  <2>3. CASE RemapPic
    <3>1. pc = BootOrder[3] /\ pc' = BootOrder[3 + 1]
      BY <2>3 DEF RemapPic, Goes, BootOrder
    <3>2. Passes(pc)
      BY <2>3 DEF RemapPic, Goes, Passes, Allocating
    <3> QED
      BY <3>1, <3>2
  <2>4. CASE DisablePic
    <3>1. pc = BootOrder[4] /\ pc' = BootOrder[4 + 1]
      BY <2>4 DEF DisablePic, Goes, BootOrder
    <3>2. Passes(pc)
      BY <2>4 DEF DisablePic, Goes, Passes, Allocating
    <3> QED
      BY <3>1, <3>2
  <2>5. CASE MemoryInitialize
    <3>1. pc = BootOrder[5] /\ pc' = BootOrder[5 + 1]
      BY <2>5 DEF MemoryInitialize, Goes, BootOrder
    <3>2. Passes(pc)
      BY <2>5 DEF MemoryInitialize, Goes, Passes, Allocating
    <3> QED
      BY <3>1, <3>2
  <2>6. CASE SetupGdt
    <3>1. pc = BootOrder[6] /\ pc' = BootOrder[6 + 1]
      BY <2>6 DEF SetupGdt, Goes, BootOrder
    <3>2. Passes(pc)
      BY <2>6 DEF SetupGdt, Goes, Passes, Allocating
    <3> QED
      BY <3>1, <3>2
  <2>7. CASE MapWindow
    <3>1. pc = BootOrder[7] /\ pc' = BootOrder[7 + 1]
      BY <2>7 DEF MapWindow, Goes, BootOrder
    <3>2. Passes(pc)
      BY <2>7 DEF MapWindow, Goes, Passes, Allocating
    <3> QED
      BY <3>1, <3>2
  <2>8. CASE MapFramebuffer
    <3>1. pc = BootOrder[8] /\ pc' = BootOrder[8 + 1]
      BY <2>8 DEF MapFramebuffer, Goes, BootOrder
    <3>2. Passes(pc)
      BY <2>8 DEF MapFramebuffer, Goes, Passes, Allocating
    <3> QED
      BY <3>1, <3>2
  <2>9. CASE MadtDone
    <3>1. pc = BootOrder[10] /\ pc' = BootOrder[10 + 1]
      BY <2>9 DEF MadtDone, Goes, BootOrder
    <3>2. Passes(pc)
      BY <1>1, <2>9, PassesMadt DEF MadtDone, Goes
    <3> QED
      BY <3>1, <3>2
  <2>10. CASE LapicInitialize
    <3>1. pc = BootOrder[11] /\ pc' = BootOrder[11 + 1]
      BY <2>10 DEF LapicInitialize, Goes, BootOrder
    <3>2. Passes(pc)
      BY <2>10 DEF LapicInitialize, Goes, Passes, Allocating
    <3> QED
      BY <3>1, <3>2
  <2>11. CASE IOAPICInitialize
    <3>1. pc = BootOrder[12] /\ pc' = BootOrder[12 + 1]
      BY <2>11 DEF IOAPICInitialize, Goes, BootOrder
    <3>2. Passes(pc)
      BY <2>11 DEF IOAPICInitialize, Goes, Passes, Allocating
    <3> QED
      BY <3>1, <3>2
  <2>12. CASE SetGs
    <3>1. pc = BootOrder[13] /\ pc' = BootOrder[13 + 1]
      BY <2>12 DEF SetGs, Goes, BootOrder
    <3>2. Passes(pc)
      BY <2>12 DEF SetGs, Goes, Passes, Allocating
    <3> QED
      BY <3>1, <3>2
  <2>13. CASE SchedulerInitialize
    <3>1. pc = BootOrder[14] /\ pc' = BootOrder[14 + 1]
      BY <2>13 DEF SchedulerInitialize, Goes, BootOrder
    <3>2. Passes(pc)
      BY <2>13 DEF SchedulerInitialize, Goes, Passes, Allocating
    <3> QED
      BY <3>1, <3>2
  <2>14. CASE AddBspThread
    <3>1. pc = BootOrder[15] /\ pc' = BootOrder[15 + 1]
      BY <2>14 DEF AddBspThread, Goes, BootOrder
    <3>2. Passes(pc)
      BY <2>14 DEF AddBspThread, Goes, Passes, Allocating
    <3> QED
      BY <3>1, <3>2
  <2>15. CASE SetupHPET
    <3>1. pc = BootOrder[16] /\ pc' = BootOrder[16 + 1]
      BY <2>15 DEF SetupHPET, Goes, BootOrder
    <3>2. Passes(pc)
      BY <2>15 DEF SetupHPET, Goes, Passes, Allocating
    <3> QED
      BY <3>1, <3>2
  <2>16. CASE ClearInterrupts
    <3>1. pc = BootOrder[17] /\ pc' = BootOrder[17 + 1]
      BY <2>16 DEF ClearInterrupts, Goes, BootOrder
    <3>2. Passes(pc)
      BY <2>16 DEF ClearInterrupts, Goes, Passes, Allocating
    <3> QED
      BY <3>1, <3>2
  <2>17. CASE CountTicks
    <3>1. pc = BootOrder[18] /\ pc' = BootOrder[18 + 1]
      BY <2>17 DEF CountTicks, Goes, BootOrder
    <3>2. Passes(pc)
      BY <2>17 DEF CountTicks, Goes, Passes, Allocating
    <3> QED
      BY <3>1, <3>2
  <2>18. CASE StartTimer
    <3>1. pc = BootOrder[19] /\ pc' = BootOrder[19 + 1]
      BY <2>18 DEF StartTimer, Goes, BootOrder
    <3>2. Passes(pc)
      BY <2>18 DEF StartTimer, Goes, Passes, Allocating
    <3> QED
      BY <3>1, <3>2
  <2>19. CASE AddHandler
    <3>1. pc = BootOrder[20] /\ pc' = BootOrder[20 + 1]
      BY <2>19 DEF AddHandler, Goes, BootOrder
    <3>2. Passes(pc)
      BY <2>19 DEF AddHandler, Goes, Passes, Allocating
    <3> QED
      BY <3>1, <3>2
  <2>20. CASE NumberCpus
    <3>1. pc = BootOrder[21] /\ pc' = BootOrder[21 + 1]
      BY <2>20 DEF NumberCpus, Goes, BootOrder
    <3>2. Passes(pc)
      BY <2>20 DEF NumberCpus, Goes, Passes, Allocating
    <3> QED
      BY <3>1, <3>2
  <2>21. CASE EnableInterrupts
    <3>1. pc = BootOrder[22] /\ pc' = BootOrder[22 + 1]
      BY <2>21 DEF EnableInterrupts, Goes, BootOrder
    <3>2. Passes(pc)
      BY <2>21 DEF EnableInterrupts, Goes, Passes, Allocating
    <3> QED
      BY <3>1, <3>2
  <2> QED
    BY <2>1, <2>2, <2>3, <2>4, <2>5, <2>6, <2>7, <2>8, <2>9, <2>10, <2>11, <2>12,
       <2>13, <2>14, <2>15, <2>16, <2>17, <2>18, <2>19, <2>20, <2>21
<1> QED
  BY <1>1, <1>2, <1>3, Advance

\* Without a MADT the boot has no records to get past.
LEMMA FindMadtEnds ==
  ASSUME IInv, FindMadt
  PROVE  StopsAtItsEnd'
<1>1. /\ pc = "acpi" /\ machine.rsdp /\ machine' = machine /\ stop' = None
      /\ pc' = IF FindTable("APIC") THEN "madt" ELSE "lapic"
  BY DEF FindMadt, Goes, Running
<1>2. BootOrder[9] = "acpi" /\ BootOrder[9 + 1] = "madt" /\ BootOrder[10 + 1] = "lapic"
      /\ BootOrder[10] = "madt"
  BY DEF BootOrder
<1>3. Earlier("madt") = Earlier("acpi") \cup {"acpi"}
      /\ Earlier("lapic") = Earlier("madt") \cup {"madt"}
  <2>1. 9 \in 1 .. 22 /\ 10 \in 1 .. 22
    OBVIOUS
  <2> QED
    BY <1>2, <2>1, EarlierNext
<1>4. Passes("acpi")
  BY <1>1 DEF Passes, Allocating
<1>5. ~FindTable("APIC") => Passes("madt")
  BY DEF Passes, Allocating
<1>6. \A at \in Earlier(pc') : Passes(at)
  BY <1>1, <1>3, <1>4, <1>5 DEF IInv, StopsAtItsEnd
<1>7. \A at : (Passes(at)' <=> Passes(at)) /\ Earlier(at)' = Earlier(at)
  BY <1>1 DEF Passes, FindTable, Enough, Earlier, BootOrder
<1>8. \A at \in Earlier(pc)' : Passes(at)'
  BY <1>6, <1>7
<1> QED
  BY <1>1, <1>8 DEF StopsAtItsEnd

\* The record ParseAPIC is at is one of the MADT's, and so is a real one.
LEMMA RecordHere ==
  ASSUME machine \in Machines, record \in Nat \ {0}, record <= Len(machine.madt)
  PROVE  IsRecord(machine.madt[record])
<1>1. Len(machine.madt) \in Nat
  BY MachinesAssumption
<1>2. record \in 1 .. Len(machine.madt)
  BY <1>1
<1> QED
  BY <1>2, MachinesAssumption

\* ParseAPIC's loop notes ISA interrupts, and never more than there is room for.
LEMMA ParseRecordInv ==
  ASSUME IInv, ParseRecord
  PROVE  IInv'
<1> DEFINE r == machine.madt[record]
           R == [irq : 0 .. 15, gsi : Nat]
<1>1. IsRecord(r)
  BY RecordHere DEF IInv, BootInv, TablesInv, ParseRecord
<1>2. r.irq \in 0 .. 15 /\ r.gsi \in Nat
  BY <1>1 DEF IsRecord
<1>3. record' \in Nat \ {0}
  BY DEF ParseRecord, Passed, IInv, BootInv, TablesInv
<1>4. gsis' \in Seq(R) /\ Len(gsis') <= MaxGSIs
  <2> DEFINE new == [irq |-> r.irq, gsi |-> r.gsi]
  <2>1. gsis \in Seq(R) /\ Len(gsis) <= MaxGSIs /\ Len(gsis) \in Nat
    BY DEF IInv, BootInv, TablesInv
  <2>2. new \in R
    BY <1>2
  <2>3. r.type = 2 => Len(gsis) < MaxGSIs
    BY DEF ParseRecord
  <2>4. gsis' = IF r.type = 2 THEN Append(gsis, new) ELSE gsis
    BY DEF ParseRecord
  <2> HIDE DEF new, r, R
  <2> QED
    BY <2>1, <2>2, <2>3, <2>4, BoundsAssumption
<1>5. /\ UNCHANGED <<machine, pc, flag, gdt, idt, pic, redirection, timer, handlers>>
      /\ UNCHANGED <<lapic_addr, gs, processor_ids, queued, returned, stop>>
      /\ pc = "madt"
  BY DEF ParseRecord, apicVars, cpuVars
<1>6. MadtInv'
  <2> DEFINE madt == machine.madt
             n == Len(madt)
  <2>0. n \in Nat /\ record \in Nat \ {0} /\ Len(gsis) \in Nat
    BY MachinesAssumption DEF IInv, BootInv, TablesInv
  <2>1. /\ record <= n /\ ComesTo(madt, record) /\ FindTable("APIC")
        /\ \/ Len(gsis) = Cardinality(Overrides(madt, record - 1))
           \/ r.type = 2 /\ r.len = 0
    BY <1>5 DEF ParseRecord, IInv, BootInv, MadtInv
  <2>2. FindTable("APIC")' /\ madt' = madt
    BY <1>5, <2>1 DEF FindTable
  <2>3. pc' \notin ToGdt \cup {"virtual", "framebuffer", "acpi"}
    BY <1>5 DEF ToIdt, ToGdt
  <2>4. CASE r.len = 0
    <3>1. record' = record
      BY <2>4 DEF ParseRecord, Passed
    <3>2. r.type # 2 => gsis' = gsis
      BY DEF ParseRecord
    <3>3. \/ Len(gsis') = Cardinality(Overrides(madt, record' - 1))
          \/ r.type = 2 /\ r.len = 0
      BY <2>1, <2>4, <3>1, <3>2
    <3> QED
      <4>1. /\ machine' = machine /\ record' <= Len(machine.madt) + 1
            /\ ComesTo(machine.madt, record') /\ record' <= Len(machine.madt)
        BY <1>5, <2>0, <2>1, <3>1
      <4>2. \/ Len(gsis') = Cardinality(Overrides(machine.madt, record' - 1))
            \/ machine.madt[record'].type = 2 /\ machine.madt[record'].len = 0
        BY <3>1, <3>3
      <4> HIDE DEF r, madt, n, R
      <4> QED
        BY <2>2, <2>3, <4>1, <4>2 DEF MadtInv
  <2>5. CASE r.len # 0
    <3>1. record' = record + 1 /\ record' - 1 = record /\ record' <= n + 1
      BY <2>0, <2>1, <2>5 DEF ParseRecord, Passed
    <3>2. Len(gsis') = Cardinality(Overrides(madt, record))
      <4>1. Len(gsis) = Cardinality(Overrides(madt, record - 1))
        BY <2>1, <2>5
      <4>2. Len(gsis') = Len(gsis) + (IF r.type = 2 THEN 1 ELSE 0)
        <5>1. gsis \in Seq(R)
          BY DEF IInv, BootInv, TablesInv
        <5> HIDE DEF R
        <5>2. CASE r.type = 2
          <6>1. gsis' = Append(gsis, [irq |-> r.irq, gsi |-> r.gsi])
            BY <5>2 DEF ParseRecord
          <6> HIDE DEF r
          <6> QED
            BY <5>1, <5>2, <6>1
        <5>3. CASE r.type # 2
          BY <2>0, <5>3 DEF ParseRecord
        <5> QED
          BY <5>2, <5>3
      <4> QED
        BY <2>0, <4>1, <4>2, OverridesNext
    <3>3. ComesTo(madt, record + 1)
      <4>1. (record + 1) - 1 = record
        BY <2>0
      <4>2. \A i \in 1 .. record : i = record \/ i \in 1 .. (record - 1)
        BY <2>0
      <4> QED
        BY <2>1, <2>5, <4>1, <4>2 DEF ComesTo
    <3> QED
      BY <2>2, <2>3, <3>1, <3>2, <3>3 DEF MadtInv
  <2> QED
    BY <2>4, <2>5
<1>7. BootInv'
  BY <1>3, <1>4, <1>5, <1>6 DEF IInv, BootInv, TablesInv, FlagsInv, DevicesInv, CpusInv, FindTable
<1>8. InterruptsFindTheWay'
  BY <1>5 DEF IInv, InterruptsFindTheWay
<1>9. StopsAtItsEnd'
  <2>1. stop' = None /\ StopsAtItsEnd
    BY <1>5 DEF ParseRecord, Running, IInv
  <2>2. \A at : (Passes(at)' <=> Passes(at)) /\ Earlier(at)' = Earlier(at)
    BY <1>5 DEF Passes, FindTable, Enough, Earlier, BootOrder
  <2>3. \A at \in Earlier(pc)' : Passes(at)'
    BY <1>5, <2>1, <2>2 DEF StopsAtItsEnd
  <2> QED
    BY <2>1, <2>3 DEF StopsAtItsEnd
<1> QED
  BY <1>7, <1>8, <1>9 DEF IInv

\* What a sequence holds.
LEMMA ElementOfSeq ==
  ASSUME NEW S, NEW s \in Seq(S), NEW i \in 1 .. Len(s)
  PROVE  s[i] \in S
OBVIOUS

\* The inputs IOAPIC::Initialize opens are those of ISA interrupts.
LEMMA IOAPICInv ==
  ASSUME IInv, IOAPICInitialize
  PROVE  BootInv' /\ InterruptsFindTheWay'
<1> DEFINE R == [masked : BOOLEAN, vector : Nat]
<1>1. ASSUME NEW g \in Inputs
      PROVE  /\ RedirectGSI(g) \in R
             /\ ~RedirectGSI(g).masked => RedirectGSI(g).vector < 16
  <2> DEFINE own == {i \in DOMAIN gsis : gsis[i].gsi = g}
             last == CHOOSE i \in own : \A j \in own : j <= i
  <2>1. CASE own = {}
    <3>1. RedirectGSI(g) = redirection[g]
      BY <2>1 DEF RedirectGSI
    <3>2. /\ redirection[g] \in R
          /\ ~redirection[g].masked => redirection[g].vector < 16
      BY DEF IInv, BootInv, TablesInv, InterruptsFindTheWay
    <3> QED
      BY <3>1, <3>2
  <2>2. CASE own # {}
    <3>1. gsis \in Seq([irq : 0 .. 15, gsi : Nat])
      BY DEF IInv, BootInv, TablesInv
    <3>2. own \subseteq 1 .. Len(gsis) /\ Len(gsis) \in Nat
      BY <3>1
    <3>3. \E i \in own : \A j \in own : j <= i
      <4>1. own \in SUBSET Nat /\ \A i \in own : i <= Len(gsis)
        BY <3>2
      <4> HIDE DEF own
      <4> QED
        BY <2>2, <3>2, <4>1, GreatestNat
    <3>4. last \in own
      <4> HIDE DEF own
      <4> QED
        BY <3>3
    <3> HIDE DEF last
    <3>5. gsis[last] \in [irq : 0 .. 15, gsi : Nat]
      <4> HIDE DEF own
      <4>1. last \in 1 .. Len(gsis)
        BY <3>2, <3>4
      <4> QED
        BY <3>1, <4>1, ElementOfSeq
    <3>6. RedirectGSI(g) = [masked |-> FALSE, vector |-> gsis[last].irq]
      BY <2>2 DEF RedirectGSI, last
    <3> QED
      BY <3>5, <3>6
  <2> QED
    BY <2>1, <2>2
<1>2. redirection' = [g \in Inputs |-> RedirectGSI(g)]
  BY DEF IOAPICInitialize
<1>3. /\ redirection' \in [Inputs -> R]
      /\ \A g \in Inputs : ~redirection'[g].masked => redirection'[g].vector < 16
  BY <1>1, <1>2
<1>4. /\ pc = "ioapic" /\ pc' = "gs" /\ stop = None
      /\ UNCHANGED <<machine, flag, gdt, idt, pic, timer, handlers>>
      /\ UNCHANGED <<record, gsis, lapic_addr, gs, processor_ids, queued, returned, stop>>
  BY DEF IOAPICInitialize, Goes, Running, tableVars, cpuVars
<1>5. InterruptsFindTheWay'
  BY <1>3, <1>4 DEF IInv, InterruptsFindTheWay
<1>6. BootInv'
  <2> USE DEF IInv, BootInv, ToIdt, ToGdt, ToGs, ToThread, ToCli, ToPeriodic, ToHandler,
              ToCpus, ToIdle
  <2>1. FlagsInv'
    BY <1>4 DEF FlagsInv
  <2>2. DevicesInv'
    BY <1>4 DEF DevicesInv, FindTable
  <2>3. CpusInv'
    BY <1>4 DEF CpusInv
  <2>4. TablesInv'
    BY <1>3, <1>4 DEF TablesInv
  <2>5. MadtInv'
    BY <1>4 DEF MadtInv
  <2> QED
    BY <1>4, <2>1, <2>2, <2>3, <2>4, <2>5
<1> QED
  BY <1>5, <1>6

\* The invariant is of what the steps leave alone but for stop and returned.
LEMMA KeptInv ==
  ASSUME BootInv, returned' \in BOOLEAN,
         UNCHANGED <<machine, pc, flag, gdt, idt, pic, redirection, timer, handlers>>,
         UNCHANGED <<record, gsis, lapic_addr, gs, processor_ids, queued>>
  PROVE  /\ BootInv'
         /\ \A at : (Passes(at)' <=> Passes(at)) /\ Earlier(at)' = Earlier(at)
<1>1. MadtInv'
  BY DEF BootInv, MadtInv, FindTable
<1>2. BootInv'
  BY <1>1 DEF BootInv, FlagsInv, DevicesInv, CpusInv, TablesInv, FindTable
<1>3. \A at : (Passes(at)' <=> Passes(at)) /\ Earlier(at)' = Earlier(at)
  BY DEF Passes, FindTable, Enough, Earlier, BootOrder
<1> QED
  BY <1>2, <1>3

\* ParseAPIC writes past gsis[] only at an override too many.
LEMMA OverrunIsCrowded ==
  ASSUME BootInv, GSIsOverrun
  PROVE  FindTable("APIC") /\ Crowded(machine.madt)
<1> DEFINE n == Len(machine.madt)
<1>1. /\ pc = "madt" /\ record \in Nat \ {0} /\ record <= n /\ machine \in Machines
      /\ machine.madt[record].type = 2 /\ Len(gsis) = MaxGSIs
      /\ FindTable("APIC") /\ ComesTo(machine.madt, record)
  BY DEF GSIsOverrun, Stops, BootInv, MadtInv, TablesInv
<1>2. record \in DOMAIN machine.madt
  BY <1>1, MachinesAssumption
<1>3. CASE machine.madt[record].len = 0
  BY <1>1, <1>2, <1>3 DEF Crowded
<1>4. CASE machine.madt[record].len # 0
  <2>1. Cardinality(Overrides(machine.madt, record - 1)) = MaxGSIs
    BY <1>1, <1>4 DEF BootInv, MadtInv
  <2>2. Cardinality(Overrides(machine.madt, record)) = MaxGSIs + 1
    BY <1>1, <2>1, OverridesNext
  <2> QED
    BY <1>1, <1>2, <2>2, BoundsAssumption DEF Crowded
<1> QED
  BY <1>1, <1>3, <1>4

\* Where the boot may stop without an interrupt, and why.
LEMMA StopInv ==
  ASSUME IInv,
         \/ ScreenFaults
         \/ MemoryFaults
         \/ OutOfMemory
         \/ NoFramebuffer
         \/ BadRSDP
         \/ GSIsOverrun
         \/ HPETFaults
  PROVE  IInv'
<1> DEFINE Why(why, by) == stop' = [why |-> why, by |-> by]
<1>1. /\ UNCHANGED <<machine, pc, flag, gdt, idt, pic, redirection, timer, handlers>>
      /\ UNCHANGED <<record, gsis, lapic_addr, gs, processor_ids, queued, returned>>
  BY DEF ScreenFaults, MemoryFaults, OutOfMemory, NoFramebuffer, BadRSDP, GSIsOverrun,
         HPETFaults, Stops, apicVars, tableVars, cpuVars
<1>2. BootInv /\ InterruptsFindTheWay /\ StopsAtItsEnd /\ stop = None
  BY DEF IInv, ScreenFaults, MemoryFaults, OutOfMemory, NoFramebuffer, BadRSDP, GSIsOverrun,
         HPETFaults, Stops, Running
<1>3. /\ BootInv'
      /\ \A at : (Passes(at)' <=> Passes(at)) /\ Earlier(at)' = Earlier(at)
  <2>1. returned' \in BOOLEAN
    BY <1>1, <1>2 DEF BootInv, FlagsInv
  <2> QED
    BY <1>1, <1>2, <2>1, KeptInv
<1>4. /\ pc # "idle" /\ ~Passes(pc) /\ (pc = "madt" => Crowded(machine.madt))
      /\ stop'.by \notin {"timer", "PIC"}
      /\ stop'.why = "triple fault" => stop'.by \in {"bitmap", "screen"}
  <2>1. CASE ScreenFaults
    <3>1. pc = "screen" /\ Why(Exception, "screen")
      BY <2>1 DEF ScreenFaults, Stops
    <3> QED
      BY <2>1, <3>1 DEF ScreenFaults, Passes
  <2>2. CASE MemoryFaults
    <3>1. pc = "memory" /\ Why(Exception, "bitmap")
      BY <2>2 DEF MemoryFaults, Stops
    <3> QED
      BY <2>2, <3>1 DEF MemoryFaults, Passes
  <2>3. CASE OutOfMemory
    <3>1. pc \in Allocating /\ ~Enough(pc) /\ Why(Short(pc), "memory")
      BY <2>3 DEF OutOfMemory, Stops
    <3>2. pc \notin {"idle", "madt"} /\ ~Passes(pc)
      BY <3>1 DEF Passes, Allocating
    <3>3. Short(pc) # "triple fault"
      <4>1. CASE machine.memory[pc] = "short"
        BY <4>1 DEF Short
      <4>2. CASE machine.memory[pc] # "short"
        <5>1. machine.memory[pc] = "far"
          BY <1>2, <3>1, <4>2, MachinesAssumption DEF BootInv, Enough
        <5>2. pc \in {"scheduler", "thread"}
          BY <1>2, <3>1, <5>1, MachinesAssumption DEF BootInv
        <5>3. idt /\ gdt
          BY <1>2, <5>2 DEF BootInv, FlagsInv, ToIdt, ToGdt
        <5> QED
          BY <4>2, <5>3 DEF Short, Exception
      <4> QED
        BY <4>1, <4>2
    <3> QED
      BY <3>1, <3>2, <3>3
  <2>4. CASE NoFramebuffer
    <3>1. pc = "framebuffer" /\ Why("halt", "framebuffer")
      BY <2>4 DEF NoFramebuffer, Stops
    <3> QED
      BY <2>4, <3>1 DEF NoFramebuffer, Passes
  <2>5. CASE BadRSDP
    <3>1. pc = "acpi" /\ Why("halt", "RSDP")
      BY <2>5 DEF BadRSDP, Stops
    <3> QED
      BY <2>5, <3>1 DEF BadRSDP, Passes
  <2>6. CASE GSIsOverrun
    <3>1. pc = "madt" /\ Why("overrun", "MADT")
      BY <2>6 DEF GSIsOverrun, Stops
    <3>2. FindTable("APIC") /\ Crowded(machine.madt)
      BY <1>2, <2>6, OverrunIsCrowded
    <3> QED
      BY <3>1, <3>2 DEF Passes
  <2>7. CASE HPETFaults
    <3>1. pc = "hpet" /\ Why(Exception, "HPET")
      BY <2>7 DEF HPETFaults, Stops
    <3>2. idt /\ gdt
      BY <1>2, <3>1 DEF BootInv, FlagsInv, ToIdt, ToGdt
    <3> QED
      BY <2>7, <3>1, <3>2 DEF HPETFaults, Exception, Passes
  <2> QED
    BY <2>1, <2>2, <2>3, <2>4, <2>5, <2>6, <2>7
<1>5. InterruptsFindTheWay'
  BY <1>1, <1>2, <1>4 DEF InterruptsFindTheWay
<1>6. StopsAtItsEnd'
  BY <1>1, <1>2, <1>3, <1>4 DEF StopsAtItsEnd, AtItsEnd, FindTable, Crowded, ComesTo, Overrides
<1> QED
  BY <1>3, <1>5, <1>6 DEF IInv

\* An interrupt that is taken: the timer's only once everything is there.
LEMMA InterruptInv ==
  ASSUME IInv, PicInterrupt \/ TimerInterrupt
  PROVE  IInv'
<1>1. /\ UNCHANGED <<machine, pc, flag, gdt, idt, pic, redirection, timer, handlers>>
      /\ UNCHANGED <<record, gsis, lapic_addr, gs, processor_ids, queued>>
      /\ returned' = (returned \/ Outcome = "no thread") /\ stop = None /\ flag
  BY DEF PicInterrupt, TimerInterrupt, Interrupted, Running, apicVars, tableVars
<1>2. BootInv /\ InterruptsFindTheWay /\ StopsAtItsEnd
  BY DEF IInv
<1>3. /\ BootInv'
      /\ \A at : (Passes(at)' <=> Passes(at)) /\ Earlier(at)' = Earlier(at)
  <2>1. returned' \in BOOLEAN
    BY <1>1, <1>2 DEF BootInv, FlagsInv
  <2> QED
    BY <1>1, <1>2, <2>1, KeptInv
<1>4. CASE PicInterrupt
  <2>1. pc = "mask" /\ ~gdt
    BY <1>2, <1>4 DEF PicInterrupt, BootInv, DevicesInv, FlagsInv, ToIdt, ToGdt
  <2>2. Outcome = "triple fault"
    BY <2>1 DEF Outcome
  <2>3. stop' = [why |-> "triple fault", by |-> "PIC"] /\ (returned' <=> returned)
    BY <1>1, <1>2, <1>4, <2>2 DEF PicInterrupt, Interrupted, BootInv, FlagsInv
  <2>4. InterruptsFindTheWay'
    BY <1>1, <1>2, <2>1, <2>3 DEF InterruptsFindTheWay
  <2>5. StopsAtItsEnd'
    BY <1>1, <1>2, <1>3, <2>3 DEF StopsAtItsEnd
  <2> QED
    BY <1>3, <2>4, <2>5 DEF IInv
<1>5. CASE TimerInterrupt
  <2>1. timer = "periodic" /\ pc \in ToIdle /\ pc \notin ToPeriodic
    BY <1>2, <1>5 DEF TimerInterrupt, BootInv, DevicesInv
  <2>2. pc = "idle"
    BY <1>1, <1>2, <2>1 DEF BootInv, FlagsInv, ToIdt, ToGdt, ToGs, ToThread, ToCli, ToPeriodic,
                           ToHandler, ToCpus, ToIdle
  <2>3. /\ idt /\ gdt /\ 32 \in handlers /\ queued = {curCpuCore} /\ gs = machine.bsp
        /\ machine.cpus \subseteq processor_ids /\ FindTable("APIC")
    BY <1>2, <2>1, <2>2 DEF BootInv, FlagsInv, DevicesInv, CpusInv, ToIdt, ToGdt, ToGs, ToThread,
                     ToCli, ToPeriodic, ToHandler, ToCpus
  <2>4. processor_id = machine.bsp
    BY <1>2, <2>3, MachinesAssumption DEF BootInv, processor_id
  <2>5. ~Passes("idle")
    BY DEF Passes
  <2>6. CASE machine.bsp = curCpuCore /\ gs # None
    <3>1. Outcome = "scheduled"
      BY <2>3, <2>4, <2>6 DEF Outcome
    <3>2. stop' = [why |-> "scheduled", by |-> "timer"] /\ (returned' <=> returned)
      BY <1>1, <1>2, <1>5, <3>1 DEF TimerInterrupt, Interrupted, BootInv, FlagsInv
    <3>3. InterruptsFindTheWay'
      BY <1>1, <1>2, <2>6, <3>2 DEF InterruptsFindTheWay, curCpuCore
    <3>4. FindTable("APIC")'
      BY <1>1, <2>3 DEF FindTable
    <3>5. StopsAtItsEnd'
      BY <1>1, <1>2, <1>3, <2>2, <2>3, <2>5, <2>6, <3>2, <3>4
        DEF StopsAtItsEnd, AtItsEnd, curCpuCore
    <3> QED
      BY <1>3, <3>3, <3>5 DEF IInv
  <2>7. CASE machine.bsp # curCpuCore /\ gs # None
    <3>1. Outcome = "no thread"
      BY <2>3, <2>4, <2>7 DEF Outcome
    <3>2. stop' = None
      BY <1>1, <1>5, <3>1 DEF TimerInterrupt, Interrupted
    <3>3. InterruptsFindTheWay'
      BY <1>1, <1>2, <2>7, <3>2 DEF InterruptsFindTheWay, curCpuCore
    <3>4. StopsAtItsEnd'
      BY <1>1, <1>2, <1>3, <3>2 DEF StopsAtItsEnd
    <3> QED
      BY <1>3, <3>3, <3>4 DEF IInv
  <2>8. gs # None
    BY <1>2, <2>3, MachinesAssumption DEF BootInv
  <2> QED
    BY <2>6, <2>7, <2>8
<1> QED
  BY <1>4, <1>5

\* Every step keeps the invariant.
LEMMA NextInv == IInv /\ [Next]_vars => IInv'
<1> SUFFICES ASSUME IInv, [Next]_vars
             PROVE  IInv'
  OBVIOUS
<1>1. CASE UNCHANGED vars
  <2>1. /\ UNCHANGED <<machine, pc, flag, gdt, idt, pic, redirection, timer, handlers>>
        /\ UNCHANGED <<record, gsis, lapic_addr, gs, processor_ids, queued, returned, stop>>
    BY <1>1 DEF vars, apicVars, tableVars, cpuVars
  <2>2. /\ BootInv'
        /\ \A at : (Passes(at)' <=> Passes(at)) /\ Earlier(at)' = Earlier(at)
    <3>1. returned' \in BOOLEAN /\ BootInv
      BY <2>1 DEF IInv, BootInv, FlagsInv
    <3> QED
      BY <2>1, <3>1, KeptInv
  <2>3. InterruptsFindTheWay'
    BY <2>1 DEF IInv, InterruptsFindTheWay
  <2>4. StopsAtItsEnd'
    BY <2>1, <2>2 DEF IInv, StopsAtItsEnd, AtItsEnd, FindTable, Crowded, ComesTo, Overrides
  <2> QED
    BY <2>2, <2>3, <2>4 DEF IInv
<1>2. CASE Boot
  <2>1. CASE IOAPICInitialize
    BY <2>1, IOAPICInv, StepEnds DEF IInv
  <2>2. CASE FindMadt
    BY <2>2, StepInv, FindMadtEnds DEF IInv
  <2>3. CASE ParseRecord
    BY <2>3, ParseRecordInv
  <2>4. CASE \/ ScreenFaults
             \/ MemoryFaults
             \/ OutOfMemory
             \/ NoFramebuffer
             \/ BadRSDP
             \/ GSIsOverrun
             \/ HPETFaults
    BY <2>4, StopInv
  <2>5. CASE ~(\/ IOAPICInitialize
               \/ FindMadt
               \/ ParseRecord
               \/ ScreenFaults
               \/ MemoryFaults
               \/ OutOfMemory
               \/ NoFramebuffer
               \/ BadRSDP
               \/ GSIsOverrun
               \/ HPETFaults)
    BY <1>2, <2>5, StepInv, StepEnds DEF Boot, IInv
  <2> QED
    BY <2>1, <2>2, <2>3, <2>4, <2>5
<1>3. CASE PicInterrupt \/ TimerInterrupt
  BY <1>3, InterruptInv
<1> QED
  BY <1>1, <1>2, <1>3 DEF Next

\* The steps' order, what they have done, what ticks find and where boots stop agree, for
\* every machine (kernel.cpp:81-152).
THEOREM InductiveInvariant == Spec => []IInv
BY InitInv, NextInv, PTL DEF Spec

\* Each tick finds segments, handler and CPU, whatever the MADT holds, and a
\* thread exactly on the processor whose queue AddThread fills (scheduler.cpp:12-21,
\* 65-70); only a PIC that interrupts between its reset and its masking, a missing screen
\* or a bitmap without room ends in a triple fault (kernel.cpp:81-152, idt.cpp:104-115,
\* pic.cpp:3-18, acpi.cpp:50-97, apic.cpp:28-105).
THEOREM InterruptsAreAnswered == Spec => []InterruptsFindTheWay
<1>1. IInv => InterruptsFindTheWay
  BY DEF IInv
<1> QED
  BY <1>1, InductiveInvariant, PTL

\* No boot gets past a step that its machine should have ended it at, and one that
\* stops without a PIC's interrupt does so at the first such step: at an override too
\* many only after that many, at the first thread only on the processor with LAPIC id 0,
\* and never while it idles elsewhere (kernel.cpp:81-152, acpi.cpp:64-96,
\* vmm.cpp:119-123, pmm.cpp:132-135).
THEOREM BootsStopAtTheirEnd == Spec => []StopsAtItsEnd
<1>1. IInv => StopsAtItsEnd
  BY DEF IInv
<1> QED
  BY <1>1, InductiveInvariant, PTL
=============================================================================
