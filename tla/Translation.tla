---------------------------- MODULE Translation ----------------------------
(***************************************************************************)
(* machine/translate.cc: every access of a user program goes through a     *)
(* linear page table or a TLB, which checks it, marks the page used and    *)
(* dirty, and names the bytes of mainMemory it means.  The machine has one *)
(* or the other: "table" is pageTable, or tlb when useTLB.                 *)
(***************************************************************************)
EXTENDS Words, Sequences, FiniteSets

CONSTANTS PageSize, NumPhysPages, TLBSize
ASSUME PageAssumption ==
  /\ PageSize \in Nat \ {0} /\ PageSize % 4 = 0     \* no word lies in two pages
  /\ NumPhysPages \in Nat /\ TLBSize \in Nat

VARIABLES mainMemory, table, useTLB

MemorySize == NumPhysPages * PageSize

TranslationEntry == [virtualPage : Nat, physicalPage : Nat, valid : BOOLEAN,
                     readOnly : BOOLEAN, use : BOOLEAN, dirty : BOOLEAN]

vpn(virtAddr) == virtAddr \div PageSize

\* the index of the entry that translates page p, the first one if several do, 0 if none does
Lookup(tb, p) ==
  LET found == {n \in DOMAIN tb : tb[n].valid /\ (IF useTLB THEN tb[n].virtualPage = p ELSE n = p + 1)}
  IN IF found = {} THEN 0 ELSE CHOOSE n \in found : \A m \in found : n <= m

\* what Translate returns for an access of "size" bytes
Exception(tb, virtAddr, size, writing) ==
  LET n == Lookup(tb, vpn(virtAddr))
  IN IF virtAddr % size # 0 THEN "AddressErrorException"
     ELSE IF ~useTLB /\ vpn(virtAddr) >= Len(tb) THEN "AddressErrorException"
     ELSE IF n = 0 THEN "PageFaultException"
     ELSE IF tb[n].readOnly /\ writing THEN "ReadOnlyException"
     ELSE IF tb[n].physicalPage >= NumPhysPages THEN "BusErrorException"
     ELSE "NoException"

\* A variant that does not note a write.
Touch_NotDirty(tb, virtAddr, writing) == [tb EXCEPT ![Lookup(tb, vpn(virtAddr))].use = TRUE]

\* the table after a successful access: the use and dirty bits of its entry
Touch(tb, virtAddr, writing) ==
  [tb EXCEPT ![Lookup(tb, vpn(virtAddr))].use = TRUE,
             ![Lookup(tb, vpn(virtAddr))].dirty = @ \/ writing]

physAddr(tb, virtAddr) ==
  tb[Lookup(tb, vpn(virtAddr))].physicalPage * PageSize + (virtAddr % PageSize)

\* main memory holds words little end first whatever the host, which WordToHost sees to
ReadMem(tb, virtAddr, size) ==
  LET byte(k) == IF k < size THEN mainMemory[physAddr(tb, virtAddr) + k] * TwoTo[ByteBits * k] ELSE 0
  IN byte(0) + byte(1) + byte(2) + byte(3)

WriteMem(tb, virtAddr, size, value) ==
  LET first == physAddr(tb, virtAddr)
  IN [a \in DOMAIN mainMemory |->
        IF a \in first .. first + size - 1 THEN Low(ShiftRight(value, ByteBits * (a - first)), ByteBits)
        ELSE mainMemory[a]]
=============================================================================
